----------------------------- MODULE AccessProofs -----------------------------
(***************************************************************************)
(* Proofs about Access, for any numbers of guests, phones, shares, devices *)
(* and tickets: the types, that no ticket outlives the revoking of its     *)
(* share, and that a revoke takes the subscriptions along.                 *)
(***************************************************************************)
EXTENDS Access, TLAPS

(* What belongs to what. *)
LEMMA Kinds ==
  /\ Guests \subseteq Browsers /\ Phones \subseteq Browsers
  /\ Shares \subseteq Grants /\ Devices \subseteq Grants /\ Shares \cap Devices = {}
  /\ \A b \in Guests : Link[b] \in Shares
  /\ None \notin Grants
  BY AccessConstants DEF Browsers, Grants

(* Helpers stay within the types. *)
LEMMA HelperTypes ==
  ASSUME TypeOK, NEW gs \in SUBSET Grants
  PROVE  /\ Unsubscribed(gs) \in [Browsers -> Grants \cup {None}]
         /\ Revoked(gs) => /\ grant' \in [Grants -> {"unmade", "live", "expired", "lapsed", "revoked"}]
                           /\ sub' \in [Browsers -> Grants \cup {None}]
         /\ TicketsDropped(gs) =>
              /\ ticket' \in [Tickets -> {"none", "pending", "admitted", "denied"}]
              /\ asker' \in [Tickets -> Guests \cup {None}]
  BY DEF TypeOK, Unsubscribed, Revoked, TicketsDropped

LEMMA PrunedType ==
  ASSUME TypeOK, NEW kind
  PROVE  Pruned(kind) \in [Grants -> {"unmade", "live", "expired", "lapsed", "revoked"}]
  BY DEF TypeOK, Pruned

-----------------------------------------------------------------------------
(* Types, by the groups of actions. *)
LEMMA EndsType == ASSUME TypeOK, Ends PROVE TypeOK'
<1>1. CASE \E s \in Shares : CreateShare(s)
  BY <1>1, Kinds DEF CreateShare, TypeOK, desk, feeds
<1>2. CASE \E s \in Shares : RevokeShare(s)
  <2>1. PICK s \in Shares : RevokeShare(s) BY <1>2
  <2>2. {s} \in SUBSET Grants BY Kinds
  <2> QED BY <2>1, <2>2, HelperTypes DEF RevokeShare, TypeOK, feeds
<1>3. CASE \E ss \in SUBSET Shares : SessionGone(ss)
  <2>1. PICK ss \in SUBSET Shares : SessionGone(ss) BY <1>3
  <2>2. ss \in SUBSET Grants BY Kinds
  <2> QED BY <2>1, <2>2, HelperTypes DEF SessionGone, TypeOK, feeds
<1>4. CASE \E d \in Devices : RevokeDevice(d)
  <2>1. PICK d \in Devices : RevokeDevice(d) BY <1>4
  <2>2. {d} \in SUBSET Grants BY Kinds
  <2> QED BY <2>1, <2>2, HelperTypes DEF RevokeDevice, TypeOK, feeds, desk
<1>5. CASE \E g \in Grants : Expire(g)
  BY <1>5 DEF Expire, TypeOK, desk, feeds
<1>6. CASE \E kind \in {Shares, Devices} : List(kind)
  BY <1>6, PrunedType DEF List, TypeOK, desk, feeds
<1>7. CASE RevokeAll
  <2> DEFINE gs == {g \in Grants : Held(g)}
             ss == {s \in Shares : Held(s)}
  <2>1. gs \in SUBSET Grants /\ ss \in SUBSET Grants BY Kinds
  <2>2. Revoked(gs) /\ TicketsDropped(ss) /\ codes' = 0 BY <1>7 DEF RevokeAll
  <2>3. 0 \in 0..MaxCodes BY AccessConstants
  <2>4. UNCHANGED <<holds, cookie, posting, feeds>> BY <1>7 DEF RevokeAll
  <2> HIDE DEF gs, ss
  <2> QED BY <2>1, <2>2, <2>3, <2>4, HelperTypes DEF TypeOK, feeds
<1>8. CASE Restart
  BY <1>8, AccessConstants DEF Restart, TypeOK, feeds
<1> QED BY <1>1, <1>2, <1>3, <1>4, <1>5, <1>6, <1>7, <1>8 DEF Ends

LEMMA DeskType == ASSUME TypeOK, Desk PROVE TypeOK'
<1>1. PICK t \in Tickets : \/ \E b \in Guests : Ask(b, t)
                          \/ \E by \in Guests \cup {None} : Admit(t, by) \/ Deny(t, by)
                          \/ Stale(t)
  BY DEF Desk
<1>2. CASE \E b \in Guests : Ask(b, t)
  BY <1>2 DEF Ask, TypeOK, feeds
<1>3. CASE \E by \in Guests \cup {None} : Admit(t, by)
  BY <1>3 DEF Admit, TypeOK, feeds
<1>4. CASE \E by \in Guests \cup {None} : Deny(t, by)
  <2> DEFINE s == Link[asker[t]]
  <2>1. PICK by \in Guests \cup {None} : Deny(t, by) BY <1>4
  <2>2. /\ TicketsDropped({s}) /\ UNCHANGED <<holds, codes, cookie, posting, feeds>>
        /\ IF Held(s) THEN Revoked({s}) ELSE UNCHANGED <<grant, sub>>
    BY <2>1 DEF Deny
  <2> HIDE DEF s
  <2>3. /\ ticket' \in [Tickets -> {"none", "pending", "admitted", "denied"}]
        /\ asker' \in [Tickets -> Guests \cup {None}]
    BY <2>2 DEF TicketsDropped, TypeOK
  <2>4. /\ grant' \in [Grants -> {"unmade", "live", "expired", "lapsed", "revoked"}]
        /\ sub' \in [Browsers -> Grants \cup {None}]
    BY <2>2 DEF Revoked, Unsubscribed, TypeOK
  <2> QED BY <2>2, <2>3, <2>4 DEF TypeOK, feeds
<1>5. CASE Stale(t)
  BY <1>5 DEF Stale, TypeOK, feeds
<1> QED BY <1>1, <1>2, <1>3, <1>4, <1>5

LEMMA PhoneType == ASSUME TypeOK, Phone PROVE TypeOK'
<1>1. CASE MintCode
  BY <1>1, PrunedType, AccessConstants DEF MintCode, CodesKept, TypeOK, desk, feeds
<1>2. CASE CodesExpire
  BY <1>2, AccessConstants DEF CodesExpire, TypeOK, desk, feeds
<1>3. CASE \E p \in Phones, d \in Devices : Enrol(p, d)
  <2>1. PICK p \in Phones, d \in Devices : Enrol(p, d) BY <1>3
  <2>2. Superseded(p) \in SUBSET Grants BY Kinds DEF Superseded, DevicesHeld
  <2>3. /\ Unsubscribed(Superseded(p)) \in [Browsers -> Grants \cup {None}]
        /\ Pruned(Devices) \in [Grants -> {"unmade", "live", "expired", "lapsed", "revoked"}]
    BY <2>2, HelperTypes, PrunedType
  <2>4. codes' \in 0..MaxCodes BY <2>1, AccessConstants DEF Enrol, TypeOK
  <2>5. UNCHANGED <<desk, holds, posting, feeds>> BY <2>1 DEF Enrol
  <2>6. CASE Cardinality(DevicesHeld) < MaxDevices
    <3>1. /\ grant' = [g \in Grants |-> IF g = d THEN "live" ELSE IF g \in Superseded(p) THEN "revoked"
                                              ELSE Pruned(Devices)[g]]
          /\ sub' = Unsubscribed(Superseded(p)) /\ cookie' = [cookie EXCEPT ![p] = d]
      BY <2>1, <2>6 DEF Enrol
    <3> QED BY <3>1, <2>3, <2>4, <2>5, Kinds DEF TypeOK, desk, feeds
  <2>7. CASE ~(Cardinality(DevicesHeld) < MaxDevices)
    <3>1. grant' = Pruned(Devices) /\ UNCHANGED <<sub, cookie>> BY <2>1, <2>7 DEF Enrol
    <3> QED BY <3>1, <2>3, <2>4, <2>5 DEF TypeOK, desk, feeds
  <2> QED BY <2>6, <2>7
<1> QED BY <1>1, <1>2, <1>3 DEF Phone

LEMMA BrowserType == ASSUME TypeOK, Browser PROVE TypeOK'
<1> USE DEF TypeOK
<1>1. CASE \E b \in Guests : Claim(b)
  BY <1>1, Kinds DEF Claim, Claimable, Mine, feeds
<1>2. CASE \E b \in Guests : ToldNo(b)
  BY <1>2 DEF ToldNo, desk, feeds
<1>3. CASE \E b \in Guests : Leave(b)
  BY <1>3, Kinds DEF Leave, desk
<1>4. CASE \E b \in Browsers : SubscribePost(b)
  BY <1>4 DEF SubscribePost, desk, feeds
<1>5. CASE \E b \in Browsers : SubscribeStore(b)
  BY <1>5 DEF SubscribeStore, desk, feeds
<1>6. CASE \E b \in Browsers : Unsubscribe(b)
  BY <1>6 DEF Unsubscribe, desk, feeds
<1>7. CASE \E b \in Browsers : FeedCheck(b)
  BY <1>7, AccessConstants DEF FeedCheck, Blip, desk
<1>8. CASE \E b \in Browsers : FeedAttach(b)
  BY <1>8 DEF FeedAttach, desk
<1>9. CASE \E b \in Browsers : FeedCloses(b)
  BY <1>9 DEF FeedCloses, desk
<1> QED BY <1>1, <1>2, <1>3, <1>4, <1>5, <1>6, <1>7, <1>8, <1>9 DEF Browser

LEMMA ReaperType == ASSUME TypeOK, ReaperAsks \/ ReaperCuts PROVE TypeOK'
<1>1. Watched \subseteq Grants BY DEF Watched, TypeOK
<1>2. CASE ReaperAsks
  <2>1. reaper' \in [at : {"idle", "told"}, dead : SUBSET Grants] BY <1>1, <1>2 DEF ReaperAsks
  <2>2. blips' \in 0..MaxBlips BY <1>2, AccessConstants DEF ReaperAsks, Blip, TypeOK
  <2> QED BY <1>2, <2>1, <2>2 DEF ReaperAsks, TypeOK, desk
<1>3. CASE ReaperCuts
  BY <1>3 DEF ReaperCuts, TypeOK, desk
<1> QED BY <1>2, <1>3

LEMMA TypeStep == TypeOK /\ [Next]_vars => TypeOK'
<1> SUFFICES ASSUME TypeOK, [Next]_vars PROVE TypeOK' OBVIOUS
<1>1. CASE UNCHANGED vars BY <1>1 DEF TypeOK, vars
<1> QED BY <1>1, EndsType, DeskType, PhoneType, BrowserType, ReaperType DEF Next

(* Every variable of Access always has its type. *)
THEOREM TypeCorrect == Spec => []TypeOK
<1>1. Init => TypeOK BY AccessConstants DEF Init, TypeOK
<1> QED BY <1>1, TypeStep, PTL DEF Spec

-----------------------------------------------------------------------------
(* Every ticket on the desk has a guest's name on it, and no revoked share. *)
AskersKnown == \A t \in Tickets : ticket[t] # "none" => asker[t] \in Guests
DeskInv == AskersKnown /\ NoTicketOfRevoked

(* A revoke that drops the tickets of every share among its grants keeps   *)
(* the desk clean.                                                         *)
LEMMA RevokeClearsDesk ==
  ASSUME TypeOK, DeskInv, NEW gs, NEW ss,
         Revoked(gs), TicketsDropped(ss), gs \cap Shares \subseteq ss
  PROVE  DeskInv'
<1> SUFFICES ASSUME NEW t \in Tickets, ticket'[t] # "none"
             PROVE  asker'[t] \in Guests /\ grant'[Link[asker'[t]]] # "revoked"
  BY DEF DeskInv, AskersKnown, NoTicketOfRevoked
<1>1. /\ ticket[t] # "none" /\ asker'[t] = asker[t]
      /\ ~(asker[t] # None /\ Link[asker[t]] \in ss)
  BY DEF TicketsDropped, TypeOK
<1>2. asker[t] \in Guests /\ grant[Link[asker[t]]] # "revoked"
  BY <1>1 DEF DeskInv, AskersKnown, NoTicketOfRevoked
<1>3. Link[asker[t]] \in Shares /\ Link[asker[t]] \in Grants /\ asker[t] # None
  BY <1>2, Kinds, AccessConstants
<1>4. Link[asker[t]] \notin gs BY <1>1, <1>3
<1> QED BY <1>1, <1>2, <1>3, <1>4 DEF Revoked

(* Nor does anything else that revokes no share and puts up no ticket. *)
LEMMA DeskKept ==
  ASSUME TypeOK, DeskInv,
         \A t \in Tickets : ticket'[t] # "none" => ticket[t] # "none" /\ asker'[t] = asker[t],
         \A s \in Shares : grant'[s] = "revoked" => grant[s] = "revoked"
  PROVE  DeskInv'
<1> SUFFICES ASSUME NEW t \in Tickets, ticket'[t] # "none"
             PROVE  asker'[t] \in Guests /\ grant'[Link[asker'[t]]] # "revoked"
  BY DEF DeskInv, AskersKnown, NoTicketOfRevoked
<1>1. ticket[t] # "none" /\ asker'[t] = asker[t] OBVIOUS
<1>2. asker[t] \in Guests /\ grant[Link[asker[t]]] # "revoked"
  BY <1>1 DEF DeskInv, AskersKnown, NoTicketOfRevoked
<1> QED BY <1>1, <1>2, Kinds

LEMMA EndsDesk == ASSUME TypeOK, DeskInv, Ends PROVE DeskInv'
<1>1. CASE \E s \in Shares : CreateShare(s)
  BY <1>1, DeskKept, Kinds DEF CreateShare, TypeOK, desk
<1>2. CASE \E s \in Shares : RevokeShare(s)
  <2>1. PICK s \in Shares : RevokeShare(s) BY <1>2
  <2>2. Revoked({s}) /\ TicketsDropped({s}) BY <2>1 DEF RevokeShare
  <2>3. {s} \cap Shares \subseteq {s} OBVIOUS
  <2> QED BY <2>2, <2>3, RevokeClearsDesk
<1>3. CASE \E ss \in SUBSET Shares : SessionGone(ss)
  <2>1. PICK ss \in SUBSET Shares : SessionGone(ss) BY <1>3
  <2>2. Revoked(ss) /\ TicketsDropped(ss) BY <2>1 DEF SessionGone
  <2>3. ss \cap Shares \subseteq ss OBVIOUS
  <2> QED BY <2>2, <2>3, RevokeClearsDesk
<1>4. CASE \E d \in Devices : RevokeDevice(d)
  BY <1>4, DeskKept, Kinds DEF RevokeDevice, Revoked, TypeOK, desk
<1>5. CASE \E g \in Grants : Expire(g)
  BY <1>5, DeskKept, Kinds DEF Expire, TypeOK, desk
<1>6. CASE \E kind \in {Shares, Devices} : List(kind)
  BY <1>6, DeskKept, Kinds DEF List, Pruned, TypeOK, desk
<1>7. CASE RevokeAll
  <2> DEFINE gs == {g \in Grants : Held(g)}
             ss == {s \in Shares : Held(s)}
  <2>1. Revoked(gs) /\ TicketsDropped(ss) BY <1>7 DEF RevokeAll
  <2>2. gs \cap Shares \subseteq ss BY Kinds
  <2> HIDE DEF gs, ss
  <2> QED BY <2>1, <2>2, RevokeClearsDesk
<1>8. CASE Restart
  BY <1>8 DEF Restart, DeskInv, AskersKnown, NoTicketOfRevoked
<1> QED BY <1>1, <1>2, <1>3, <1>4, <1>5, <1>6, <1>7, <1>8 DEF Ends

LEMMA DeskDesk == ASSUME TypeOK, DeskInv, Desk PROVE DeskInv'
<1>1. PICK t \in Tickets : \/ \E b \in Guests : Ask(b, t)
                          \/ \E by \in Guests \cup {None} : Admit(t, by) \/ Deny(t, by)
                          \/ Stale(t)
  BY DEF Desk
<1>2. CASE \E b \in Guests : Ask(b, t)
  BY <1>2, Kinds DEF Ask, Redeemable, Live, DeskInv, AskersKnown, NoTicketOfRevoked, TypeOK
<1>3. CASE \E by \in Guests \cup {None} : Admit(t, by)
  BY <1>3, DeskKept DEF Admit, TypeOK
<1>4. CASE \E by \in Guests \cup {None} : Deny(t, by)
  <2> DEFINE s == Link[asker[t]]
  <2>1. /\ TicketsDropped({s})
        /\ IF Held(s) THEN Revoked({s}) ELSE UNCHANGED <<grant, sub>>
    BY <1>4 DEF Deny
  <2> HIDE DEF s
  <2>2. CASE Held(s)
    <3>1. {s} \cap Shares \subseteq {s} OBVIOUS
    <3> QED BY <2>1, <2>2, <3>1, RevokeClearsDesk
  <2>3. CASE ~Held(s)
    BY <2>1, <2>3, DeskKept DEF TicketsDropped, TypeOK
  <2> QED BY <2>2, <2>3
<1>5. CASE Stale(t)
  BY <1>5, DeskKept DEF Stale, TypeOK
<1> QED BY <1>1, <1>2, <1>3, <1>4, <1>5

LEMMA RestDesk ==
  ASSUME TypeOK, DeskInv, Phone \/ Browser \/ ReaperAsks \/ ReaperCuts \/ UNCHANGED vars
  PROVE  DeskInv'
<1>1. CASE Phone
  <2>1. UNCHANGED desk BY <1>1 DEF Phone, MintCode, CodesExpire, Enrol
  <2>2. \A s \in Shares : grant'[s] = "revoked" => grant[s] = "revoked"
    <3>1. CASE \E p \in Phones, d \in Devices : Enrol(p, d)
      BY <3>1, Kinds DEF Enrol, Superseded, DevicesHeld, Pruned, TypeOK
    <3>2. CASE MintCode BY <3>2, Kinds DEF MintCode, Pruned, TypeOK
    <3>3. CASE CodesExpire BY <3>3 DEF CodesExpire
    <3> QED BY <1>1, <3>1, <3>2, <3>3 DEF Phone
  <2> QED BY <2>1, <2>2, DeskKept DEF desk
<1>2. CASE Browser
  <2>1. UNCHANGED grant
    BY <1>2 DEF Browser, Claim, ToldNo, Leave, SubscribePost, SubscribeStore, Unsubscribe,
                FeedCheck, FeedAttach, FeedCloses
  <2>2. \A t \in Tickets : ticket'[t] # "none" => ticket[t] # "none" /\ asker'[t] = asker[t]
    <3>1. CASE \E b \in Guests : Claim(b)
      BY <3>1 DEF Claim, Claimable, Mine, TypeOK
    <3>2. CASE ~\E b \in Guests : Claim(b)
      <4>1. UNCHANGED desk
        BY <1>2, <3>2 DEF Browser, ToldNo, Leave, SubscribePost, SubscribeStore, Unsubscribe,
                FeedCheck, FeedAttach, FeedCloses
      <4> QED BY <4>1 DEF desk
    <3> QED BY <3>1, <3>2
  <2> QED BY <2>1, <2>2, DeskKept
<1>3. CASE ReaperAsks \/ ReaperCuts
  BY <1>3, DeskKept DEF ReaperAsks, ReaperCuts, desk
<1>4. CASE UNCHANGED vars
  BY <1>4, DeskKept DEF vars, desk
<1> QED BY <1>1, <1>2, <1>3, <1>4

(* However a share is revoked, no ticket of it waits or can be claimed:    *)
(* every caller that revokes drops the tickets of all it revokes.          *)
THEOREM NoTicketSurvives == Spec => []NoTicketOfRevoked
<1>1. Init => TypeOK /\ DeskInv
  BY AccessConstants DEF Init, TypeOK, DeskInv, AskersKnown, NoTicketOfRevoked
<1>2. TypeOK /\ DeskInv /\ [Next]_vars => (TypeOK /\ DeskInv)'
  BY TypeStep, EndsDesk, DeskDesk, RestDesk DEF Next
<1>3. DeskInv => NoTicketOfRevoked BY DEF DeskInv
<1> QED BY <1>1, <1>2, <1>3, PTL DEF Spec

-----------------------------------------------------------------------------
(* A step in which nothing but its own post dangles. *)
Clean == \A b \in Browsers : Dangling(b)' /\ ~Dangling(b) => sub'[b] = posting[b]

(* Whatever is revoked, the subscriptions of it go in the same step. *)
LEMMA RevokeCleans ==
  ASSUME TypeOK, NEW gs, Revoked(gs)
  PROVE  Clean
  BY Kinds DEF TypeOK, Revoked, Unsubscribed, Clean, Dangling

(* And where nothing is revoked and nothing stored, nothing new dangles. *)
LEMMA QuietCleans ==
  ASSUME TypeOK, UNCHANGED sub, \A g \in Grants : grant'[g] = "revoked" => grant[g] = "revoked"
  PROVE  Clean
  BY Kinds DEF TypeOK, Clean, Dangling

LEMMA EveryStepCleans == ASSUME TypeOK, [Next]_vars PROVE Clean
<1>1. CASE Desk
  <2>1. PICK t \in Tickets : \/ \E b \in Guests : Ask(b, t)
                            \/ \E by \in Guests \cup {None} : Admit(t, by) \/ Deny(t, by)
                            \/ Stale(t)
    BY <1>1 DEF Desk
  <2>2. CASE \E by \in Guests \cup {None} : Deny(t, by)
    BY <2>2, RevokeCleans, QuietCleans DEF Deny
  <2>3. CASE ~\E by \in Guests \cup {None} : Deny(t, by)
    BY <2>1, <2>3, QuietCleans DEF Ask, Admit, Stale
  <2> QED BY <2>2, <2>3
<1>2. CASE Ends
  <2>1. CASE \E s \in Shares : RevokeShare(s)
    BY <2>1, RevokeCleans DEF RevokeShare
  <2>2. CASE \E ss \in SUBSET Shares : SessionGone(ss)
    BY <2>2, RevokeCleans DEF SessionGone
  <2>3. CASE \E d \in Devices : RevokeDevice(d)
    BY <2>3, RevokeCleans DEF RevokeDevice
  <2>4. CASE RevokeAll
    BY <2>4, RevokeCleans DEF RevokeAll
  <2>5. CASE Restart
    BY <2>5 DEF Restart, Clean, Dangling
  <2>6. CASE \E s \in Shares : CreateShare(s)
    BY <2>6, QuietCleans, Kinds DEF CreateShare, TypeOK
  <2>7. CASE \E g \in Grants : Expire(g)
    BY <2>7, QuietCleans DEF Expire, TypeOK
  <2>8. CASE \E kind \in {Shares, Devices} : List(kind)
    BY <2>8, QuietCleans DEF List, Pruned, TypeOK
  <2> QED BY <1>2, <2>1, <2>2, <2>3, <2>4, <2>5, <2>6, <2>7, <2>8 DEF Ends
<1>3. CASE Phone
  <2>1. CASE MintCode
    BY <2>1, QuietCleans DEF MintCode, Pruned, TypeOK
  <2>2. CASE CodesExpire
    BY <2>2, QuietCleans DEF CodesExpire
  <2>3. CASE \E p \in Phones, d \in Devices : Enrol(p, d)
    <3>1. PICK p \in Phones, d \in Devices : Enrol(p, d) BY <2>3
    <3>2. CASE Cardinality(DevicesHeld) < MaxDevices
      <4>1. /\ grant' = [g \in Grants |-> IF g = d THEN "live" ELSE IF g \in Superseded(p) THEN "revoked"
                                              ELSE Pruned(Devices)[g]]
            /\ sub' = Unsubscribed(Superseded(p))
        BY <3>1, <3>2 DEF Enrol
      <4> QED BY <4>1, Kinds DEF Unsubscribed, Pruned, Clean, Dangling, TypeOK
    <3>3. CASE ~(Cardinality(DevicesHeld) < MaxDevices)
      BY <3>1, <3>3, QuietCleans DEF Enrol, Pruned, TypeOK
    <3> QED BY <3>2, <3>3
  <2> QED BY <1>3, <2>1, <2>2, <2>3 DEF Phone
<1>4. CASE Browser
  <2>1. CASE \E b \in Browsers : SubscribeStore(b)
    BY <2>1, Kinds DEF SubscribeStore, Clean, Dangling, TypeOK
  <2>2. CASE \E b \in Browsers : Unsubscribe(b)
    BY <2>2, Kinds DEF Unsubscribe, Clean, Dangling, TypeOK
  <2>3. CASE ~\E b \in Browsers : SubscribeStore(b) \/ Unsubscribe(b)
    <3>1. UNCHANGED <<grant, sub>>
      BY <1>4, <2>3 DEF Browser, Claim, ToldNo, Leave, SubscribePost, FeedCheck, FeedAttach, FeedCloses
    <3> QED BY <3>1, QuietCleans
  <2> QED BY <2>1, <2>2, <2>3
<1>5. CASE ReaperAsks \/ ReaperCuts
  BY <1>5, QuietCleans DEF ReaperAsks, ReaperCuts
<1>6. CASE UNCHANGED vars
  BY <1>6, QuietCleans DEF vars
<1> QED BY <1>1, <1>2, <1>3, <1>4, <1>5, <1>6 DEF Next

(* Revoking takes the push subscriptions along, on every path there is.    *)
THEOREM RevokeUnsubscribes == Spec => SubsDieWithRevoke
<1>1. TypeOK /\ [Next]_vars => [Clean]_vars BY EveryStepCleans
<1> QED BY <1>1, TypeCorrect, PTL DEF Spec, SubsDieWithRevoke, Clean
=============================================================================
