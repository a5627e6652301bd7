-------------------------------- MODULE Access --------------------------------
(***************************************************************************)
(* Who may look in: guests with a share of a session (sandbox/lib/         *)
(* shares.ts) whom somebody inside admits (peer-joins.ts), the host's own  *)
(* enrolled devices (host-devices.ts), and what a browser holds by them -  *)
(* a cookie, a live feed on the front's WebSocket, a push subscription     *)
(* (push.ts).  The registries are the authority and every request is       *)
(* checked against them; a feed and a subscription are not requests, and   *)
(* have to be taken away when the grant they stand on dies.                *)
(*                                                                         *)
(* A handler runs to its next await.  Two of them matter here: a           *)
(* subscription is authorised before its body is read and stored after,    *)
(* and a feed is attached some time after the sandbox was asked.           *)
(***************************************************************************)
EXTENDS Naturals, FiniteSets

CONSTANTS Guests,     \* browsers a share link was sent to
          Phones,     \* browsers that enrol as the host's own devices
          Shares, Devices,
          Link,       \* the share each guest's link names
          Full,       \* the shares whose capability is full: their guests may admit
          Watchers,   \* the browsers that open a live feed
          Subscribers,\* the browsers that subscribe to push
          Tickets,    \* the join tickets kept; one more drops the oldest
          Expiring,   \* the grants made with a time limit
          MaxDevices, \* devices enrolled at a time
          MaxCodes,   \* enrolment codes kept; one more drops the oldest
          MaxBlips,   \* liveness checks the sandbox does not answer
          None

ASSUME AccessConstants ==
  /\ Link \in [Guests -> Shares] /\ Full \subseteq Shares
  /\ Guests \cap Phones = {} /\ Shares \cap Devices = {}
  /\ None \notin Shares \cup Devices \cup Tickets \cup Guests
  /\ MaxDevices \in Nat /\ MaxCodes \in Nat /\ MaxBlips \in Nat

Browsers == Guests \cup Phones
Grants == Shares \cup Devices

VARIABLES
  grant,   \* each share and device: unmade, live, expired (still in the map),
           \* lapsed (pruned after it expired) or revoked
  ticket,  \* the desk: each ticket's state
  asker,   \* the guest whose redeemed link made it
  holds,   \* the ticket whose secret is in a guest's pending cookie
  codes,   \* outstanding enrolment codes
  cookie,  \* the grant each browser's cookie names
  posting, \* POST /push/subscribe: authorised for a grant, its body being read
  sub,     \* the grant each browser's push subscription is stored under
  feed,    \* the grant each browser's live feed was opened with
  opening, \* an upgrade the sandbox said yes to, not attached yet
  reaper,  \* the five-second sweep: idle, or the dead grants it was told of
  blips

vars == <<grant, ticket, asker, holds, codes, cookie, posting, sub, feed, opening,
          reaper, blips>>
desk == <<ticket, asker>>
feeds == <<feed, opening, reaper, blips>>

TypeOK ==
  /\ grant \in [Grants -> {"unmade", "live", "expired", "lapsed", "revoked"}]
  /\ ticket \in [Tickets -> {"none", "pending", "admitted", "denied"}]
  /\ asker \in [Tickets -> Guests \cup {None}]
  /\ holds \in [Guests -> Tickets \cup {None}]
  /\ codes \in 0..MaxCodes
  /\ cookie \in [Browsers -> Grants \cup {None}]
  /\ posting \in [Browsers -> Grants \cup {None}]
  /\ sub \in [Browsers -> Grants \cup {None}]
  /\ feed \in [Browsers -> Grants \cup {None}]
  /\ opening \in [Browsers -> Grants \cup {None}]
  /\ reaper \in [at : {"idle", "told"}, dead : SUBSET Grants]
  /\ blips \in 0..MaxBlips

Init ==
  /\ grant = [g \in Grants |-> "unmade"]
  /\ ticket = [t \in Tickets |-> "none"] /\ asker = [t \in Tickets |-> None]
  /\ holds = [b \in Guests |-> None] /\ codes = 0
  /\ cookie = [b \in Browsers |-> None] /\ posting = [b \in Browsers |-> None]
  /\ sub = [b \in Browsers |-> None]
  /\ feed = [b \in Browsers |-> None] /\ opening = [b \in Browsers |-> None]
  /\ reaper = [at |-> "idle", dead |-> {}] /\ blips = 0

Live(g) == g # None /\ grant[g] = "live"
Held(g) == grant[g] \in {"live", "expired"}   \* still in its registry's map

-----------------------------------------------------------------------------
(* The end of grants.  Every way of revoking deletes the records and tells *)
(* the listeners, of which push.ts is one; the caller drops the tickets of *)
(* the shares.                                                             *)

(* The mutated registry has no listener. *)
NobodyListens(gs) == sub
Unsubscribed(gs) == [b \in Browsers |-> IF sub[b] \in gs THEN None ELSE sub[b]]

(* The mutated caller forgets the tickets. *)
TicketsStay(gs) == UNCHANGED desk
TicketsDropped(gs) ==
  LET gone == {t \in Tickets : asker[t] # None /\ Link[asker[t]] \in gs}
  IN  /\ ticket' = [t \in Tickets |-> IF t \in gone THEN "none" ELSE ticket[t]]
      /\ asker' = [t \in Tickets |-> IF t \in gone THEN None ELSE asker[t]]

Revoked(gs) ==
  /\ grant' = [g \in Grants |-> IF g \in gs THEN "revoked" ELSE grant[g]]
  /\ sub' = Unsubscribed(gs)

(* POST /shares/:id/revoke, by the host or a full guest of that session. *)
RevokeShare(s) ==
  /\ Live(s)
  /\ Revoked({s}) /\ TicketsDropped({s})
  /\ UNCHANGED <<holds, codes, cookie, posting, feeds>>

(* POST /shares/revoke-all: the tunnel is gone, and all it carried. *)
RevokeAll ==
  /\ Revoked({g \in Grants : Held(g)}) /\ TicketsDropped({s \in Shares : Held(s)})
  /\ codes' = 0
  /\ UNCHANGED <<holds, cookie, posting, feeds>>

(* A session deleted, burnt or left idle past the grace: its shares. *)
SessionGone(ss) ==
  /\ ss # {} /\ \A s \in ss : Held(s)
  /\ Revoked(ss) /\ TicketsDropped(ss)
  /\ UNCHANGED <<holds, codes, cookie, posting, feeds>>

RevokeDevice(d) ==
  /\ Held(d)
  /\ Revoked({d})
  /\ UNCHANGED <<desk, holds, codes, cookie, posting, feeds>>

(* Time runs out; the record stays until a listing prunes it, and nobody   *)
(* is told.                                                                *)
Expire(g) ==
  /\ g \in Expiring /\ grant[g] = "live"
  /\ grant' = [grant EXCEPT ![g] = "expired"]
  /\ UNCHANGED <<desk, holds, codes, cookie, posting, sub, feeds>>

Pruned(kind) == [g \in Grants |-> IF g \in kind /\ grant[g] = "expired" THEN "lapsed" ELSE grant[g]]

List(kind) ==
  /\ \E g \in kind : grant[g] = "expired"
  /\ grant' = Pruned(kind)
  /\ UNCHANGED <<desk, holds, codes, cookie, posting, sub, feeds>>

(* The sandbox restarts: shares, devices, tickets and codes are of one run *)
(* only, and of the subscriptions only the host's own browser's are kept.  *)
Restart ==
  /\ \E g \in Grants : Held(g)
  /\ grant' = [g \in Grants |-> IF Held(g) THEN "revoked" ELSE grant[g]]
  /\ ticket' = [t \in Tickets |-> "none"] /\ asker' = [t \in Tickets |-> None]
  /\ codes' = 0
  /\ sub' = [b \in Browsers |-> None] /\ posting' = [b \in Browsers |-> None]
  /\ UNCHANGED <<holds, cookie, feeds>>

-----------------------------------------------------------------------------
(* A guest's way in. *)
CreateShare(s) ==
  /\ grant[s] = "unmade"
  /\ grant' = [grant EXCEPT ![s] = "live"]
  /\ UNCHANGED <<desk, holds, codes, cookie, posting, sub, feeds>>

(* POST /share/redeem: a live share's link, redeemed, is a pending ticket  *)
(* and a secret in the browser's cookie.                                   *)
Redeemable(b) == Live(Link[b]) /\ holds[b] = None

(* When every ticket is taken the oldest makes room; which one that is is  *)
(* left open.                                                              *)
Room(t) == ticket[t] = "none" \/ \A u \in Tickets : ticket[u] # "none"

Ask(b, t) ==
  /\ Redeemable(b) /\ Room(t)
  /\ ticket' = [ticket EXCEPT ![t] = "pending"] /\ asker' = [asker EXCEPT ![t] = b]
  /\ holds' = [holds EXCEPT ![b] = t]
  /\ UNCHANGED <<grant, codes, cookie, posting, sub, feeds>>

(* Who may answer a ticket: the host, or a full guest of the same session  *)
(* (the sessions' equivalence under resume is the registry's).             *)
MayAdmit(t, by) ==
  by # None => /\ Live(cookie[by]) /\ cookie[by] \in Full
               /\ cookie[by] = Link[asker[t]]

Admit(t, by) ==
  /\ ticket[t] = "pending" /\ MayAdmit(t, by)
  /\ ticket' = [ticket EXCEPT ![t] = "admitted"]
  /\ UNCHANGED <<grant, asker, holds, codes, cookie, posting, sub, feeds>>

(* A deny is hostile: the share goes, and its tickets, this one included.  *)
Deny(t, by) ==
  /\ ticket[t] = "pending" /\ MayAdmit(t, by)
  /\ LET s == Link[asker[t]] IN
       /\ IF Held(s) THEN Revoked({s}) ELSE UNCHANGED <<grant, sub>>
       /\ TicketsDropped({s})
  /\ UNCHANGED <<holds, codes, cookie, posting, feeds>>

(* The mutated sweep goes by the time of the answer, which a pending       *)
(* ticket has none of.                                                     *)
PendingKeeps(t) == ticket[t] \in {"admitted", "denied"}
HasTtl(t) == ticket[t] # "none"

Stale(t) ==
  /\ HasTtl(t)
  /\ ticket' = [ticket EXCEPT ![t] = "none"] /\ asker' = [asker EXCEPT ![t] = None]
  /\ UNCHANGED <<grant, holds, codes, cookie, posting, sub, feeds>>

(* The guest's page polls: admitted, it claims the ticket (once, with the  *)
(* secret) and its link becomes the peer cookie, whatever became of the    *)
(* share; gone, it has to ask again.                                       *)
Mine(b) == holds[b] # None /\ asker[holds[b]] = b
Claimable(b) == Mine(b) /\ ticket[holds[b]] = "admitted"
Claim(b) ==
  /\ Claimable(b)
  /\ ticket' = [ticket EXCEPT ![holds[b]] = "none"] /\ asker' = [asker EXCEPT ![holds[b]] = None]
  /\ cookie' = [cookie EXCEPT ![b] = Link[b]]
  /\ holds' = [holds EXCEPT ![b] = None]
  /\ UNCHANGED <<grant, codes, posting, sub, feeds>>

ToldNo(b) ==
  /\ holds[b] # None /\ ~(Mine(b) /\ ticket[holds[b]] \in {"pending", "admitted"})
  /\ holds' = [holds EXCEPT ![b] = None]
  /\ UNCHANGED <<grant, desk, codes, cookie, posting, sub, feeds>>

(* Leaving is the guest's own: the cookie goes, the share stays good. *)
Leave(b) ==
  /\ cookie[b] # None
  /\ cookie' = [cookie EXCEPT ![b] = None] /\ feed' = [feed EXCEPT ![b] = None]
  /\ UNCHANGED <<grant, desk, holds, codes, posting, sub, opening, reaper, blips>>

-----------------------------------------------------------------------------
(* A phone's way in: a code the host minted, refused once the list is      *)
(* full, and used once; a browser enrolled before has its old device       *)
(* retired.                                                                *)
DevicesHeld == {d \in Devices : Pruned(Devices)[d] = "live"}

(* A code more than are kept drops the oldest. *)
CodesKept == IF codes = MaxCodes THEN codes ELSE codes + 1

MintCode ==
  /\ Cardinality(DevicesHeld) < MaxDevices
  /\ grant' = Pruned(Devices)
  /\ codes' = CodesKept
  /\ UNCHANGED <<desk, holds, cookie, posting, sub, feeds>>

CodesExpire ==
  /\ codes > 0 /\ codes' = codes - 1
  /\ UNCHANGED <<grant, desk, holds, cookie, posting, sub, feeds>>

Superseded(p) == {d \in DevicesHeld : d = cookie[p]}

Enrol(p, d) ==
  /\ codes > 0 /\ codes' = codes - 1
  /\ grant[d] = "unmade"
  /\ IF Cardinality(DevicesHeld) < MaxDevices
       THEN LET old == Superseded(p) IN
              /\ grant' = [g \in Grants |-> IF g = d THEN "live" ELSE IF g \in old THEN "revoked"
                                              ELSE Pruned(Devices)[g]]
              /\ sub' = Unsubscribed(old)
              /\ cookie' = [cookie EXCEPT ![p] = d]
       ELSE /\ grant' = Pruned(Devices)
            /\ UNCHANGED <<sub, cookie>>
  /\ UNCHANGED <<desk, holds, posting, feeds>>

-----------------------------------------------------------------------------
(* Push. *)
SubscribePost(b) ==
  /\ b \in Subscribers /\ posting[b] = None /\ Live(cookie[b])
  /\ posting' = [posting EXCEPT ![b] = cookie[b]]
  /\ UNCHANGED <<grant, desk, holds, codes, cookie, sub, feeds>>

(* The body is read: stored, unless the endpoint is another owner's (every *)
(* device is the same owner, the host).                                    *)
SameOwner(g, h) == g = h \/ {g, h} \subseteq Devices
SubscribeStore(b) ==
  /\ posting[b] # None
  /\ sub' = IF sub[b] = None \/ SameOwner(sub[b], posting[b]) THEN [sub EXCEPT ![b] = posting[b]] ELSE sub
  /\ posting' = [posting EXCEPT ![b] = None]
  /\ UNCHANGED <<grant, desk, holds, codes, cookie, feeds>>

(* DELETE, by its owner while the grant lives; or the push service says    *)
(* the endpoint is gone.                                                   *)
Unsubscribe(b) ==
  /\ sub[b] # None
  /\ sub' = [sub EXCEPT ![b] = None]
  /\ UNCHANGED <<grant, desk, holds, codes, cookie, posting, feeds>>

-----------------------------------------------------------------------------
(* The live feed.  A check the sandbox does not answer counts as live.     *)
Blip == blips < MaxBlips /\ blips' = blips + 1

FeedCheck(b) ==
  /\ b \in Watchers /\ cookie[b] # None /\ feed[b] = None /\ opening[b] = None
  /\ \/ Live(cookie[b]) /\ UNCHANGED blips
     \/ Blip
  /\ opening' = [opening EXCEPT ![b] = cookie[b]]
  /\ UNCHANGED <<grant, desk, holds, codes, cookie, posting, sub, feed, reaper>>

FeedAttach(b) ==
  /\ opening[b] # None
  /\ feed' = [feed EXCEPT ![b] = opening[b]] /\ opening' = [opening EXCEPT ![b] = None]
  /\ UNCHANGED <<grant, desk, holds, codes, cookie, posting, sub, reaper, blips>>

FeedCloses(b) ==
  /\ feed[b] # None
  /\ feed' = [feed EXCEPT ![b] = None]
  /\ UNCHANGED <<grant, desk, holds, codes, cookie, posting, sub, opening, reaper, blips>>

(* The mutated sweep asks about shares only. *)
WatchedShares == {feed[b] : b \in Browsers} \cap Shares
Watched == {feed[b] : b \in Browsers} \ {None}

ReaperAsks ==
  /\ reaper.at = "idle"
  /\ \/ reaper' = [at |-> "told", dead |-> {g \in Watched : ~Live(g)}] /\ UNCHANGED blips
     \/ \E missed \in Watched :
          Blip /\ reaper' = [at |-> "told", dead |-> {g \in Watched \ {missed} : ~Live(g)}]
  /\ Watched # {}
  /\ UNCHANGED <<grant, desk, holds, codes, cookie, posting, sub, feed, opening>>

(* The feeds open by now, on any grant it was told is dead, are cut. *)
ReaperCuts ==
  /\ reaper.at = "told"
  /\ feed' = [b \in Browsers |-> IF feed[b] \in reaper.dead THEN None ELSE feed[b]]
  /\ reaper' = [at |-> "idle", dead |-> {}]
  /\ UNCHANGED <<grant, desk, holds, codes, cookie, posting, sub, opening, blips>>

-----------------------------------------------------------------------------
Desk == \E t \in Tickets :
          \/ \E b \in Guests : Ask(b, t)
          \/ \E by \in Guests \cup {None} : Admit(t, by) \/ Deny(t, by)
          \/ Stale(t)
Ends == \/ \E s \in Shares : CreateShare(s) \/ RevokeShare(s)
        \/ \E ss \in SUBSET Shares : SessionGone(ss)
        \/ \E d \in Devices : RevokeDevice(d)
        \/ \E g \in Grants : Expire(g)
        \/ \E kind \in {Shares, Devices} : List(kind)
        \/ RevokeAll \/ Restart
Phone == MintCode \/ CodesExpire \/ \E p \in Phones, d \in Devices : Enrol(p, d)
Browser == \/ \E b \in Guests : Claim(b) \/ ToldNo(b) \/ Leave(b)
           \/ \E b \in Browsers : \/ SubscribePost(b) \/ SubscribeStore(b) \/ Unsubscribe(b)
                                  \/ FeedCheck(b) \/ FeedAttach(b) \/ FeedCloses(b)

Next == Desk \/ Ends \/ Phone \/ Browser \/ ReaperAsks \/ ReaperCuts

(* The reaper is an interval, a ticket's life is a clock, and an open page *)
(* polls.                                                                  *)
Fairness ==
  /\ WF_vars(ReaperAsks) /\ WF_vars(ReaperCuts)
  /\ \A t \in Tickets : WF_vars(Stale(t))
  /\ \A b \in Guests : WF_vars(Claim(b)) /\ WF_vars(ToldNo(b))

Spec == Init /\ [][Next]_vars /\ Fairness

-----------------------------------------------------------------------------
(* However a share is revoked - one by one, with its session, by a deny,   *)
(* with the tunnel - no ticket of it waits on the desk or can be claimed.  *)
NoTicketOfRevoked ==
  \A t \in Tickets : ticket[t] # "none" => grant[Link[asker[t]]] # "revoked"

(* Revoking a share or a device takes its push subscriptions along, on     *)
(* every path: a subscription of a revoked grant is one whose grant was    *)
(* revoked while it was being posted.                                      *)
Dangling(b) == sub[b] # None /\ grant[sub[b]] = "revoked"
SubsDieWithRevoke ==
  [][\A b \in Browsers : Dangling(b)' /\ ~Dangling(b) => sub'[b] = posting[b]]_vars

(* shares.ts 53-66: when a share dies, "push subscriptions authorised by   *)
(* it must die with it", on every path by construction.                    *)
SubsDieWithGrant == \A b \in Browsers : sub[b] # None => grant[sub[b]] \in {"live", "expired"}

(* A feed opened with a grant that no longer lives is cut, though feeds    *)
(* attach after their check and checks fail open.                          *)
FeedsAreCut ==
  \A b \in Watchers : feed[b] # None /\ ~Live(feed[b]) ~> feed[b] = None

(* A guest who asked to come in is let in or told no, though tickets are   *)
(* dropped at the cap, with their share, and by a restart.                 *)
AskersLearn == \A b \in Guests : holds[b] # None ~> holds[b] = None
=============================================================================
