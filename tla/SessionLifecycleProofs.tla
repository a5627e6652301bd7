----------------------- MODULE SessionLifecycleProofs -----------------------
(***************************************************************************)
(* Proofs about SessionLifecycle, for every number of ids and slot         *)
(* objects, every cap, any number of crashes and every set of overlaps.    *)
(*                                                                         *)
(* AliasesFlat is not inductive on its own: a boot reads the aliases back  *)
(* from the checkpoint (so the checkpoint must be flat too), and a revive  *)
(* or a recovery re-points the aliases of slot[o].sid (so a registered     *)
(* slot must carry the id it is registered under): IInv.                   *)
(*                                                                         *)
(* What is shown about the children needs SlotsInv: each slot's status,    *)
(* turn, pending write and pending teardown fit the state of its child,    *)
(* and a slot something still waits for has its id to itself.  On these    *)
(* rest the workspaces (WorkInv: what a teardown is about to take is       *)
(* nobody else's) and the checkpoint (AgreesInv: a row is the one a save   *)
(* would write, or one of a failed clone or of a session the cap turned    *)
(* away, and the aliases are apart).  Where ids lead across a death and a  *)
(* boot needs the rows of sessions turned away to be nobody else's:        *)
(* StaleApart and StaleHomes.                                              *)
(*                                                                         *)
(* Where a theorem assumes Guarded, the other overlaps break it: they let  *)
(* a write or a teardown go on with a slot that is no longer its session.  *)
(***************************************************************************)
EXTENDS SessionLifecycle, FiniteSetTheorems, TLAPS

(* An alias that would be restored is not itself a session to restore. *)
CkptFlat ==
  \A i, x \in Ids : ckpt[i] # None /\ x \in ckpt[i].aliases => ckpt[x] = None

IInv == TypeOK /\ RegistryConsistent /\ AliasesFlat /\ CkptFlat

(* The variables a step of the registry does not go through Commit for. *)
RestOK ==
  /\ proc' \in {"up", "draining", "down"} /\ crashes' \in 0..MaxCrashes
  /\ transcript' \in [Ids -> BOOLEAN] /\ ws' \in [Ids -> BOOLEAN]

(* A registry r over the objects f in which every entry carries its id. *)
Carries(f, r) == \A i \in Ids : r[i] # None => f[r[i]] # None /\ f[r[i]].sid = i

(* Aliases a that lead in one hop to ids without an alias, and r agrees. *)
FlatWith(a, r) == \A x \in Ids : a[x] # None => a[a[x]] = None /\ r[x] = None

-----------------------------------------------------------------------------
(* Slots keep their type, their id and their workspace through the helpers *)

LEMMA NewSlotType ==
  ASSUME NEW i \in Ids, NEW w \in Ids, NEW st \in Statuses,
         NEW ch \in ChildStates, NEW b \in BOOLEAN
  PROVE  NewSlot(i, w, st, ch, b) \in SlotRec /\ NewSlot(i, w, st, ch, b).sid = i
BY DEF NewSlot, SlotRec, Phases, WriterStates, WaitStates

(* The slot of a claude that was just spawned. *)
LEMMA SpawnedType ==
  ASSUME NEW i \in Ids, NEW w \in Ids, NEW b \in BOOLEAN
  PROVE  LET s == NewSlot(i, w, "alive", "running", b)
         IN /\ s \in SlotRec /\ s.sid = i /\ s.cwd = w /\ s.burn = b
            /\ s.status = "alive" /\ s.child = "running" /\ ~s.suppress /\ ~s.destroying
            /\ s.phase = "fresh" /\ s.writer = "no" /\ s.ender = "no" /\ s.destroyer = "no"
BY DEF NewSlot, SlotRec, Statuses, ChildStates, Phases, WriterStates, WaitStates

LEMMA KilledType ==
  ASSUME NEW s \in SlotRec
  PROVE  /\ Killed(s) \in SlotRec /\ Killed(s).sid = s.sid
         /\ Killed(s).cwd = s.cwd /\ Killed(s).burn = s.burn
BY DEF Killed, SlotRec, ChildStates

LEMMA ForgetType ==
  ASSUME NEW s \in SlotRec
  PROVE  /\ Forget(s) \in SlotRec /\ Forget(s).sid = s.sid
         /\ Forget(s).cwd = s.cwd /\ Forget(s).burn = s.burn
BY DEF Forget, SlotRec, Phases

LEMMA StopChildType ==
  ASSUME NEW s \in SlotRec
  PROVE  /\ StopChild(s) \in SlotRec /\ StopChild(s).sid = s.sid
         /\ StopChild(s).cwd = s.cwd /\ StopChild(s).burn = s.burn
BY KilledType DEF StopChild, SlotRec

LEMMA BeginDestroyType ==
  ASSUME NEW s \in SlotRec
  PROVE  /\ BeginDestroy(s) \in SlotRec /\ BeginDestroy(s).sid = s.sid
         /\ BeginDestroy(s).cwd = s.cwd /\ BeginDestroy(s).burn = s.burn
BY DEF BeginDestroy, EndBegins, SlotRec, WaitStates

LEMMA ClosedType ==
  ASSUME NEW s \in SlotRec
  PROVE  /\ Closed(s) \in SlotRec /\ Closed(s).sid = s.sid
         /\ Closed(s).cwd = s.cwd /\ Closed(s).burn = s.burn
<1> DEFINE ch == IF s.child = "killed" THEN "reaped" ELSE "closed"
           wr == IF s.writer # "watching" THEN s.writer
                 ELSE IF s.phase = "heard" THEN "no" ELSE "failed"
           en == Over(s.ender)
           de == Over(s.destroyer)
<1>1. ch \in ChildStates BY DEF ChildStates
<1>2. wr \in WriterStates BY DEF SlotRec, WriterStates
<1>3. en \in WaitStates /\ de \in WaitStates BY DEF SlotRec, WaitStates, Over
<1>4. Closed(s) = [s EXCEPT !.child = ch, !.turn = FALSE, !.writer = wr,
                            !.ender = en, !.destroyer = de]
  BY DEF Closed
<1> HIDE DEF ch, wr, en, de
<1> QED BY <1>1, <1>2, <1>3, <1>4 DEF SlotRec

-----------------------------------------------------------------------------
(* Steps of the registry *)

LEMMA CommitRegistry ==
  ASSUME NEW f \in [Objs -> SlotRec \cup {None}],
         NEW r \in [Ids -> Objs \cup {None}], Commit(f, r), Carries(f, r)
  PROVE  /\ reg' = r
         /\ slot' \in [Objs -> SlotRec \cup {None}]
         /\ RegistryConsistent'
<1>1. reg' = r BY DEF Commit
<1>2. slot' \in [Objs -> SlotRec \cup {None}]
  <2>1. ASSUME NEW o \in Objs, f[o] # None PROVE Forget(f[o]) \in SlotRec
    BY <2>1, ForgetType
  <2> QED BY <2>1 DEF Commit
<1>3. ASSUME NEW i \in Ids, r[i] # None
      PROVE  slot'[r[i]] # None /\ slot'[r[i]].sid = i
  <2>1. r[i] \in Objs /\ f[r[i]] \in SlotRec /\ f[r[i]].sid = i
    BY <1>3 DEF Carries
  <2>2. ~Garbage(f[r[i]], r[i], r) BY <2>1 DEF Garbage
  <2>3. f[r[i]] # None BY <1>3 DEF Carries
  <2>4. slot'[r[i]] = Forget(f[r[i]]) BY <2>1, <2>2, <2>3 DEF Commit
  <2>5. Forget(f[r[i]]).sid = i BY <2>1, ForgetType
  <2>6. Forget(f[r[i]]) # None
    BY <2>1, ForgetType, NoneAssumption
  <2> QED BY <2>4, <2>5, <2>6
<1> QED BY <1>1, <1>2, <1>3 DEF RegistryConsistent, Live

(* What a save writes restores flat when the registry is flat. *)
LEMMA SaveFlat ==
  ASSUME Save, RegistryConsistent', AliasesFlat',
         reg' \in [Ids -> Objs \cup {None}],
         slot' \in [Objs -> SlotRec \cup {None}]
  PROVE  ckpt' \in [Ids -> CkptRec \cup {None}] /\ CkptFlat'
<1>1. ASSUME NEW i \in Ids, ckpt'[i] # None
      PROVE  /\ ckpt'[i] \in CkptRec
             /\ ckpt'[i].aliases = {x \in Ids : alias'[x] = i}
             /\ reg'[i] # None
  <2>1. /\ reg'[i] # None
        /\ ckpt'[i] = [cwd |-> slot'[reg'[i]].cwd, burn |-> slot'[reg'[i]].burn,
                       aliases |-> {x \in Ids : alias'[x] = i}]
    BY <1>1 DEF Save, Saved
  <2>2. slot'[reg'[i]] \in SlotRec
    BY <2>1 DEF RegistryConsistent, Live
  <2> QED BY <2>1, <2>2 DEF SlotRec, CkptRec
<1>2. ckpt' \in [Ids -> CkptRec \cup {None}]
  BY <1>1 DEF Save, Saved
<1>3. ASSUME NEW i \in Ids, NEW x \in Ids, ckpt'[i] # None, x \in ckpt'[i].aliases
      PROVE  ckpt'[x] = None
  <2>1. alias'[x] = i BY <1>1, <1>3
  <2>2. reg'[x] = None BY <2>1, ConstantsAssumption DEF AliasesFlat
  <2> QED BY <2>2, <1>1
<1> QED BY <1>2, <1>3 DEF CkptFlat

(* A step through Commit that leaves the aliases flat keeps the invariant. *)
LEMMA CommitInv ==
  ASSUME IInv, RestOK,
         NEW f \in [Objs -> SlotRec \cup {None}],
         NEW r \in [Ids -> Objs \cup {None}], Commit(f, r), Carries(f, r),
         alias' \in [Ids -> Ids \cup {None}], FlatWith(alias', r),
         ckpt' = ckpt \/ Save
  PROVE  IInv'
<1>1. /\ reg' = r /\ slot' \in [Objs -> SlotRec \cup {None}]
      /\ RegistryConsistent'
  BY CommitRegistry
<1>2. AliasesFlat' BY <1>1 DEF FlatWith, AliasesFlat
<1>3. ckpt' \in [Ids -> CkptRec \cup {None}] /\ CkptFlat'
  <2>1. CASE ckpt' = ckpt BY <2>1 DEF IInv, TypeOK, CkptFlat
  <2>2. CASE Save BY <2>2, <1>1, <1>2, SaveFlat
  <2> QED BY <2>1, <2>2
<1> QED BY <1>1, <1>2, <1>3 DEF IInv, TypeOK, RestOK

(* So does a step that changes one slot object and no id. *)
LEMMA UpdateInv ==
  ASSUME IInv, RestOK, NEW o \in Objs, Live(o), NEW s \in SlotRec,
         s.sid = slot[o].sid, Update(o, s), alias' = alias,
         ckpt' = ckpt \/ Save
  PROVE  IInv'
<1> DEFINE f == [slot EXCEPT ![o] = s]
<1>1. f \in [Objs -> SlotRec \cup {None}] BY DEF IInv, TypeOK
<1>2. Commit(f, reg) BY DEF Update
<1>3. reg \in [Ids -> Objs \cup {None}] BY DEF IInv, TypeOK
<1>4. Carries(f, reg)
  <2>1. ASSUME NEW i \in Ids, reg[i] # None
        PROVE  f[reg[i]] # None /\ f[reg[i]].sid = i
    <3>1. reg[i] \in Objs /\ slot[reg[i]] # None /\ slot[reg[i]].sid = i
      BY <2>1 DEF IInv, TypeOK, RegistryConsistent, Live
    <3>2. s # None BY NoneAssumption
    <3> QED BY <3>1, <3>2 DEF IInv, TypeOK
  <2> QED BY <2>1 DEF Carries
<1>5. FlatWith(alias', reg) BY DEF IInv, AliasesFlat, FlatWith
<1>6. alias' \in [Ids -> Ids \cup {None}] BY DEF IInv, TypeOK
<1> HIDE DEF f
<1> QED BY <1>1, <1>2, <1>3, <1>4, <1>5, <1>6, CommitInv

(* The slot an id leads to: its type, and the id it carries. *)
LEMMA SlotOfFacts ==
  ASSUME IInv, NEW i \in Ids, SlotOf(i) # None
  PROVE  /\ SlotOf(i) \in Objs /\ Live(SlotOf(i))
         /\ slot[SlotOf(i)] \in SlotRec
         /\ Canonical(i) \in Ids /\ slot[SlotOf(i)].sid = Canonical(i)
         /\ reg[Canonical(i)] = SlotOf(i) /\ alias[Canonical(i)] = None
<1>1. Canonical(i) \in Ids BY DEF Canonical, IInv, TypeOK
<1>2. SlotOf(i) = reg[Canonical(i)] BY DEF SlotOf
<1>3. SlotOf(i) \in Objs /\ Live(SlotOf(i)) /\ slot[SlotOf(i)].sid = Canonical(i)
  BY <1>1, <1>2 DEF IInv, TypeOK, RegistryConsistent
<1>4. slot[SlotOf(i)] \in SlotRec BY <1>3 DEF Live, IInv, TypeOK
<1>5. alias[Canonical(i)] = None BY <1>1, <1>2 DEF IInv, AliasesFlat
<1> QED BY <1>1, <1>2, <1>3, <1>4, <1>5

LEMMA LiveFacts ==
  ASSUME IInv, NEW o \in Objs, Live(o)
  PROVE  slot[o] \in SlotRec /\ slot[o].sid \in Ids /\ slot[o].cwd \in Ids
BY DEF IInv, TypeOK, Live, SlotRec

-----------------------------------------------------------------------------
(* One lemma per operation *)

(* A session that is not known yet is registered under an unused id. *)
LEMMA NewSessionInv ==
  ASSUME IInv, RestOK, NEW i \in Ids, NEW o \in Objs, NEW s \in SlotRec,
         Unused(i), ~Live(o), s.sid = i,
         Commit([slot EXCEPT ![o] = s], [reg EXCEPT ![i] = o]),
         alias' = alias, ckpt' = ckpt \/ Save
  PROVE  IInv'
<1> DEFINE f == [slot EXCEPT ![o] = s]
           r == [reg EXCEPT ![i] = o]
<1>1. f \in [Objs -> SlotRec \cup {None}] /\ r \in [Ids -> Objs \cup {None}]
  BY DEF IInv, TypeOK
<1>2. Carries(f, r)
  <2>1. ASSUME NEW j \in Ids, r[j] # None
        PROVE  f[r[j]] # None /\ f[r[j]].sid = j
    <3>1. CASE j = i BY <3>1, NoneAssumption DEF IInv, TypeOK
    <3>2. CASE j # i
      <4>1. reg[j] \in Objs /\ Live(reg[j]) /\ slot[reg[j]].sid = j
        BY <3>2, <2>1 DEF IInv, TypeOK, RegistryConsistent
      <4>2. reg[j] # o BY <4>1
      <4> QED BY <4>1, <4>2, <3>2 DEF Live, IInv, TypeOK
    <3> QED BY <3>1, <3>2
  <2> QED BY <2>1 DEF Carries
<1>3. FlatWith(alias', r)
  <2>1. alias[i] = None BY DEF Unused
  <2> QED BY <2>1 DEF FlatWith, IInv, TypeOK, AliasesFlat
<1>4. alias' \in [Ids -> Ids \cup {None}] BY DEF IInv, TypeOK
<1> HIDE DEF f, r
<1> QED BY <1>1, <1>2, <1>3, <1>4, CommitInv DEF f, r

LEMMA StartNewConversationInv ==
  ASSUME IInv, NEW i \in Ids, NEW b \in BOOLEAN, StartNewConversation(i, b)
  PROVE  IInv'
<1>1. RestOK BY DEF StartNewConversation, RestOK, IInv, TypeOK
<1>2. PICK o \in Objs :
        /\ ~Live(o)
        /\ Commit([slot EXCEPT ![o] = NewSlot(i, i, "alive", "running", b)],
                  [reg EXCEPT ![i] = o])
  BY DEF StartNewConversation
<1>3. /\ NewSlot(i, i, "alive", "running", b) \in SlotRec
      /\ NewSlot(i, i, "alive", "running", b).sid = i
  BY NewSlotType DEF Statuses, ChildStates
<1>4. Unused(i) /\ alias' = alias /\ Save BY DEF StartNewConversation
<1> QED BY <1>1, <1>2, <1>3, <1>4, NewSessionInv

LEMMA RegisterProvisioningInv ==
  ASSUME IInv, NEW i \in Ids, NEW b \in BOOLEAN, RegisterProvisioning(i, b)
  PROVE  IInv'
<1>1. RestOK BY DEF RegisterProvisioning, RestOK, IInv, TypeOK
<1>2. PICK o \in Objs :
        /\ ~Live(o)
        /\ Commit([slot EXCEPT ![o] = NewSlot(i, i, "provisioning", "none", b)],
                  [reg EXCEPT ![i] = o])
  BY DEF RegisterProvisioning
<1>3. /\ NewSlot(i, i, "provisioning", "none", b) \in SlotRec
      /\ NewSlot(i, i, "provisioning", "none", b).sid = i
  BY NewSlotType DEF Statuses, ChildStates
<1>4. Unused(i) /\ alias' = alias /\ ckpt' = ckpt BY DEF RegisterProvisioning
<1> QED BY <1>1, <1>2, <1>3, <1>4, NewSessionInv

(* A registry that only loses entries keeps the invariant, when the aliases
   of the ids it loses go or stay. *)
LEMMA ShrinkInv ==
  ASSUME IInv, RestOK, NEW f \in [Objs -> SlotRec \cup {None}],
         NEW r \in [Ids -> Objs \cup {None}], Commit(f, r), Carries(f, r),
         \A i \in Ids : r[i] # None => reg[i] # None,
         alias' \in [Ids -> Ids \cup {None}],
         \A x \in Ids : alias'[x] # None => alias'[x] = alias[x],
         ckpt' = ckpt \/ Save
  PROVE  IInv'
<1>1. ASSUME NEW x \in Ids, alias'[x] # None
      PROVE  alias'[alias'[x]] = None /\ r[x] = None
  <2>1. alias[x] # None /\ alias'[x] = alias[x] /\ alias[x] \in Ids
    BY <1>1 DEF IInv, TypeOK
  <2>2. alias[alias[x]] = None /\ reg[x] = None BY <2>1 DEF IInv, AliasesFlat
  <2> QED BY <2>1, <2>2
<1>2. FlatWith(alias', r) BY <1>1 DEF FlatWith
<1> QED BY <1>2, CommitInv

(* Dropping one id from the registry of unchanged objects. *)
LEMMA CarriesWithout ==
  ASSUME IInv, NEW c \in Ids
  PROVE  Carries(slot, [reg EXCEPT ![c] = None])
BY DEF Carries, IInv, TypeOK, RegistryConsistent, Live

LEMMA DropAliasesType ==
  ASSUME IInv, NEW c \in Ids
  PROVE  /\ DropAliases(c) \in [Ids -> Ids \cup {None}]
         /\ \A x \in Ids : DropAliases(c)[x] # None => DropAliases(c)[x] = alias[x]
BY DEF DropAliases, IInv, TypeOK

LEMMA CloneDoneInv ==
  ASSUME IInv, NEW i \in Ids, CloneDone(i)
  PROVE  IInv'
<1> DEFINE o == reg[i]
           without == [reg EXCEPT ![i] = None]
           s == NewSlot(i, i, "alive", "running", slot[o].burn)
<1>1. RestOK BY DEF CloneDone, RestOK, IInv, TypeOK
<1>2. o \in Objs /\ Live(o) /\ slot[o].sid = i
  BY DEF CloneDone, IInv, TypeOK, RegistryConsistent
<1>3. alias' = alias BY DEF CloneDone
<1>4. CASE Update(o, s) /\ Save
  <2>1. slot[o].burn \in BOOLEAN BY <1>2, LiveFacts DEF SlotRec
  <2>2. s \in SlotRec /\ s.sid = i BY <2>1, NewSlotType DEF Statuses, ChildStates
  <2> HIDE DEF o, s
  <2> QED BY <1>1, <1>2, <1>3, <1>4, <2>2, UpdateInv
<1>5. CASE Commit(slot, without) /\ UNCHANGED ckpt
  <2>1. without \in [Ids -> Objs \cup {None}] /\ slot \in [Objs -> SlotRec \cup {None}]
    BY DEF IInv, TypeOK
  <2>2. Carries(slot, without) BY CarriesWithout
  <2>3. \A j \in Ids : without[j] # None => reg[j] # None BY DEF IInv, TypeOK
  <2>4. alias' \in [Ids -> Ids \cup {None}] BY <1>3 DEF IInv, TypeOK
  <2> HIDE DEF without
  <2> QED BY <1>1, <1>3, <1>5, <2>1, <2>2, <2>3, <2>4, ShrinkInv
<1> QED BY <1>4, <1>5 DEF CloneDone

LEMMA CloneFailedInv ==
  ASSUME IInv, NEW i \in Ids, CloneFailed(i)
  PROVE  IInv'
<1> DEFINE o == reg[i]
           s == [slot[o] EXCEPT !.status = "error"]
<1>1. RestOK BY DEF CloneFailed, RestOK, IInv, TypeOK
<1>2. o \in Objs /\ Live(o) BY DEF CloneFailed, IInv, TypeOK, RegistryConsistent
<1>3. s \in SlotRec /\ s.sid = slot[o].sid
  BY <1>2, LiveFacts DEF SlotRec, Statuses
<1>4. Update(o, s) /\ alias' = alias /\ ckpt' = ckpt BY DEF CloneFailed
<1> HIDE DEF o, s
<1> QED BY <1>1, <1>2, <1>3, <1>4, UpdateInv

LEMMA MessageLiveInv ==
  ASSUME IInv, NEW i \in Ids, MessageLive(i)
  PROVE  IInv'
<1> DEFINE o == SlotOf(i)
           s == [slot[o] EXCEPT !.turn = TRUE]
<1>1. RestOK BY DEF MessageLive, RestOK, IInv, TypeOK
<1>2. o \in Objs /\ Live(o) BY SlotOfFacts DEF MessageLive, Writable
<1>3. s \in SlotRec /\ s.sid = slot[o].sid BY <1>2, LiveFacts DEF SlotRec
<1>4. Update(o, s) /\ alias' = alias /\ (ckpt' = ckpt \/ Save) BY DEF MessageLive
<1> HIDE DEF o, s
<1> QED BY <1>1, <1>2, <1>3, <1>4, UpdateInv

(* What the wakes and the ends share: entry c goes, and its aliases. *)
LEMMA DropInv ==
  ASSUME IInv, RestOK, NEW c \in Ids,
         NEW f \in [Objs -> SlotRec \cup {None}],
         Commit(f, [reg EXCEPT ![c] = None]),
         Carries(f, [reg EXCEPT ![c] = None]),
         alias' = DropAliases(c), Save
  PROVE  IInv'
<1> DEFINE r == [reg EXCEPT ![c] = None]
<1>1. r \in [Ids -> Objs \cup {None}] /\ \A j \in Ids : r[j] # None => reg[j] # None
  BY DEF IInv, TypeOK
<1>2. /\ alias' \in [Ids -> Ids \cup {None}]
      /\ \A x \in Ids : alias'[x] # None => alias'[x] = alias[x]
  BY DropAliasesType
<1> HIDE DEF r
<1> QED BY <1>1, <1>2, ShrinkInv DEF r

LEMMA MessagePrunesInv ==
  ASSUME IInv, NEW i \in Ids, MessagePrunes(i)
  PROVE  IInv'
<1> DEFINE c == slot[SlotOf(i)].sid
<1>1. RestOK BY DEF MessagePrunes, RestOK, IInv, TypeOK
<1>2. c \in Ids BY SlotOfFacts DEF MessagePrunes, Wakeable, Writable
<1>3. slot \in [Objs -> SlotRec \cup {None}] BY DEF IInv, TypeOK
<1>4. Carries(slot, [reg EXCEPT ![c] = None]) BY <1>2, CarriesWithout
<1>5. Commit(slot, [reg EXCEPT ![c] = None]) /\ alias' = DropAliases(c) /\ Save
  BY DEF MessagePrunes
<1> HIDE DEF c
<1> QED BY <1>1, <1>2, <1>3, <1>4, <1>5, DropInv

(* Re-keying a registered id to one of its aliases keeps the map flat. *)
LEMMA RekeyedFlat ==
  ASSUME IInv, NEW c \in Ids, reg[c] # None, NEW r \in ResumableIds(c),
         NEW q \in [Ids -> Objs \cup {None}],
         \A x \in Ids : x # r /\ q[x] # None => x # c /\ reg[x] # None
  PROVE  /\ r \in Ids /\ (r # c => alias[r] = c)
         /\ Rekeyed(c, r) \in [Ids -> Ids \cup {None}]
         /\ FlatWith(Rekeyed(c, r), q)
<1>1. r \in Ids /\ (r # c => alias[r] = c) BY DEF ResumableIds, AliasesOf
<1>2. Rekeyed(c, r) \in [Ids -> Ids \cup {None}] BY <1>1 DEF Rekeyed, IInv, TypeOK
<1>3. alias[c] = None BY DEF IInv, AliasesFlat
<1>4. ASSUME NEW x \in Ids, Rekeyed(c, r)[x] # None
      PROVE  Rekeyed(c, r)[Rekeyed(c, r)[x]] = None /\ q[x] = None
  <2>1. CASE r = c
    <3>1. Rekeyed(c, r) = alias BY <2>1 DEF Rekeyed, IInv, TypeOK
    <3>2. alias[x] # None /\ alias[x] \in Ids BY <3>1, <1>4 DEF IInv, TypeOK
    <3>3. alias[alias[x]] = None /\ reg[x] = None BY <3>2 DEF IInv, AliasesFlat
    <3>4. x # r BY <3>2, <1>3, <2>1
    <3> QED BY <3>1, <3>3, <3>4
  <2>2. CASE r # c /\ (x = c \/ alias[x] = c)
    <3>1. x # r /\ Rekeyed(c, r)[x] = r BY <2>2, <1>4, <1>1 DEF Rekeyed
    <3>2. Rekeyed(c, r)[r] = None BY <1>1, <2>2 DEF Rekeyed
    <3>3. x = c \/ reg[x] = None
      BY <2>2, ConstantsAssumption DEF IInv, AliasesFlat
    <3> QED BY <3>1, <3>2, <3>3
  <2>3. CASE r # c /\ x # c /\ alias[x] # c
    <3>1. x # r /\ Rekeyed(c, r)[x] = alias[x] BY <2>3, <1>1, <1>4 DEF Rekeyed
    <3>2. alias[x] \in Ids /\ alias[x] # None BY <3>1, <1>4 DEF IInv, TypeOK
    <3>3. alias[alias[x]] = None /\ reg[x] = None BY <3>2 DEF IInv, AliasesFlat
    <3>4. alias[x] # c /\ alias[x] # r
      BY <2>3, <3>3, <1>1, ConstantsAssumption
    <3>5. Rekeyed(c, r)[alias[x]] = None
      BY <3>2, <3>3, <3>4, <2>3, ConstantsAssumption DEF Rekeyed
    <3> QED BY <3>1, <3>3, <3>5
  <2> QED BY <2>1, <2>2, <2>3
<1> QED BY <1>1, <1>2, <1>4 DEF FlatWith

LEMMA MessageRevivesInv ==
  ASSUME IInv, NEW i \in Ids, MessageRevives(i)
  PROVE  IInv'
<1> DEFINE o == SlotOf(i)
           c == slot[o].sid
<1>1. RestOK BY DEF MessageRevives, RestOK, IInv, TypeOK
<1>2. /\ o \in Objs /\ Live(o) /\ c \in Ids /\ reg[c] = o
      /\ slot[o] \in SlotRec
  BY SlotOfFacts DEF MessageRevives, Wakeable, Writable
<1>3. PICK r \in ResumableIds(c), n \in Objs :
        LET resumes == transcript[r]
            fresh   == NewSlot(r, slot[o].cwd, "alive", "running", slot[o].burn)
        IN /\ ~Live(n)
           /\ Commit([slot EXCEPT ![n] =
                        [fresh EXCEPT !.turn = TRUE,
                           !.phase = IF resumes THEN "resuming" ELSE @,
                           !.writer = IF resumes THEN "writing" ELSE @]],
                     [reg EXCEPT ![c] = None, ![r] = n])
           /\ alias' = Rekeyed(c, r)
  BY DEF MessageRevives
<1> DEFINE fresh == NewSlot(r, slot[o].cwd, "alive", "running", slot[o].burn)
           s == [fresh EXCEPT !.turn = TRUE,
                   !.phase = IF transcript[r] THEN "resuming" ELSE @,
                   !.writer = IF transcript[r] THEN "writing" ELSE @]
           f == [slot EXCEPT ![n] = s]
           q == [reg EXCEPT ![c] = None, ![r] = n]
<1>4. r \in Ids BY <1>2 DEF ResumableIds, AliasesOf
<1>5. s \in SlotRec /\ s.sid = r
  <2>1. slot[o].cwd \in Ids /\ slot[o].burn \in BOOLEAN BY <1>2 DEF SlotRec
  <2>2. fresh \in SlotRec /\ fresh.sid = r
    <3>1. "alive" \in Statuses /\ "running" \in ChildStates BY DEF Statuses, ChildStates
    <3> QED BY <1>4, <2>1, <3>1, NewSlotType
  <2> HIDE DEF fresh
  <2> QED BY <2>2 DEF SlotRec, Phases, WriterStates
<1> HIDE DEF s
<1>6. f \in [Objs -> SlotRec \cup {None}] /\ q \in [Ids -> Objs \cup {None}]
  BY <1>5, <1>4, <1>2 DEF IInv, TypeOK
<1>7. ASSUME NEW x \in Ids, x # r, q[x] # None PROVE x # c /\ reg[x] # None /\ q[x] = reg[x]
  BY <1>7, <1>4, <1>2 DEF IInv, TypeOK
<1>8. Carries(f, q)
  <2>1. ASSUME NEW x \in Ids, q[x] # None
        PROVE  f[q[x]] # None /\ f[q[x]].sid = x
    <3>1. CASE x = r BY <3>1, <1>5, <1>4, NoneAssumption DEF IInv, TypeOK
    <3>2. CASE x # r
      <4>1. q[x] = reg[x] /\ reg[x] # None BY <3>2, <2>1, <1>7
      <4>2. reg[x] \in Objs /\ Live(reg[x]) /\ slot[reg[x]].sid = x
        BY <4>1 DEF IInv, TypeOK, RegistryConsistent
      <4>3. reg[x] # n BY <4>2, <1>3
      <4> QED BY <4>1, <4>2, <4>3 DEF Live, IInv, TypeOK
    <3> QED BY <3>1, <3>2
  <2> QED BY <2>1 DEF Carries
<1>9. alias' \in [Ids -> Ids \cup {None}] /\ FlatWith(alias', q)
  <2>1. reg[c] # None BY <1>2, ConstantsAssumption
  <2>2. alias' = Rekeyed(c, r) BY <1>3
  <2> HIDE DEF q, c
  <2> QED BY <2>1, <2>2, <1>2, <1>6, <1>7, RekeyedFlat
<1>10. Commit(f, q) /\ Save BY <1>3 DEF s, MessageRevives
<1> HIDE DEF f, q
<1> QED BY <1>1, <1>6, <1>8, <1>9, <1>10, CommitInv

LEMMA MessageAtCapInv ==
  ASSUME IInv, NEW i \in Ids, MessageAtCap(i)
  PROVE  IInv'
<1> DEFINE c == slot[SlotOf(i)].sid
           q == [reg EXCEPT ![c] = None]
<1>1. RestOK BY DEF MessageAtCap, RestOK, IInv, TypeOK
<1>2. c \in Ids /\ reg[c] # None
  BY SlotOfFacts, ConstantsAssumption DEF MessageAtCap, Wakeable, Writable
<1>3. PICK r \in ResumableIds(c) \ {c} : Commit(slot, q) /\ alias' = Rekeyed(c, r)
  BY DEF MessageAtCap
<1>4. /\ slot \in [Objs -> SlotRec \cup {None}] /\ q \in [Ids -> Objs \cup {None}]
      /\ \A x \in Ids : q[x] # None => x # c /\ reg[x] # None
  BY DEF IInv, TypeOK
<1>5. Carries(slot, q) BY <1>2, CarriesWithout
<1>6. ckpt' = ckpt BY DEF MessageAtCap
<1> HIDE DEF c, q
<1>7. alias' \in [Ids -> Ids \cup {None}] /\ FlatWith(alias', q)
  BY <1>2, <1>3, <1>4, RekeyedFlat
<1> QED BY <1>1, <1>3, <1>4, <1>5, <1>6, <1>7, CommitInv

(* Re-pointing a registered id and its aliases at an unused one keeps it flat. *)
LEMMA MovedFlat ==
  ASSUME IInv, NEW c \in Ids, NEW x \in Ids, reg[c] # None, Unused(x),
         NEW q \in [Ids -> Objs \cup {None}],
         \A y \in Ids : y # x /\ q[y] # None => y # c /\ reg[y] # None
  PROVE  /\ x # c /\ Moved(c, x) \in [Ids -> Ids \cup {None}]
         /\ FlatWith(Moved(c, x), q)
<1>1. alias \in [Ids -> Ids \cup {None}] BY DEF IInv, TypeOK
<1>2. /\ alias[x] = None /\ reg[x] = None /\ x # c
      /\ \A y \in Ids : alias[y] # x
  BY DEF Unused, AliasesOf
<1>3. \A y \in Ids : Moved(c, x)[y] = IF y = c \/ alias[y] = c THEN x ELSE alias[y]
  BY DEF Moved
<1>4. ASSUME NEW y \in Ids, Moved(c, x)[y] # None
      PROVE  Moved(c, x)[Moved(c, x)[y]] = None /\ q[y] = None
  <2>1. Moved(c, x)[x] = None BY <1>2, <1>3, ConstantsAssumption
  <2>2. CASE y = c \/ alias[y] = c
    <3>1. y # x BY <2>2, <1>2, ConstantsAssumption
    <3>2. y = c \/ reg[y] = None
      BY <2>2, ConstantsAssumption DEF IInv, AliasesFlat
    <3> QED BY <2>1, <2>2, <3>1, <3>2, <1>3
  <2>3. CASE y # c /\ alias[y] # c
    <3>1. alias[y] \in Ids /\ alias[y] # None BY <2>3, <1>1, <1>3, <1>4
    <3>2. alias[alias[y]] = None /\ reg[y] = None BY <3>1 DEF IInv, AliasesFlat
    <3>3. Moved(c, x)[alias[y]] = None BY <3>1, <3>2, <2>3, <1>3, ConstantsAssumption
    <3> QED BY <2>3, <3>1, <3>2, <3>3, <1>2, <1>3
  <2> QED BY <2>2, <2>3
<1>5. Moved(c, x) \in [Ids -> Ids \cup {None}] BY <1>1 DEF Moved
<1> QED BY <1>2, <1>4, <1>5 DEF FlatWith

LEMMA RecoverInv ==
  ASSUME IInv, NEW o \in Objs, Recover(o)
  PROVE  IInv'
<1> DEFINE old == slot[o].sid
           dead == reg[old]
           done == [slot EXCEPT ![o] = [@ EXCEPT !.writer = "no"]]
           without == [reg EXCEPT ![old] = None]
<1>1. RestOK BY DEF Recover, RestOK, IInv, TypeOK
<1>2. Live(o) /\ slot[o] \in SlotRec /\ old \in Ids BY Zenon, LiveFacts DEF Recover
<1>3. done \in [Objs -> SlotRec \cup {None}]
  <2>1. [slot[o] EXCEPT !.writer = "no"] \in SlotRec BY <1>2 DEF SlotRec, WriterStates
  <2> QED BY <2>1 DEF IInv, TypeOK
<1>4. \A p \in Objs : slot[p] # None => done[p] # None /\ done[p].sid = slot[p].sid
  <2>1. /\ [slot[o] EXCEPT !.writer = "no"] \in SlotRec
        /\ [slot[o] EXCEPT !.writer = "no"].sid = slot[o].sid
    BY <1>2 DEF SlotRec, WriterStates
  <2> QED BY <2>1, NoneAssumption DEF IInv, TypeOK
<1>5. \A x \in Ids : reg[x] # None =>
        /\ reg[x] \in Objs /\ slot[reg[x]] # None
        /\ done[reg[x]] # None /\ done[reg[x]].sid = x
  BY <1>4 DEF IInv, TypeOK, RegistryConsistent, Live
<1>6. without \in [Ids -> Objs \cup {None}] /\ reg \in [Ids -> Objs \cup {None}]
  BY DEF IInv, TypeOK
<1>7. Carries(done, reg) /\ Carries(done, without)
  <2> HIDE DEF done
  <2> QED BY <1>5, <1>6 DEF Carries
<1>8. alias \in [Ids -> Ids \cup {None}] BY DEF IInv, TypeOK
<1>9. CASE Commit(done, reg) /\ UNCHANGED <<alias, ckpt>>
  <2> HIDE DEF done
  <2> QED BY <1>1, <1>3, <1>6, <1>7, <1>8, <1>9, ShrinkInv
<1>10. CASE Commit(done, without) /\ UNCHANGED <<alias, ckpt>>
  <2>1. \A x \in Ids : without[x] # None => reg[x] # None BY DEF IInv, TypeOK
  <2> HIDE DEF done, without
  <2> QED BY <1>1, <1>3, <1>6, <1>7, <1>8, <1>10, <2>1, ShrinkInv
<1>11. ASSUME NEW new \in Ids, NEW n \in Objs, dead # None, Unused(new), ~Live(n), Save,
              Commit([done EXCEPT ![n] =
                        [NewSlot(new, slot[dead].cwd, "alive", "running",
                                 slot[dead].burn) EXCEPT !.turn = TRUE]],
                     [without EXCEPT ![new] = n]),
              alias' = Moved(old, new)
       PROVE  IInv'
  <2> DEFINE s == [NewSlot(new, slot[dead].cwd, "alive", "running",
                           slot[dead].burn) EXCEPT !.turn = TRUE]
             f == [done EXCEPT ![n] = s]
             q == [without EXCEPT ![new] = n]
  <2>1. dead \in Objs /\ Live(dead)
    BY <1>2, <1>11 DEF IInv, TypeOK, RegistryConsistent
  <2>2. s \in SlotRec /\ s.sid = new
    <3>1. slot[dead].cwd \in Ids /\ slot[dead].burn \in BOOLEAN
      BY <2>1, LiveFacts DEF SlotRec
    <3>2. /\ NewSlot(new, slot[dead].cwd, "alive", "running", slot[dead].burn) \in SlotRec
          /\ NewSlot(new, slot[dead].cwd, "alive", "running", slot[dead].burn).sid = new
      BY <3>1, SpawnedType
    <3> QED BY Zenon, <3>2 DEF SlotRec
  <2> HIDE DEF s
  <2>3. f \in [Objs -> SlotRec \cup {None}] BY <1>3, <2>2
  <2>4. q \in [Ids -> Objs \cup {None}] BY <1>6
  <2>5. \A x \in Ids : x # new /\ q[x] # None => x # old /\ q[x] = reg[x]
    BY <1>2, <1>6
  <2>6. Carries(f, q)
    <3>1. ASSUME NEW x \in Ids, q[x] # None PROVE f[q[x]] # None /\ f[q[x]].sid = x
      <4>1. CASE x = new
        <5>1. q[x] = n BY <4>1, <1>6
        <5>2. f[n] = s
          <6> HIDE DEF done
          <6> QED BY <1>3
        <5> QED BY <5>1, <5>2, <2>2, <4>1, NoneAssumption
      <4>2. CASE x # new
        <5>1. q[x] = reg[x] BY <4>2, <3>1, <2>5
        <5>2. reg[x] \in Objs /\ slot[reg[x]] # None BY <5>1, <3>1, <1>5
        <5>3. reg[x] # n BY <5>2, <1>11 DEF Live
        <5>4. f[reg[x]] = done[reg[x]]
          <6> HIDE DEF done
          <6> QED BY <5>2, <5>3, <1>3
        <5> QED BY <5>1, <5>4, <3>1, <1>5
      <4> QED BY <4>1, <4>2
    <3> QED BY <3>1 DEF Carries
  <2>7. alias' \in [Ids -> Ids \cup {None}] /\ FlatWith(alias', q)
    <3>1. \A x \in Ids : x # new /\ q[x] # None => x # old /\ reg[x] # None
      BY <2>5
    <3> HIDE DEF old, q
    <3> QED BY <1>2, <1>11, <2>4, <3>1, MovedFlat
  <2>9. Commit(f, q) BY <1>11 DEF s
  <2> HIDE DEF f, q
  <2> QED BY <1>1, <1>11, <2>3, <2>4, <2>6, <2>7, <2>9, CommitInv
<1> QED BY Zenon, <1>9, <1>10, <1>11 DEF Recover

LEMMA WriteDoneInv ==
  ASSUME IInv, NEW o \in Objs, WriteDone(o)
  PROVE  IInv'
<1> DEFINE s == [slot[o] EXCEPT !.writer =
                    IF slot[o].phase = "heard" THEN "no"
                    ELSE IF slot[o].child # "running" THEN "failed"
                    ELSE "watching"]
<1>1. RestOK BY DEF WriteDone, RestOK, IInv, TypeOK
<1>2. o \in Objs /\ Live(o) BY DEF WriteDone
<1>3. s \in SlotRec /\ s.sid = slot[o].sid BY <1>2, LiveFacts DEF SlotRec, WriterStates
<1>4. Update(o, s) /\ alias' = alias /\ (ckpt' = ckpt \/ Save) BY DEF WriteDone
<1> HIDE DEF s
<1> QED BY <1>1, <1>2, <1>3, <1>4, UpdateInv

LEMMA WriteFailsInv ==
  ASSUME IInv, NEW o \in Objs, WriteFails(o)
  PROVE  IInv'
<1> DEFINE s == [slot[o] EXCEPT !.writer = "no"]
<1>1. RestOK BY DEF WriteFails, RestOK, IInv, TypeOK
<1>2. o \in Objs /\ Live(o) BY DEF WriteFails
<1>3. s \in SlotRec /\ s.sid = slot[o].sid BY <1>2, LiveFacts DEF SlotRec, WriterStates
<1>4. Update(o, s) /\ alias' = alias /\ (ckpt' = ckpt \/ Save) BY DEF WriteFails
<1> HIDE DEF s
<1> QED BY <1>1, <1>2, <1>3, <1>4, UpdateInv

LEMMA ResumeTimesOutInv ==
  ASSUME IInv, NEW o \in Objs, ResumeTimesOut(o)
  PROVE  IInv'
<1> DEFINE s == [slot[o] EXCEPT !.writer = "no"]
<1>1. RestOK BY DEF ResumeTimesOut, RestOK, IInv, TypeOK
<1>2. o \in Objs /\ Live(o) BY DEF ResumeTimesOut
<1>3. s \in SlotRec /\ s.sid = slot[o].sid BY <1>2, LiveFacts DEF SlotRec, WriterStates
<1>4. Update(o, s) /\ alias' = alias /\ (ckpt' = ckpt \/ Save) BY DEF ResumeTimesOut
<1> HIDE DEF s
<1> QED BY <1>1, <1>2, <1>3, <1>4, UpdateInv

LEMMA FirstFrameInv ==
  ASSUME IInv, NEW o \in Objs, FirstFrame(o)
  PROVE  IInv'
<1> DEFINE s == [slot[o] EXCEPT !.phase = "heard",
                    !.writer = IF @ = "watching" THEN "no" ELSE @]
<1>1. RestOK BY DEF FirstFrame, RestOK, IInv, TypeOK
<1>2. o \in Objs /\ Live(o) BY DEF FirstFrame
<1>3. s \in SlotRec /\ s.sid = slot[o].sid
  <2> DEFINE wr == IF slot[o].writer = "watching" THEN "no" ELSE slot[o].writer
  <2>1. slot[o] \in SlotRec BY <1>2, LiveFacts
  <2>2. wr \in WriterStates BY <2>1 DEF SlotRec, WriterStates
  <2>3. s = [slot[o] EXCEPT !.phase = "heard", !.writer = wr] OBVIOUS
  <2> HIDE DEF wr, s
  <2> QED BY <2>1, <2>2, <2>3 DEF SlotRec, Phases
<1>4. Update(o, s) /\ alias' = alias /\ (ckpt' = ckpt \/ Save) BY DEF FirstFrame
<1> HIDE DEF s
<1> QED BY <1>1, <1>2, <1>3, <1>4, UpdateInv

(* The slot a swap registers under the new id: its type, and what it keeps. *)
Swapped(s, new) ==
  [s EXCEPT !.sid = new, !.phase = "heard",
            !.writer = IF @ = "watching" THEN "no" ELSE @]

LEMMA SwappedType ==
  ASSUME NEW s \in SlotRec, NEW new \in Ids
  PROVE  LET t == Swapped(s, new)
         IN /\ t \in SlotRec /\ t.sid = new /\ t.cwd = s.cwd /\ t.status = s.status
            /\ t.child = s.child /\ t.phase = "heard" /\ t.turn = s.turn
            /\ t.burn = s.burn /\ t.suppress = s.suppress /\ t.reap = s.reap
            /\ t.destroying = s.destroying /\ t.ender = s.ender
            /\ t.destroyer = s.destroyer
            /\ t.writer = (IF s.writer = "watching" THEN "no" ELSE s.writer)
<1> DEFINE wr == IF s.writer = "watching" THEN "no" ELSE s.writer
<1>1. wr \in WriterStates BY DEF SlotRec, WriterStates
<1>2. Swapped(s, new) = [s EXCEPT !.sid = new, !.phase = "heard", !.writer = wr]
  BY DEF Swapped
<1> HIDE DEF wr
<1>3. LET t == Swapped(s, new)
      IN /\ t \in SlotRec /\ t.sid = new /\ t.cwd = s.cwd /\ t.status = s.status
         /\ t.child = s.child /\ t.phase = "heard" /\ t.turn = s.turn
         /\ t.burn = s.burn /\ t.suppress = s.suppress /\ t.reap = s.reap
         /\ t.destroying = s.destroying /\ t.ender = s.ender
         /\ t.destroyer = s.destroyer /\ t.writer = wr
  <2> DEFINE t == [s EXCEPT !.sid = new, !.phase = "heard", !.writer = wr]
  <2>1. /\ t.sid = new /\ t.cwd = s.cwd /\ t.status = s.status
        /\ t.child = s.child /\ t.phase = "heard" /\ t.turn = s.turn
        /\ t.burn = s.burn /\ t.suppress = s.suppress
    BY DEF SlotRec
  <2>2. /\ t.reap = s.reap /\ t.destroying = s.destroying /\ t.ender = s.ender
        /\ t.destroyer = s.destroyer /\ t.writer = wr
    BY DEF SlotRec
  <2>3. t \in SlotRec BY <1>1 DEF SlotRec, Phases
  <2> HIDE DEF t
  <2>4. Swapped(s, new) = t BY <1>2 DEF t
  <2> QED BY <2>1, <2>2, <2>3, <2>4
<1> QED BY <1>3 DEF wr

(* What a swap does to the registry. *)
LEMMA SwapCase ==
  ASSUME IInv, NEW o \in Objs, NEW new \in Ids, FrameSwapsId(o, new)
  PROVE  LET c == slot[o].sid
         IN /\ Runs /\ Live(o) /\ slot[o] \in SlotRec /\ c \in Ids /\ reg[c] = o
            /\ Unused(new) /\ new # c /\ slot[o].phase = "resuming"
            /\ slot[o].ender = "no" /\ ~slot[o].destroying
            /\ slot[o].child \in {"running", "exited", "killed"}
            /\ Commit([slot EXCEPT ![o] = Swapped(slot[o], new)],
                      [reg EXCEPT ![c] = None, ![new] = o])
            /\ alias' = Moved(c, new) /\ Save
            /\ transcript' = [transcript EXCEPT ![new] = TRUE]
            /\ UNCHANGED <<proc, crashes, ws>>
<1>1. Live(o) /\ slot[o] \in SlotRec /\ slot[o].sid \in Ids
  BY LiveFacts DEF FrameSwapsId
<1>2. reg[slot[o].sid] = o /\ Unused(new) BY DEF FrameSwapsId
<1>3. new # slot[o].sid BY <1>1, <1>2, ConstantsAssumption DEF Unused
<1> QED BY <1>1, <1>2, <1>3 DEF FrameSwapsId, Swapped

(* A registry that moves an object to an unused id, under which it carries it. *)
LEMMA CarriesMoved ==
  ASSUME IInv, NEW o \in Objs, NEW c \in Ids, NEW new \in Ids, reg[c] = o,
         NEW s \in SlotRec, s.sid = new
  PROVE  Carries([slot EXCEPT ![o] = s], [reg EXCEPT ![c] = None, ![new] = o])
<1> DEFINE f == [slot EXCEPT ![o] = s]
           q == [reg EXCEPT ![c] = None, ![new] = o]
<1>1. ASSUME NEW x \in Ids, q[x] # None PROVE f[q[x]] # None /\ f[q[x]].sid = x
  <2>1. CASE x = new
    <3>1. q[x] = o BY <2>1 DEF IInv, TypeOK
    <3> QED BY <2>1, <3>1, NoneAssumption DEF IInv, TypeOK
  <2>2. CASE x # new
    <3>1. q[x] = reg[x] /\ x # c BY <2>2, <1>1 DEF IInv, TypeOK
    <3>2. /\ reg[x] \in Objs /\ slot[reg[x]] # None /\ slot[reg[x]].sid = x
          /\ slot[o].sid = c
      BY <3>1, <1>1, ConstantsAssumption DEF IInv, TypeOK, RegistryConsistent, Live
    <3>3. reg[x] # o BY <3>1, <3>2
    <3> QED BY <3>1, <3>2, <3>3 DEF IInv, TypeOK
  <2> QED BY <2>1, <2>2
<1> QED BY <1>1 DEF Carries

LEMMA FrameSwapsIdInv ==
  ASSUME IInv, NEW o \in Objs, NEW new \in Ids, FrameSwapsId(o, new)
  PROVE  IInv'
<1> DEFINE c == slot[o].sid
           s == Swapped(slot[o], new)
           f == [slot EXCEPT ![o] = s]
           q == [reg EXCEPT ![c] = None, ![new] = o]
<1>1. /\ slot[o] \in SlotRec /\ c \in Ids /\ reg[c] = o /\ Unused(new)
      /\ Commit(f, q) /\ alias' = Moved(c, new) /\ Save
      /\ transcript' = [transcript EXCEPT ![new] = TRUE]
      /\ UNCHANGED <<proc, crashes, ws>>
  BY SwapCase
<1>2. RestOK BY <1>1 DEF RestOK, IInv, TypeOK
<1>3. s \in SlotRec /\ s.sid = new BY <1>1, SwappedType
<1> HIDE DEF c, s
<1>4. f \in [Objs -> SlotRec \cup {None}] /\ q \in [Ids -> Objs \cup {None}]
  BY <1>3 DEF IInv, TypeOK
<1>5. Carries(f, q) BY <1>1, <1>3, CarriesMoved
<1>6. \A y \in Ids : y # new /\ q[y] # None => y # c /\ reg[y] # None
  BY <1>1 DEF IInv, TypeOK
<1>7. reg[c] # None BY <1>1, ConstantsAssumption
<1> HIDE DEF f, q
<1>8. alias' \in [Ids -> Ids \cup {None}] /\ FlatWith(alias', q)
  BY <1>1, <1>4, <1>6, <1>7, MovedFlat
<1> QED BY <1>1, <1>2, <1>4, <1>5, <1>8, CommitInv

LEMMA ResultFrameInv ==
  ASSUME IInv, NEW o \in Objs, ResultFrame(o)
  PROVE  IInv'
<1> DEFINE s == [slot[o] EXCEPT !.turn = FALSE]
<1>1. RestOK BY DEF ResultFrame, RestOK, IInv, TypeOK
<1>2. o \in Objs /\ Live(o) BY DEF ResultFrame
<1>3. s \in SlotRec /\ s.sid = slot[o].sid BY <1>2, LiveFacts DEF SlotRec
<1>4. Update(o, s) /\ alias' = alias /\ (ckpt' = ckpt \/ Save) BY DEF ResultFrame
<1> HIDE DEF s
<1> QED BY <1>1, <1>2, <1>3, <1>4, UpdateInv

LEMMA MarkSessionActiveInv ==
  ASSUME IInv, NEW i \in Ids, MarkSessionActive(i)
  PROVE  IInv'
<1> DEFINE o == SlotOf(i)
           s == [slot[o] EXCEPT !.status = "alive",
                               !.child = IF @ = "killed" THEN @ ELSE "none"]
<1>1. RestOK BY DEF MarkSessionActive, RestOK, IInv, TypeOK
<1>2. o \in Objs /\ Live(o) BY SlotOfFacts DEF MarkSessionActive
<1>3. s \in SlotRec /\ s.sid = slot[o].sid
  <2> DEFINE ch == IF slot[o].child = "killed" THEN slot[o].child ELSE "none"
  <2>1. slot[o] \in SlotRec BY <1>2, LiveFacts
  <2>2. ch \in ChildStates BY <2>1 DEF SlotRec, ChildStates
  <2>3. s = [slot[o] EXCEPT !.status = "alive", !.child = ch] OBVIOUS
  <2> HIDE DEF ch, s, o
  <2> QED BY <2>1, <2>2, <2>3 DEF SlotRec, Statuses
<1>4. Update(o, s) /\ alias' = alias /\ (ckpt' = ckpt \/ Save) BY DEF MarkSessionActive
<1> HIDE DEF o, s
<1> QED BY <1>1, <1>2, <1>3, <1>4, UpdateInv

LEMMA DisarmBurnInv ==
  ASSUME IInv, NEW i \in Ids, DisarmBurn(i)
  PROVE  IInv'
<1> DEFINE o == SlotOf(i)
           s == [slot[o] EXCEPT !.burn = FALSE]
<1>1. RestOK BY DEF DisarmBurn, RestOK, IInv, TypeOK
<1>2. o \in Objs /\ Live(o) BY SlotOfFacts DEF DisarmBurn
<1>3. s \in SlotRec /\ s.sid = slot[o].sid BY <1>2, LiveFacts DEF SlotRec
<1>4. Update(o, s) /\ alias' = alias /\ (ckpt' = ckpt \/ Save) BY DEF DisarmBurn
<1> HIDE DEF o, s
<1> QED BY <1>1, <1>2, <1>3, <1>4, UpdateInv

LEMMA InterruptSessionInv ==
  ASSUME IInv, NEW i \in Ids, InterruptSession(i)
  PROVE  IInv'
<1> DEFINE o == SlotOf(i)
           s == StopChild(slot[o])
<1>1. RestOK BY DEF InterruptSession, RestOK, IInv, TypeOK
<1>2. o \in Objs /\ Live(o) BY SlotOfFacts DEF InterruptSession
<1>3. s \in SlotRec /\ s.sid = slot[o].sid BY <1>2, LiveFacts, StopChildType DEF SlotRec
<1>4. Update(o, s) /\ alias' = alias /\ (ckpt' = ckpt \/ Save) BY DEF InterruptSession
<1> HIDE DEF o, s
<1> QED BY <1>1, <1>2, <1>3, <1>4, UpdateInv

LEMMA SetSessionModelInv ==
  ASSUME IInv, NEW i \in Ids, SetSessionModel(i)
  PROVE  IInv'
<1> DEFINE o == SlotOf(i)
           s == IF HasUnkilledChild(slot[o]) THEN StopChild(slot[o])
                ELSE [slot[o] EXCEPT !.turn = FALSE]
<1>1. RestOK BY DEF SetSessionModel, RestOK, IInv, TypeOK
<1>2. o \in Objs /\ Live(o) BY SlotOfFacts DEF SetSessionModel
<1>3. s \in SlotRec /\ s.sid = slot[o].sid
  <2>1. slot[o] \in SlotRec BY <1>2, LiveFacts
  <2>2. /\ [slot[o] EXCEPT !.turn = FALSE] \in SlotRec
        /\ [slot[o] EXCEPT !.turn = FALSE].sid = slot[o].sid
    BY <2>1 DEF SlotRec
  <2>3. StopChild(slot[o]) \in SlotRec /\ StopChild(slot[o]).sid = slot[o].sid
    BY <2>1, StopChildType
  <2> QED BY <2>2, <2>3
<1>4. Update(o, s) /\ alias' = alias /\ (ckpt' = ckpt \/ Save) BY DEF SetSessionModel
<1> HIDE DEF o, s
<1> QED BY <1>1, <1>2, <1>3, <1>4, UpdateInv

LEMMA DestroySessionInv ==
  ASSUME IInv, NEW i \in Ids, DestroySession(i)
  PROVE  IInv'
<1> DEFINE o == SlotOf(i)
           s == BeginDestroy(slot[o])
<1>1. RestOK BY DEF DestroySession, RestOK, IInv, TypeOK
<1>2. o \in Objs /\ Live(o) BY SlotOfFacts DEF DestroySession
<1>3. s \in SlotRec /\ s.sid = slot[o].sid BY <1>2, LiveFacts, BeginDestroyType DEF SlotRec
<1>4. Update(o, s) /\ alias' = alias /\ (ckpt' = ckpt \/ Save) BY DEF DestroySession
<1> HIDE DEF o, s
<1> QED BY <1>1, <1>2, <1>3, <1>4, UpdateInv

LEMMA EndSessionInv ==
  ASSUME IInv, NEW i \in Ids, EndSession(i)
  PROVE  IInv'
<1> DEFINE o == SlotOf(i)
           s == [slot[o] EXCEPT !.ender = EndBegins(slot[o])]
<1>1. RestOK BY DEF EndSession, RestOK, IInv, TypeOK
<1>2. o \in Objs /\ Live(o) BY SlotOfFacts DEF EndSession
<1>3. s \in SlotRec /\ s.sid = slot[o].sid BY <1>2, LiveFacts DEF SlotRec, EndBegins, WaitStates
<1>4. Update(o, s) /\ alias' = alias /\ (ckpt' = ckpt \/ Save) BY DEF EndSession
<1> HIDE DEF o, s
<1> QED BY <1>1, <1>2, <1>3, <1>4, UpdateInv

LEMMA ChildExitsInv ==
  ASSUME IInv, NEW o \in Objs, ChildExits(o)
  PROVE  IInv'
<1> DEFINE s == [slot[o] EXCEPT !.child = "exited"]
<1>1. RestOK BY DEF ChildExits, RestOK, IInv, TypeOK
<1>2. o \in Objs /\ Live(o) BY DEF ChildExits
<1>3. s \in SlotRec /\ s.sid = slot[o].sid BY <1>2, LiveFacts DEF SlotRec, ChildStates
<1>4. Update(o, s) /\ alias' = alias /\ (ckpt' = ckpt \/ Save) BY DEF ChildExits
<1> HIDE DEF s
<1> QED BY <1>1, <1>2, <1>3, <1>4, UpdateInv

LEMMA DrainTimerInv ==
  ASSUME IInv, NEW o \in Objs, DrainTimer(o)
  PROVE  IInv'
<1> DEFINE s == Killed(slot[o])
<1>1. RestOK BY DEF DrainTimer, RestOK, IInv, TypeOK
<1>2. o \in Objs /\ Live(o)
  BY ConstantsAssumption DEF DrainTimer, Registered, IInv, RegistryConsistent
<1>3. s \in SlotRec /\ s.sid = slot[o].sid BY <1>2, LiveFacts, KilledType DEF SlotRec
<1>4. Update(o, s) /\ alias' = alias /\ (ckpt' = ckpt \/ Save) BY DEF DrainTimer
<1> HIDE DEF s
<1> QED BY <1>1, <1>2, <1>3, <1>4, UpdateInv

LEMMA DestroyUnregisteredInv ==
  ASSUME IInv, NEW i \in Ids, DestroyUnregistered(i)
  PROVE  IInv'
BY DEF DestroyUnregistered, IInv, TypeOK, RegistryConsistent, AliasesFlat,
       CkptFlat, Live

LEMMA EndTimerInv ==
  ASSUME IInv, NEW o \in Objs, EndTimer(o)
  PROVE  IInv'
<1>1. RestOK BY DEF EndTimer, RestOK, IInv, TypeOK
<1>2. Live(o) /\ slot[o] \in SlotRec BY LiveFacts DEF EndTimer
<1>3. Killed(slot[o]) \in SlotRec /\ Killed(slot[o]).sid = slot[o].sid
  BY <1>2, KilledType
<1>4. alias' = alias /\ ckpt' = ckpt BY DEF EndTimer
<1>5. CASE Update(o, [Killed(slot[o]) EXCEPT !.ender = Over(@)])
  <2>1. /\ [Killed(slot[o]) EXCEPT !.ender = Over(@)] \in SlotRec
        /\ [Killed(slot[o]) EXCEPT !.ender = Over(@)].sid = slot[o].sid
    BY <1>3 DEF SlotRec, Over, WaitStates
  <2> QED BY <1>1, <1>2, <1>4, <1>5, <2>1, UpdateInv
<1>6. CASE Update(o, [Killed(slot[o]) EXCEPT !.destroyer = Over(@)])
  <2>1. /\ [Killed(slot[o]) EXCEPT !.destroyer = Over(@)] \in SlotRec
        /\ [Killed(slot[o]) EXCEPT !.destroyer = Over(@)].sid = slot[o].sid
    BY <1>3 DEF SlotRec, Over, WaitStates
  <2> QED BY <1>1, <1>2, <1>4, <1>6, <2>1, UpdateInv
<1> QED BY <1>5, <1>6 DEF EndTimer

(* Replacing a slot object by one with its id carries the registry over. *)
LEMMA CarriesReplaced ==
  ASSUME IInv, NEW o \in Objs, Live(o), NEW s \in SlotRec, s.sid = slot[o].sid,
         NEW c \in Ids
  PROVE  /\ [slot EXCEPT ![o] = s] \in [Objs -> SlotRec \cup {None}]
         /\ Carries([slot EXCEPT ![o] = s], reg)
         /\ Carries([slot EXCEPT ![o] = s], [reg EXCEPT ![c] = None])
<1> DEFINE f == [slot EXCEPT ![o] = s]
<1>1. f \in [Objs -> SlotRec \cup {None}] BY DEF IInv, TypeOK
<1>2. \A p \in Objs : slot[p] # None => f[p] # None /\ f[p].sid = slot[p].sid
  BY NoneAssumption DEF IInv, TypeOK
<1>3. \A x \in Ids : reg[x] # None => f[reg[x]] # None /\ f[reg[x]].sid = x
  <2> HIDE DEF f
  <2> QED BY <1>2 DEF IInv, TypeOK, RegistryConsistent, Live
<1> HIDE DEF f
<1>4. Carries(f, reg) /\ Carries(f, [reg EXCEPT ![c] = None])
  BY <1>3 DEF Carries, IInv, TypeOK
<1> QED BY <1>1, <1>4 DEF f

LEMMA EndFinishesInv ==
  ASSUME IInv, NEW o \in Objs, EndFinishes(o)
  PROVE  IInv'
<1> DEFINE s == [slot[o] EXCEPT !.ender = "no"]
           c == slot[o].sid
<1>1. RestOK BY DEF EndFinishes, RestOK, IInv, TypeOK
<1>2. Live(o) /\ slot[o] \in SlotRec /\ c \in Ids BY LiveFacts DEF EndFinishes
<1>3. s \in SlotRec /\ s.sid = slot[o].sid BY <1>2 DEF SlotRec, WaitStates
<1>4. /\ Commit([slot EXCEPT ![o] = s], [reg EXCEPT ![c] = None])
      /\ alias' = DropAliases(c) /\ Save
  BY DEF EndFinishes
<1> HIDE DEF s, c
<1>5. /\ [slot EXCEPT ![o] = s] \in [Objs -> SlotRec \cup {None}]
      /\ Carries([slot EXCEPT ![o] = s], [reg EXCEPT ![c] = None])
  BY <1>2, <1>3, CarriesReplaced
<1> QED BY <1>1, <1>2, <1>4, <1>5, DropInv

LEMMA DestroyFinishesInv ==
  ASSUME IInv, NEW o \in Objs, DestroyFinishes(o)
  PROVE  IInv'
<1> DEFINE s == [slot[o] EXCEPT !.destroyer = "no"]
           c == slot[o].sid
<1>1. RestOK BY DEF DestroyFinishes, RestOK, IInv, TypeOK
<1>2. Live(o) /\ slot[o] \in SlotRec /\ c \in Ids BY LiveFacts DEF DestroyFinishes
<1>3. s \in SlotRec /\ s.sid = slot[o].sid BY <1>2 DEF SlotRec, WaitStates
<1>4. /\ Commit([slot EXCEPT ![o] = s], [reg EXCEPT ![c] = None])
      /\ alias' = DropAliases(c) /\ Save
  BY DEF DestroyFinishes
<1> HIDE DEF s, c
<1>5. /\ [slot EXCEPT ![o] = s] \in [Objs -> SlotRec \cup {None}]
      /\ Carries([slot EXCEPT ![o] = s], [reg EXCEPT ![c] = None])
  BY <1>2, <1>3, CarriesReplaced
<1> QED BY <1>1, <1>2, <1>4, <1>5, DropInv

LEMMA ChildClosesInv ==
  ASSUME IInv, NEW o \in Objs, NEW clean \in BOOLEAN, ChildCloses(o, clean)
  PROVE  IInv'
<1> DEFINE s == Closed(slot[o])
           dormant == slot[o].reap \/ clean
           ended == [s EXCEPT !.reap = FALSE, !.status = "ended"]
           d == reg[s.sid]
<1>1. RestOK BY DEF ChildCloses, RestOK, IInv, TypeOK
<1>2. Live(o) /\ slot[o] \in SlotRec BY LiveFacts DEF ChildCloses
<1>3. s \in SlotRec /\ s.sid = slot[o].sid BY <1>2, ClosedType
<1>4. alias' = alias BY DEF ChildCloses
<1>5. \/ Update(o, s) /\ UNCHANGED ckpt
      \/ Update(o, [s EXCEPT !.suppress = FALSE]) /\ Save
      \/ /\ Update(o, [s EXCEPT !.reap = FALSE,
                         !.status = IF dormant THEN "dormant" ELSE "ended"])
         /\ Save
      \/ /\ d # None
         /\ Commit(IF d = o THEN [slot EXCEPT ![o] = BeginDestroy(ended)]
                   ELSE [slot EXCEPT ![o] = ended, ![d] = BeginDestroy(@)], reg)
         /\ Save
  BY DEF ChildCloses
<1> HIDE DEF s
<1>6. CASE Update(o, s) /\ UNCHANGED ckpt
  BY <1>1, <1>2, <1>3, <1>4, <1>6, UpdateInv
<1>7. CASE Update(o, [s EXCEPT !.suppress = FALSE]) /\ Save
  <2>1. /\ [s EXCEPT !.suppress = FALSE] \in SlotRec
        /\ [s EXCEPT !.suppress = FALSE].sid = slot[o].sid
    BY <1>3 DEF SlotRec
  <2> QED BY <1>1, <1>2, <1>4, <1>7, <2>1, UpdateInv
<1>8. CASE /\ Update(o, [s EXCEPT !.reap = FALSE,
                           !.status = IF dormant THEN "dormant" ELSE "ended"])
           /\ Save
  <2> DEFINE t == [s EXCEPT !.reap = FALSE,
                            !.status = IF dormant THEN "dormant" ELSE "ended"]
  <2>1. t \in SlotRec /\ t.sid = slot[o].sid BY <1>3 DEF SlotRec, Statuses
  <2> HIDE DEF t
  <2>2. Update(o, t) /\ Save BY <1>8 DEF t
  <2> QED BY <1>1, <1>2, <1>4, <2>1, <2>2, UpdateInv
<1>9. CASE /\ d # None
           /\ Commit(IF d = o THEN [slot EXCEPT ![o] = BeginDestroy(ended)]
                     ELSE [slot EXCEPT ![o] = ended, ![d] = BeginDestroy(@)], reg)
           /\ Save
  <2>1. ended \in SlotRec /\ ended.sid = slot[o].sid BY <1>3 DEF SlotRec, Statuses
  <2> HIDE DEF ended
  <2>2. BeginDestroy(ended) \in SlotRec /\ BeginDestroy(ended).sid = slot[o].sid
    BY <2>1, BeginDestroyType
  <2>3. CASE d = o
    <3>1. Update(o, BeginDestroy(ended)) BY <1>9, <2>3 DEF Update
    <3> QED BY <1>1, <1>2, <1>4, <1>9, <2>2, <3>1, UpdateInv
  <2>4. CASE d # o
    <3>1. d \in Objs /\ Live(d) /\ slot[d] \in SlotRec
      BY <1>3, <1>9, LiveFacts DEF IInv, TypeOK, RegistryConsistent, SlotRec
    <3>2. BeginDestroy(slot[d]) \in SlotRec /\ BeginDestroy(slot[d]).sid = slot[d].sid
      BY <3>1, BeginDestroyType
    <3> DEFINE b == BeginDestroy(slot[d])
               f == [slot EXCEPT ![o] = ended, ![d] = b]
    <3> HIDE DEF b, d
    <3>3. f \in [Objs -> SlotRec \cup {None}]
      BY <2>1, <3>1, <3>2 DEF b, IInv, TypeOK
    <3>4. \A p \in Objs : slot[p] # None => f[p] # None /\ f[p].sid = slot[p].sid
      BY <2>1, <2>4, <3>1, <3>2, NoneAssumption DEF b, IInv, TypeOK
    <3>5. Commit(f, reg)
      <4>1. [slot EXCEPT ![o] = ended, ![d] = BeginDestroy(@)] = f
        BY <2>4, <3>1 DEF b, IInv, TypeOK
      <4> QED BY <1>9, <2>4, <4>1 DEF d
    <3> HIDE DEF f
    <3>6. Carries(f, reg)
      BY <3>4 DEF Carries, IInv, TypeOK, RegistryConsistent, Live
    <3>7. /\ reg \in [Ids -> Objs \cup {None}] /\ alias' \in [Ids -> Ids \cup {None}]
      BY <1>4 DEF IInv, TypeOK
    <3> QED BY <1>1, <1>4, <1>9, <3>3, <3>5, <3>6, <3>7, ShrinkInv
  <2> QED BY <2>3, <2>4
<1> QED BY <1>5, <1>6, <1>7, <1>8, <1>9

LEMMA SweepIdleInv ==
  ASSUME IInv, NEW i \in Ids, SweepIdle(i)
  PROVE  IInv'
<1> DEFINE o == reg[i]
           s == slot[o]
           t == [s EXCEPT !.status = "ended"]
           k == [Killed(s) EXCEPT !.reap = TRUE]
           d == [s EXCEPT !.status = "dormant"]
<1>1. RestOK BY DEF SweepIdle, RestOK, IInv, TypeOK
<1>2. o \in Objs /\ Live(o) /\ s \in SlotRec
  BY LiveFacts DEF SweepIdle, IInv, TypeOK, RegistryConsistent
<1>3. t \in SlotRec /\ t.sid = s.sid /\ d \in SlotRec /\ d.sid = s.sid
  BY <1>2 DEF SlotRec, Statuses
<1>4. BeginDestroy(t) \in SlotRec /\ BeginDestroy(t).sid = s.sid
  BY <1>3, BeginDestroyType
<1>5. k \in SlotRec /\ k.sid = s.sid
  <2>1. Killed(s) \in SlotRec /\ Killed(s).sid = s.sid BY <1>2, KilledType
  <2> QED BY <2>1 DEF SlotRec
<1>6. alias' = alias /\ (ckpt' = ckpt \/ Save) BY DEF SweepIdle
<1>7. Update(o, BeginDestroy(t)) \/ Update(o, k) \/ Update(o, d) BY DEF SweepIdle
<1> HIDE DEF o, t, k, d
<1> QED BY <1>1, <1>2, <1>3, <1>4, <1>5, <1>6, <1>7, UpdateInv

LEMMA ShutdownInv == ASSUME IInv, Shutdown PROVE IInv'
BY DEF Shutdown, IInv, TypeOK, RegistryConsistent, AliasesFlat, CkptFlat, Live

(* The dead process has no registry, and its checkpoint is flat. *)
LEMMA DeadInv ==
  ASSUME IInv, Dead("down"), crashes' \in 0..MaxCrashes,
         ckpt' \in [Ids -> CkptRec \cup {None}], CkptFlat',
         transcript' \in [Ids -> BOOLEAN]
  PROVE  IInv'
<1>1. TypeOK' BY DEF Dead, IInv, TypeOK
<1>2. RegistryConsistent' /\ AliasesFlat'
  BY DEF Dead, RegistryConsistent, AliasesFlat
<1> QED BY <1>1, <1>2 DEF IInv

(* What is saved of a part of the registry restores flat. *)
LEMMA SavedFlat ==
  ASSUME IInv, NEW r \in [Ids -> Objs \cup {None}],
         NEW a \in [Ids -> Ids \cup {None}],
         \A i \in Ids : r[i] # None => r[i] = reg[i],
         \A x \in Ids : a[x] # None => r[x] = None
  PROVE  /\ Saved(r, slot, a) \in [Ids -> CkptRec \cup {None}]
         /\ \A i \in Ids : Saved(r, slot, a)[i] # None =>
              /\ r[i] # None
              /\ \A x \in Saved(r, slot, a)[i].aliases :
                   x \in Ids /\ a[x] = i /\ Saved(r, slot, a)[x] = None
<1> DEFINE k == Saved(r, slot, a)
<1>1. k = [i \in Ids |-> k[i]] BY DEF Saved
<1>2. ASSUME NEW i \in Ids, k[i] # None
      PROVE  /\ r[i] # None /\ k[i] \in CkptRec
             /\ k[i].aliases = {x \in Ids : a[x] = i}
  <2>1. /\ r[i] # None
        /\ k[i] = [cwd |-> slot[r[i]].cwd, burn |-> slot[r[i]].burn,
                   aliases |-> {x \in Ids : a[x] = i}]
    BY <1>2 DEF Saved
  <2>2. slot[r[i]] \in SlotRec
    BY <2>1 DEF IInv, TypeOK, RegistryConsistent, Live
  <2> QED BY <2>1, <2>2 DEF SlotRec, CkptRec
<1>3. ASSUME NEW i \in Ids, k[i] # None, NEW x \in k[i].aliases
      PROVE  x \in Ids /\ a[x] = i /\ k[x] = None
  <2>1. x \in Ids /\ a[x] = i BY <1>2, <1>3
  <2>2. r[x] = None BY <2>1, ConstantsAssumption
  <2> QED BY <2>1, <2>2, <1>2
<1> HIDE DEF k
<1>4. k \in [Ids -> CkptRec \cup {None}] BY <1>1, <1>2
<1> QED BY <1>2, <1>3, <1>4 DEF k

LEMMA ExitInv == ASSUME IInv, Exit PROVE IInv'
<1>1. Dead("down") /\ crashes' \in 0..MaxCrashes /\ transcript' = transcript
  BY DEF Exit, IInv, TypeOK
<1>2. reg \in [Ids -> Objs \cup {None}] /\ alias \in [Ids -> Ids \cup {None}]
      /\ \A x \in Ids : alias[x] # None => reg[x] = None
  BY DEF IInv, TypeOK, AliasesFlat
<1>3. ckpt' = Saved(reg, slot, alias) BY DEF Exit
<1>4. ckpt' \in [Ids -> CkptRec \cup {None}] /\ CkptFlat'
  BY <1>2, <1>3, SavedFlat DEF CkptFlat
<1>5. transcript' \in [Ids -> BOOLEAN] BY <1>1 DEF IInv, TypeOK
<1> QED BY <1>1, <1>4, <1>5, DeadInv

LEMMA DiesCounted == ASSUME IInv, Dies PROVE Dead("down") /\ crashes' \in 0..MaxCrashes
BY ConstantsAssumption DEF Dies, IInv, TypeOK

LEMMA CrashInv == ASSUME IInv, Crash PROVE IInv'
<1>1. Dies /\ ckpt' = ckpt /\ transcript' = transcript BY DEF Crash
<1>2. /\ ckpt' \in [Ids -> CkptRec \cup {None}] /\ CkptFlat'
      /\ transcript' \in [Ids -> BOOLEAN]
  BY <1>1 DEF IInv, TypeOK, CkptFlat
<1> QED BY <1>1, <1>2, DiesCounted, DeadInv

LEMMA DestroyDiesInv == ASSUME IInv, NEW o \in Objs, DestroyDies(o) PROVE IInv'
<1> DEFINE c == slot[o].sid
           q == [reg EXCEPT ![c] = None]
<1>1. /\ Dies /\ ckpt' = Saved(q, slot, DropAliases(c))
      /\ transcript' \in {transcript, [transcript EXCEPT ![c] = FALSE]}
  BY DEF DestroyDies
<1> HIDE DEF c
<1>2. DropAliases(c) \in [Ids -> Ids \cup {None}] BY DEF DropAliases, IInv, TypeOK
<1>3. q \in [Ids -> Objs \cup {None}] /\ \A i \in Ids : q[i] # None => q[i] = reg[i]
  BY DEF IInv, TypeOK
<1>4. \A x \in Ids : DropAliases(c)[x] # None => q[x] = None
  BY DEF DropAliases, IInv, TypeOK, AliasesFlat
<1> HIDE DEF q
<1>5. ckpt' \in [Ids -> CkptRec \cup {None}] /\ CkptFlat'
  BY <1>1, <1>2, <1>3, <1>4, SavedFlat DEF CkptFlat
<1>6. transcript' \in [Ids -> BOOLEAN] BY <1>1 DEF IInv, TypeOK
<1> QED BY <1>1, <1>5, <1>6, DiesCounted, DeadInv

(* What a recovery leaves that dies between its two saves: the rows of the
   other sessions, and the new one without aliases. *)
LEMMA RecoverDiesCase ==
  ASSUME IInv, NEW o \in Objs, RecoverDies(o)
  PROVE  LET old  == slot[o].sid
             q    == [reg EXCEPT ![old] = None]
         IN /\ Live(o) /\ slot[o].writer = "failed" /\ Dies /\ old \in Ids
            /\ reg[old] \in Objs /\ Live(reg[old]) /\ transcript' = transcript
            /\ \E new \in Ids :
                 /\ Unused(new)
                 /\ ckpt' = [Saved(q, slot, alias) EXCEPT ![new] =
                      [cwd |-> slot[reg[old]].cwd, burn |-> slot[reg[old]].burn,
                       aliases |-> {}]]
<1>1. Live(o) /\ slot[o].sid \in Ids BY LiveFacts DEF RecoverDies
<1>2. reg[slot[o].sid] \in Objs /\ Live(reg[slot[o].sid])
  BY <1>1 DEF RecoverDies, IInv, TypeOK, RegistryConsistent
<1> QED BY <1>1, <1>2 DEF RecoverDies

LEMMA RecoverDiesInv == ASSUME IInv, NEW o \in Objs, RecoverDies(o) PROVE IInv'
<1> DEFINE old == slot[o].sid
           q   == [reg EXCEPT ![old] = None]
           k   == Saved(q, slot, alias)
<1>1. PICK new \in Ids :
        /\ Unused(new)
        /\ ckpt' = [k EXCEPT ![new] =
             [cwd |-> slot[reg[old]].cwd, burn |-> slot[reg[old]].burn,
              aliases |-> {}]]
  BY RecoverDiesCase
<1>2. Dies /\ old \in Ids /\ reg[old] \in Objs /\ Live(reg[old]) /\ transcript' = transcript
  BY RecoverDiesCase
<1> DEFINE row == [cwd |-> slot[reg[old]].cwd, burn |-> slot[reg[old]].burn,
                   aliases |-> {}]
<1>3. row \in CkptRec /\ row.aliases = {}
  <2>1. slot[reg[old]] \in SlotRec BY <1>2, LiveFacts
  <2> QED BY <2>1 DEF SlotRec, CkptRec
<1> HIDE DEF row
<1>4. ckpt' = [k EXCEPT ![new] = row] BY <1>1 DEF row
<1>5. /\ q \in [Ids -> Objs \cup {None}] /\ alias \in [Ids -> Ids \cup {None}]
      /\ \A i \in Ids : q[i] # None => q[i] = reg[i]
      /\ \A x \in Ids : alias[x] # None => q[x] = None
  BY DEF IInv, TypeOK, AliasesFlat
<1> HIDE DEF q
<1>6. /\ k \in [Ids -> CkptRec \cup {None}]
      /\ \A i \in Ids : k[i] # None =>
           \A x \in k[i].aliases : x \in Ids /\ alias[x] = i /\ k[x] = None
  BY <1>5, SavedFlat
<1> HIDE DEF k
<1>7. ckpt' \in [Ids -> CkptRec \cup {None}] BY <1>3, <1>4, <1>6
<1>8. CkptFlat'
  <2>1. ASSUME NEW i \in Ids, NEW x \in Ids, ckpt'[i] # None, x \in ckpt'[i].aliases
        PROVE  ckpt'[x] = None
    <3>1. i # new /\ ckpt'[i] = k[i] BY <2>1, <1>3, <1>4, <1>6
    <3>2. alias[x] = i /\ k[x] = None BY <3>1, <2>1, <1>6
    <3>3. x # new BY <3>2, <1>1, ConstantsAssumption DEF Unused
    <3> QED BY <3>2, <3>3, <1>4, <1>6
  <2> QED BY <2>1 DEF CkptFlat
<1>9. transcript' \in [Ids -> BOOLEAN] BY <1>2 DEF IInv, TypeOK
<1> QED BY <1>2, <1>7, <1>8, <1>9, DiesCounted, DeadInv

(* A boot that dies leaves a part of the checkpoint it found. *)
LEMMA BootDiesInv == ASSUME IInv, BootDies PROVE IInv'
<1>1. crashes' \in 0..MaxCrashes BY ConstantsAssumption DEF BootDies, IInv, TypeOK
<1>2. PICK gone \in SUBSET {i \in Ids : BurnsAtBoot(i)} :
        /\ ckpt' = [i \in Ids |-> IF Restorable(i) /\ i \notin gone THEN ckpt[i]
                                  ELSE None]
        /\ \E half \in SUBSET gone : \E left \in SUBSET half :
             /\ transcript' = [i \in Ids |-> transcript[i] /\ i \notin gone \ left]
             /\ ws' = [i \in Ids |-> ws[i] /\ \A b \in gone \ half : ckpt[b].cwd # i]
  BY DEF BootDies
<1>3. transcript' \in [Ids -> BOOLEAN] /\ ws' \in [Ids -> BOOLEAN]
  BY <1>2 DEF IInv, TypeOK
<1>4. ckpt' \in [Ids -> CkptRec \cup {None}] /\ CkptFlat'
  BY <1>2 DEF IInv, TypeOK, CkptFlat
<1> QED BY <1>1, <1>3, <1>4
        DEF BootDies, IInv, TypeOK, RegistryConsistent, AliasesFlat, Live

LEMMA BootInv == ASSUME IInv, Boot PROVE IInv'
<1> DEFINE burned == {i \in Ids : BurnsAtBoot(i)}
           back   == {i \in Ids : Restorable(i)} \ burned
<1>1. PICK f \in [back -> Objs] :
        /\ \A i, j \in back : f[i] = f[j] => i = j
        /\ reg' = [i \in Ids |-> IF i \in back THEN f[i] ELSE None]
        /\ slot' = [o \in Objs |->
             IF \E i \in back : f[i] = o
             THEN LET i == CHOOSE x \in back : f[x] = o
                  IN NewSlot(i, ckpt[i].cwd, "dormant", "none", FALSE)
             ELSE None]
  BY DEF Boot
<1>2. \A i \in back : i \in Ids /\ ckpt[i] \in CkptRec /\ ckpt[i] # None
  BY DEF Restorable, IInv, TypeOK
<1>3. ASSUME NEW i \in back
      PROVE  /\ NewSlot(i, ckpt[i].cwd, "dormant", "none", FALSE) \in SlotRec
             /\ NewSlot(i, ckpt[i].cwd, "dormant", "none", FALSE).sid = i
  <2>1. ckpt[i].cwd \in Ids BY <1>2 DEF CkptRec
  <2> QED BY <2>1, <1>2, NewSlotType DEF Statuses, ChildStates
<1>4. \A i \in Ids : ckpt'[i] = (IF i \in back THEN ckpt[i] ELSE None)
  BY DEF Boot
<1>5. ckpt' = [i \in Ids |-> IF i \in back THEN ckpt[i] ELSE None] BY DEF Boot
<1>6. alias' = [x \in Ids |->
                  IF \E i \in back : x \in ckpt[i].aliases
                  THEN CHOOSE i \in back : x \in ckpt[i].aliases ELSE None]
  BY DEF Boot
<1>7. RestOK BY DEF Boot, RestOK, IInv, TypeOK
<1> HIDE DEF back
<1>8. ASSUME NEW o \in Objs, NEW i \in back, f[i] = o
      PROVE  slot'[o] \in SlotRec /\ slot'[o].sid = i
  <2>1. (CHOOSE x \in back : f[x] = o) = i BY <1>1, <1>8
  <2>2. slot'[o] = NewSlot(i, ckpt[i].cwd, "dormant", "none", FALSE)
    BY <2>1, <1>1, <1>8
  <2> QED BY <2>2, <1>3
<1>9. reg' \in [Ids -> Objs \cup {None}] BY <1>1
<1>10. slot' \in [Objs -> SlotRec \cup {None}]
  <2>1. ASSUME NEW o \in Objs PROVE slot'[o] \in SlotRec \cup {None}
    <3>1. CASE \E i \in back : f[i] = o BY <3>1, <1>8
    <3>2. CASE ~\E i \in back : f[i] = o BY <3>2, <1>1
    <3> QED BY <3>1, <3>2
  <2>2. slot' = [o \in Objs |-> slot'[o]] BY <1>1
  <2> QED BY <2>1, <2>2
<1>11. RegistryConsistent'
  <2>1. ASSUME NEW i \in Ids, reg'[i] # None
        PROVE  slot'[reg'[i]] # None /\ slot'[reg'[i]].sid = i
    <3>1. i \in back /\ reg'[i] = f[i] /\ f[i] \in Objs BY <2>1, <1>1
    <3> QED BY <3>1, <1>8, NoneAssumption
  <2> QED BY <2>1 DEF RegistryConsistent, Live
<1>12. ASSUME NEW x \in Ids, alias'[x] # None
       PROVE  \E i \in back : alias'[x] = i /\ x \in ckpt[i].aliases
  <2>1. \E i \in back : x \in ckpt[i].aliases BY <1>6, <1>12
  <2>2. alias'[x] = CHOOSE i \in back : x \in ckpt[i].aliases BY <1>6, <2>1
  <2> QED BY <2>1, <2>2
<1>13. alias' \in [Ids -> Ids \cup {None}]
  <2>1. \A x \in Ids : alias'[x] \in Ids \cup {None} BY <1>12, <1>2
  <2>2. alias' = [x \in Ids |-> alias'[x]] BY <1>6
  <2> QED BY <2>1, <2>2
<1>14. AliasesFlat'
  <2>1. ASSUME NEW x \in Ids, alias'[x] # None
        PROVE  alias'[alias'[x]] = None /\ reg'[x] = None
    <3>1. PICK i \in back : alias'[x] = i /\ x \in ckpt[i].aliases BY <1>12, <2>1
    <3>2. ckpt[x] = None BY <3>1, <1>2 DEF IInv, CkptFlat
    <3>3. reg'[x] = None BY <3>2, <1>1, <1>2
    <3>4. ASSUME alias'[i] # None PROVE FALSE
      <4>1. PICK j \in back : i \in ckpt[j].aliases BY <1>12, <1>2, <3>4
      <4>2. ckpt[i] = None BY <4>1, <1>2 DEF IInv, CkptFlat
      <4> QED BY <4>2, <1>2
    <3> QED BY <3>1, <3>3, <3>4
  <2> QED BY <2>1 DEF AliasesFlat
<1>15. ckpt' \in [Ids -> CkptRec \cup {None}] BY <1>2, <1>5
<1>16. CkptFlat' BY <1>2, <1>4 DEF CkptFlat, IInv
<1> QED BY <1>7, <1>9, <1>10, <1>11, <1>13, <1>14, <1>15, <1>16
        DEF IInv, TypeOK, RestOK

-----------------------------------------------------------------------------
LEMMA InitInv == Init => IInv
BY ConstantsAssumption
   DEF Init, IInv, TypeOK, RegistryConsistent, AliasesFlat, CkptFlat

LEMMA NextInv == IInv /\ [Next]_vars => IInv'
<1> SUFFICES ASSUME IInv, [Next]_vars PROVE IInv'
  OBVIOUS
<1>1. CASE Requests
  BY <1>1, StartNewConversationInv, RegisterProvisioningInv, MessageLiveInv,
     MessagePrunesInv, MessageRevivesInv, MessageAtCapInv, MarkSessionActiveInv,
     DisarmBurnInv, InterruptSessionInv, SetSessionModelInv, DestroySessionInv,
     DestroyUnregisteredInv, EndSessionInv DEF Requests
<1>2. CASE Background
  BY <1>2, CloneDoneInv, CloneFailedInv, SweepIdleInv, FirstFrameInv,
     ResultFrameInv, ChildExitsInv, ChildClosesInv, WriteDoneInv, WriteFailsInv,
     ResumeTimesOutInv, RecoverInv, EndTimerInv, EndFinishesInv,
     DestroyFinishesInv, FrameSwapsIdInv DEF Background
<1>3. CASE Process
  BY <1>3, ShutdownInv, DrainTimerInv, ExitInv, CrashInv, BootInv, BootDiesInv,
     RecoverDiesInv, DestroyDiesInv DEF Process
<1>4. CASE UNCHANGED vars
  BY <1>4 DEF vars, IInv, TypeOK, RegistryConsistent, AliasesFlat, CkptFlat, Live
<1> QED BY <1>1, <1>2, <1>3, <1>4 DEF Next

(* The inductive invariant holds throughout. *)
LEMMA Invariance == Spec => []IInv
<1> QED BY InitInv, NextInv, PTL DEF Spec

(* Every variable of the registry keeps its type, whatever overlaps. *)
THEOREM TypeCorrect == Spec => []TypeOK
<1>1. IInv => TypeOK BY DEF IInv
<1> QED BY <1>1, Invariance, PTL

(* A slot carries the id it is registered under: slots and meta.sessionId
   cannot drift apart, so that every slots.delete(meta.sessionId) and every
   save meets the slot it means or none. *)
THEOREM RegistryIsConsistent == Spec => []RegistryConsistent
<1>1. IInv => RegistryConsistent BY DEF IInv
<1> QED BY <1>1, Invariance, PTL

(* canonical() needs one lookup: no alias chain and no alias that is also a
   session, through any sequence of wakes, re-keys, id swaps, recoveries, ends,
   crashes and boots. *)
THEOREM AliasesStayFlat == Spec => []AliasesFlat
<1>1. IInv => AliasesFlat BY DEF IInv
<1> QED BY <1>1, Invariance, PTL

-----------------------------------------------------------------------------
(***************************************************************************)
(* The slots, record by record: what a status, a turn and a pending write  *)
(* say about the child.                                                    *)
(***************************************************************************)

(* The overlaps that take the slot from under a pending write or teardown,
   and the two that together strand one, do not happen. *)
Guarded == Races \subseteq {"stop"} \/ Races \subseteq {"exited"}

(* A slot that was never spawned has no child, a running child is behind an
   alive slot or one being destroyed, and what waits for a child to be gone
   goes on only when it is. *)
StatusFits(s) ==
  /\ s.status \in {"provisioning", "error"} =>
       s.child = "none" /\ ~s.turn /\ s.writer = "no"
  /\ s.status = "provisioning" => s.cwd = s.sid
  /\ s.child = "running" => s.status = "alive" \/ s.destroying
  /\ s.writer = "failed" \/ s.ender = "ready" \/ s.destroyer = "ready" =>
       s.child # "running"
  /\ s.destroyer # "no" => s.destroying

(* A turn has a child that will report a close, and only a child we
   signalled is told not to. *)
TurnFits(s) ==
  /\ s.turn => s.status = "alive" /\ s.child \in {"running", "exited", "killed"}
  /\ s.child \in {"running", "exited"} => ~s.suppress

(* A revive whose outcome is open is in its turn, or was heard from. *)
WriterFits(s) ==
  /\ s.writer \in {"watching", "failed"} => s.phase # "heard"
  /\ s.writer # "no" /\ s.child \in {"running", "exited"} =>
       ~s.suppress /\ (s.turn \/ s.phase = "heard")
  /\ s.ender # "no" => s.writer = "no"

(* What holds of the record of any slot, registered or not. *)
SlotFits(s) ==
  /\ StatusFits(s)
  /\ "exited" \notin Races => TurnFits(s)
  /\ Guarded => WriterFits(s)

(* What holds of a slot as long as it is registered: the close of its child
   took it out of "alive", and a revive it waits for and a teardown do not
   meet, except on the teardown's way out. *)
RowFits(s) ==
  /\ "exited" \notin Races \/ (Guarded /\ s.writer # "no") =>
       (s.child = "closed" => s.status # "alive")
  /\ Guarded /\ s.writer # "no" /\ s.destroyer # "no" =>
       s.writer # "failed" /\ (s.phase = "heard" \/ s.destroyer = "ready")

(* Something still waits to go on with this slot. *)
Pending(s) == s.writer # "no" \/ s.ender # "no" \/ s.destroyer # "no"

(* Its id is its own as long as something waits for it or its child runs. *)
OwnsId(o) ==
  /\ Pending(slot[o]) => /\ alias[slot[o].sid] = None
                         /\ reg[slot[o].sid] \in {o, None}
  /\ slot[o].child = "running" => reg[slot[o].sid] = o

(* The inductive invariant of the slots; its parts name the overlaps under
   which they hold. *)
SlotsInv ==
  /\ proc = "down" => \A o \in Objs : slot[o] = None
  /\ \A o \in Objs : Live(o) => SlotFits(slot[o])
  /\ \A o \in Objs : Live(o) /\ reg[slot[o].sid] = o => RowFits(slot[o])
  /\ Guarded => \A o \in Objs : Live(o) => OwnsId(o)

(* One step of the life of slot object p: what it keeps. *)
Follows(p, t) ==
  LET s == slot[p]
  IN /\ t \in SlotRec /\ t.sid = s.sid /\ t.cwd = s.cwd
     /\ SlotFits(t) /\ (reg[t.sid] = p => RowFits(t))
     /\ t.status # s.status => /\ s.status \notin {"provisioning", "error"}
                               /\ t.status \notin {"provisioning", "error"}
     /\ t.child = "running" => s.child = "running"
     /\ s.destroying => t.destroying
     /\ t.burn => s.burn
     /\ t.writer # "no" => s.writer # "no"
     /\ t.ender # "no" => s.ender # "no" \/ reg[t.sid] = p
     /\ t.destroyer # "no" => s.destroyer # "no" \/ reg[t.sid] = p
     /\ t.burn /\ t.status = "dormant" /\ s.status # "dormant" =>
          t.destroying \/ proc = "draining"

(* A step that changes slots and neither the registry nor the aliases. *)
PlainStep ==
  /\ proc # "down" /\ proc' = proc /\ alias' = alias /\ ws' = ws
  /\ \E f \in [Objs -> SlotRec \cup {None}] :
       /\ Commit(f, reg)
       /\ \A p \in Objs : f[p] = slot[p] \/ (Live(p) /\ Follows(p, f[p]))
       /\ Save \/ (ckpt' = ckpt /\ \A p \in Objs : Live(p) => f[p].burn = slot[p].burn)

(* The step of one slot. *)
LEMMA OnePlain ==
  ASSUME IInv, NEW o \in Objs, Live(o), NEW s, Update(o, s), Follows(o, s),
         proc # "down", proc' = proc, alias' = alias, ws' = ws,
         Save \/ (ckpt' = ckpt /\ s.burn = slot[o].burn)
  PROVE  PlainStep
<1> DEFINE f == [slot EXCEPT ![o] = s]
<1>1. s \in SlotRec BY DEF Follows
<1>2. f \in [Objs -> SlotRec \cup {None}] BY <1>1 DEF IInv, TypeOK
<1>3. \A p \in Objs : f[p] = (IF p = o THEN s ELSE slot[p]) BY DEF IInv, TypeOK
<1>4. Commit(f, reg) BY DEF Update
<1> HIDE DEF f
<1>5. \A p \in Objs : f[p] = slot[p] \/ (Live(p) /\ Follows(p, f[p])) BY <1>3
<1>6. Save \/ (ckpt' = ckpt /\ \A p \in Objs : Live(p) => f[p].burn = slot[p].burn)
  BY <1>3
<1> QED BY <1>2, <1>4, <1>5, <1>6 DEF PlainStep

(* What the invariants say of a live slot, and of a registered one. *)
LEMMA SlotFacts ==
  ASSUME IInv, SlotsInv, NEW o \in Objs, Live(o)
  PROVE  /\ slot[o] \in SlotRec /\ slot[o] # None
         /\ slot[o].sid \in Ids /\ slot[o].cwd \in Ids
         /\ SlotFits(slot[o])
         /\ reg[slot[o].sid] = o => RowFits(slot[o])
BY LiveFacts DEF SlotsInv, Live

LEMMA RegFacts ==
  ASSUME IInv, SlotsInv, NEW i \in Ids, reg[i] # None
  PROVE  /\ reg[i] \in Objs /\ Live(reg[i]) /\ slot[reg[i]] \in SlotRec
         /\ slot[reg[i]].sid = i /\ slot[reg[i]].cwd \in Ids
         /\ SlotFits(slot[reg[i]]) /\ RowFits(slot[reg[i]])
<1>1. reg[i] \in Objs /\ Live(reg[i]) /\ slot[reg[i]].sid = i
  BY DEF IInv, TypeOK, RegistryConsistent
<1> QED BY <1>1, SlotFacts

LEMMA MessageLivePlain ==
  ASSUME IInv, SlotsInv, NEW i \in Ids, MessageLive(i)
  PROVE  PlainStep
<1> DEFINE o == SlotOf(i)
           s == [slot[o] EXCEPT !.turn = TRUE]
<1>1. /\ o \in Objs /\ Live(o) /\ slot[o] \in SlotRec
      /\ reg[slot[o].sid] = o
      /\ SlotFits(slot[o]) /\ RowFits(slot[o])
  BY SlotOfFacts DEF MessageLive, Writable, SlotsInv
<1>2. slot[o].status = "alive" /\ slot[o].child \notin {"none", "killed", "reaped"}
  BY DEF MessageLive, NeedsRevive
<1>3. Follows(o, s)
  BY <1>1, <1>2 DEF Follows, SlotRec, ChildStates, SlotFits, RowFits, StatusFits, TurnFits, WriterFits
<1>4. Update(o, s) /\ s.burn = slot[o].burn BY <1>1 DEF MessageLive, SlotRec
<1>5. /\ proc # "down" /\ proc' = proc /\ alias' = alias /\ ws' = ws
      /\ Save \/ ckpt' = ckpt
  BY DEF MessageLive, Writable, Up
<1> HIDE DEF o, s
<1> QED BY <1>1, <1>3, <1>4, <1>5, OnePlain

LEMMA WriteDonePlain ==
  ASSUME IInv, SlotsInv, NEW o \in Objs, WriteDone(o)
  PROVE  PlainStep
<1> DEFINE s == [slot[o] EXCEPT !.writer =
                    IF slot[o].phase = "heard" THEN "no"
                    ELSE IF slot[o].child # "running" THEN "failed"
                    ELSE "watching"]
<1>1. /\ Live(o) /\ slot[o] \in SlotRec /\ SlotFits(slot[o])
      /\ (reg[slot[o].sid] = o => RowFits(slot[o]))
  BY LiveFacts DEF WriteDone, SlotsInv
<1>2. slot[o].writer = "writing" /\ slot[o].destroyer # "ready"
  BY <1>1 DEF WriteDone, Runs, Quiet, Ready
<1>3. s \in SlotRec /\ s.sid = slot[o].sid /\ s.cwd = slot[o].cwd
  BY <1>1 DEF SlotRec, WriterStates
<1>4. Follows(o, s)
  BY <1>1, <1>2, <1>3
     DEF Follows, SlotRec, SlotFits, RowFits, StatusFits, TurnFits, WriterFits
<1>5. Update(o, s) /\ s.burn = slot[o].burn BY <1>1 DEF WriteDone, SlotRec
<1>6. /\ proc # "down" /\ proc' = proc /\ alias' = alias /\ ws' = ws
      /\ Save \/ ckpt' = ckpt
  BY DEF WriteDone, Up, Runs
<1> HIDE DEF s
<1> QED BY <1>1, <1>4, <1>5, <1>6, OnePlain

LEMMA WriteFailsPlain ==
  ASSUME IInv, SlotsInv, NEW o \in Objs, WriteFails(o)
  PROVE  PlainStep
<1> DEFINE s == [slot[o] EXCEPT !.writer = "no"]
<1>1. /\ Live(o) /\ slot[o] \in SlotRec /\ SlotFits(slot[o])
      /\ (reg[slot[o].sid] = o => RowFits(slot[o]))
  BY LiveFacts DEF WriteFails, SlotsInv
<1>2. s \in SlotRec /\ s.sid = slot[o].sid /\ s.cwd = slot[o].cwd
  BY <1>1 DEF SlotRec, WriterStates
<1>3. Follows(o, s)
  BY <1>1, <1>2
     DEF Follows, SlotRec, SlotFits, RowFits, StatusFits, TurnFits, WriterFits
<1>4. Update(o, s) /\ s.burn = slot[o].burn BY <1>1 DEF WriteFails, SlotRec
<1>5. /\ proc # "down" /\ proc' = proc /\ alias' = alias /\ ws' = ws
      /\ Save \/ ckpt' = ckpt
  BY DEF WriteFails, Up, Runs
<1> HIDE DEF s
<1> QED BY <1>1, <1>3, <1>4, <1>5, OnePlain

LEMMA ResumeTimesOutPlain ==
  ASSUME IInv, SlotsInv, NEW o \in Objs, ResumeTimesOut(o)
  PROVE  PlainStep
<1> DEFINE s == [slot[o] EXCEPT !.writer = "no"]
<1>1. /\ Live(o) /\ slot[o] \in SlotRec /\ SlotFits(slot[o])
      /\ (reg[slot[o].sid] = o => RowFits(slot[o]))
  BY LiveFacts DEF ResumeTimesOut, SlotsInv
<1>2. s \in SlotRec /\ s.sid = slot[o].sid /\ s.cwd = slot[o].cwd
  BY <1>1 DEF SlotRec, WriterStates
<1>3. Follows(o, s)
  BY <1>1, <1>2
     DEF Follows, SlotRec, SlotFits, RowFits, StatusFits, TurnFits, WriterFits
<1>4. Update(o, s) /\ s.burn = slot[o].burn BY <1>1 DEF ResumeTimesOut, SlotRec
<1>5. /\ proc # "down" /\ proc' = proc /\ alias' = alias /\ ws' = ws
      /\ Save \/ ckpt' = ckpt
  BY DEF ResumeTimesOut, Up, Runs
<1> HIDE DEF s
<1> QED BY <1>1, <1>3, <1>4, <1>5, OnePlain

LEMMA FirstFramePlain ==
  ASSUME IInv, SlotsInv, NEW o \in Objs, FirstFrame(o)
  PROVE  PlainStep
<1> DEFINE s == [slot[o] EXCEPT !.phase = "heard",
                    !.writer = IF @ = "watching" THEN "no" ELSE @]
<1>1. /\ Live(o) /\ slot[o] \in SlotRec /\ SlotFits(slot[o])
      /\ (reg[slot[o].sid] = o => RowFits(slot[o]))
  BY LiveFacts DEF FirstFrame, SlotsInv
<1>2. slot[o].writer # "failed"
  BY <1>1 DEF FirstFrame, Runs, Quiet, Ready
<1>3. s \in SlotRec /\ s.sid = slot[o].sid /\ s.cwd = slot[o].cwd
  BY <1>1 DEF SlotRec, WriterStates, Phases
<1>4. Follows(o, s)
  BY <1>1, <1>2, <1>3
     DEF Follows, SlotRec, SlotFits, RowFits, StatusFits, TurnFits, WriterFits
<1>5. Update(o, s) /\ s.burn = slot[o].burn BY <1>1 DEF FirstFrame, SlotRec
<1>6. /\ proc # "down" /\ proc' = proc /\ alias' = alias /\ ws' = ws
      /\ Save \/ ckpt' = ckpt
  BY DEF FirstFrame, Up, Runs
<1> HIDE DEF s
<1> QED BY <1>1, <1>4, <1>5, <1>6, OnePlain

LEMMA ResultFramePlain ==
  ASSUME IInv, SlotsInv, NEW o \in Objs, ResultFrame(o)
  PROVE  PlainStep
<1> DEFINE s == [slot[o] EXCEPT !.turn = FALSE]
<1>1. /\ Live(o) /\ slot[o] \in SlotRec /\ SlotFits(slot[o])
      /\ (reg[slot[o].sid] = o => RowFits(slot[o]))
  BY LiveFacts DEF ResultFrame, SlotsInv
<1>2. slot[o].phase = "heard"
  BY <1>1 DEF ResultFrame
<1>3. s \in SlotRec /\ s.sid = slot[o].sid /\ s.cwd = slot[o].cwd
  BY <1>1 DEF SlotRec
<1>4. Follows(o, s)
  BY <1>1, <1>2, <1>3
     DEF Follows, SlotRec, SlotFits, RowFits, StatusFits, TurnFits, WriterFits
<1>5. Update(o, s) /\ s.burn = slot[o].burn BY <1>1 DEF ResultFrame, SlotRec
<1>6. /\ proc # "down" /\ proc' = proc /\ alias' = alias /\ ws' = ws
      /\ Save \/ ckpt' = ckpt
  BY DEF ResultFrame, Up, Runs
<1> HIDE DEF s
<1> QED BY <1>1, <1>4, <1>5, <1>6, OnePlain

LEMMA MarkSessionActivePlain ==
  ASSUME IInv, SlotsInv, NEW i \in Ids, MarkSessionActive(i)
  PROVE  PlainStep
<1> DEFINE o == SlotOf(i)
           s == [slot[o] EXCEPT !.status = "alive",
                    !.child = IF @ = "killed" THEN @ ELSE "none"]
<1>1. /\ o \in Objs /\ Live(o) /\ slot[o] \in SlotRec /\ reg[slot[o].sid] = o
      /\ SlotFits(slot[o]) /\ RowFits(slot[o])
  BY SlotOfFacts DEF MarkSessionActive, SlotsInv
<1>2. ~slot[o].destroying /\ slot[o].status \in {"dormant", "ended"}
  BY <1>1 DEF MarkSessionActive
<1>3. s \in SlotRec /\ s.sid = slot[o].sid /\ s.cwd = slot[o].cwd
  BY <1>1 DEF SlotRec, Statuses, ChildStates
<1>4. Follows(o, s)
  BY <1>1, <1>2, <1>3
     DEF Follows, SlotRec, SlotFits, RowFits, StatusFits, TurnFits, WriterFits
<1>5. Update(o, s) /\ s.burn = slot[o].burn BY <1>1 DEF MarkSessionActive, SlotRec
<1>6. /\ proc # "down" /\ proc' = proc /\ alias' = alias /\ ws' = ws
      /\ Save \/ ckpt' = ckpt
  BY DEF MarkSessionActive, Up, Runs
<1> HIDE DEF o, s
<1> QED BY <1>1, <1>4, <1>5, <1>6, OnePlain

LEMMA InterruptSessionPlain ==
  ASSUME IInv, SlotsInv, NEW i \in Ids, InterruptSession(i)
  PROVE  PlainStep
<1> DEFINE o == SlotOf(i)
           s == StopChild(slot[o])
<1>1. /\ o \in Objs /\ Live(o) /\ slot[o] \in SlotRec /\ reg[slot[o].sid] = o
      /\ SlotFits(slot[o]) /\ RowFits(slot[o])
  BY SlotOfFacts DEF InterruptSession, SlotsInv
<1>2. /\ ~slot[o].destroying /\ Stoppable(slot[o])
      /\ HasUnkilledChild(slot[o])
  BY <1>1 DEF InterruptSession
<1>3. s \in SlotRec /\ s.sid = slot[o].sid /\ s.cwd = slot[o].cwd
  BY <1>1, StopChildType, KilledType DEF SlotRec
<1>4. Follows(o, s)
  BY <1>1, <1>2, <1>3
     DEF Follows, SlotRec, SlotFits, RowFits, StatusFits, TurnFits, WriterFits,
         StopChild, Killed, Stoppable, HasUnkilledChild, Guarded
<1>5. Update(o, s) /\ s.burn = slot[o].burn BY <1>1 DEF InterruptSession, SlotRec, StopChild, Killed
<1>6. /\ proc # "down" /\ proc' = proc /\ alias' = alias /\ ws' = ws
      /\ Save \/ ckpt' = ckpt
  BY DEF InterruptSession, Up, Runs
<1> HIDE DEF o, s
<1> QED BY <1>1, <1>4, <1>5, <1>6, OnePlain

LEMMA SetSessionModelPlain ==
  ASSUME IInv, SlotsInv, NEW i \in Ids, SetSessionModel(i)
  PROVE  PlainStep
<1> DEFINE o == SlotOf(i)
           s == IF HasUnkilledChild(slot[o]) THEN StopChild(slot[o])
                ELSE [slot[o] EXCEPT !.turn = FALSE]
<1>1. /\ o \in Objs /\ Live(o) /\ slot[o] \in SlotRec /\ reg[slot[o].sid] = o
      /\ SlotFits(slot[o]) /\ RowFits(slot[o])
  BY SlotOfFacts DEF SetSessionModel, SlotsInv
<1>2. Stoppable(slot[o])
  BY <1>1 DEF SetSessionModel
<1>3. s \in SlotRec /\ s.sid = slot[o].sid /\ s.cwd = slot[o].cwd
  BY <1>1, StopChildType DEF SlotRec
<1>4. Follows(o, s)
  BY <1>1, <1>2, <1>3
     DEF Follows, SlotRec, SlotFits, RowFits, StatusFits, TurnFits, WriterFits,
         StopChild, Killed, Stoppable, HasUnkilledChild, Guarded
<1>5. Update(o, s) /\ s.burn = slot[o].burn BY <1>1 DEF SetSessionModel, SlotRec, StopChild, Killed
<1>6. /\ proc # "down" /\ proc' = proc /\ alias' = alias /\ ws' = ws
      /\ Save \/ ckpt' = ckpt
  BY DEF SetSessionModel, Up, Runs
<1> HIDE DEF o, s
<1> QED BY <1>1, <1>4, <1>5, <1>6, OnePlain

(* endSession on a registered slot is one step of its life. *)
LEMMA DestroyFollows ==
  ASSUME NEW p \in Objs, slot[p] \in SlotRec, SlotFits(slot[p]), RowFits(slot[p]),
         reg[slot[p].sid] = p, Tearable(slot[p])
  PROVE  Follows(p, BeginDestroy(slot[p]))
<1> DEFINE s == slot[p]
           b == BeginDestroy(s)
<1>1. b \in SlotRec /\ b.sid = s.sid /\ b.cwd = s.cwd /\ b.burn = s.burn
  BY BeginDestroyType
<1>2. CASE s.destroying
  <2>1. b = s BY <1>2 DEF BeginDestroy
  <2> QED BY <1>1, <2>1 DEF Follows
<1>3. CASE ~s.destroying
  <2>1. /\ b.status = s.status /\ b.child = s.child /\ b.phase = s.phase /\ b.turn = s.turn
        /\ b.suppress = s.suppress /\ b.writer = s.writer /\ b.ender = s.ender
        /\ b.destroying /\ b.destroyer = EndBegins(s)
    BY <1>3 DEF BeginDestroy, SlotRec
  <2>2. EndBegins(s) = "ready" => s.child # "running"
    BY DEF EndBegins, HasUnkilledChild
  <2>3. Guarded => s.writer = "no" BY DEF Tearable, Guarded
  <2> HIDE DEF b
  <2>4. SlotFits(b)
    <3>1. StatusFits(b) BY <1>1, <2>1, <2>2 DEF SlotFits, StatusFits
    <3>2. "exited" \notin Races => TurnFits(b) BY <2>1 DEF SlotFits, TurnFits
    <3>3. Guarded => WriterFits(b) BY <2>1 DEF SlotFits, WriterFits
    <3> QED BY <3>1, <3>2, <3>3 DEF SlotFits
  <2>5. RowFits(b) BY <2>1, <2>3 DEF RowFits
  <2>6. /\ b.destroyer # "no" => s.destroyer # "no" \/ reg[b.sid] = p
        /\ b.ender # "no" => s.ender # "no" \/ reg[b.sid] = p
    BY <1>1
  <2>7. Follows(p, b) BY <1>1, <2>1, <2>4, <2>5, <2>6 DEF Follows
  <2> QED BY <2>7 DEF b
<1> QED BY <1>2, <1>3

LEMMA DestroySessionPlain ==
  ASSUME IInv, SlotsInv, NEW i \in Ids, DestroySession(i)
  PROVE  PlainStep
<1> DEFINE o == SlotOf(i)
           s == BeginDestroy(slot[o])
<1>1. /\ o \in Objs /\ Live(o) /\ slot[o] \in SlotRec /\ reg[slot[o].sid] = o
      /\ SlotFits(slot[o]) /\ RowFits(slot[o])
  BY SlotOfFacts DEF DestroySession, SlotsInv
<1>2. Tearable(slot[o])
  BY <1>1 DEF DestroySession
<1>3. s \in SlotRec /\ s.sid = slot[o].sid /\ s.cwd = slot[o].cwd
  BY <1>1, BeginDestroyType DEF SlotRec
<1>4. Follows(o, s) BY <1>1, <1>2, DestroyFollows
<1>5. Update(o, s) /\ s.burn = slot[o].burn BY <1>1 DEF DestroySession, SlotRec, BeginDestroy
<1>6. /\ proc # "down" /\ proc' = proc /\ alias' = alias /\ ws' = ws
      /\ Save \/ ckpt' = ckpt
  BY DEF DestroySession, Up, Runs
<1> HIDE DEF o, s
<1> QED BY <1>1, <1>4, <1>5, <1>6, OnePlain

LEMMA EndSessionPlain ==
  ASSUME IInv, SlotsInv, NEW i \in Ids, EndSession(i)
  PROVE  PlainStep
<1> DEFINE o == SlotOf(i)
           s == [slot[o] EXCEPT !.ender = EndBegins(slot[o])]
<1>1. /\ o \in Objs /\ Live(o) /\ slot[o] \in SlotRec /\ reg[slot[o].sid] = o
      /\ SlotFits(slot[o]) /\ RowFits(slot[o])
  BY SlotOfFacts DEF EndSession, SlotsInv
<1>2. Tearable(slot[o])
  BY <1>1 DEF EndSession
<1>3. s \in SlotRec /\ s.sid = slot[o].sid /\ s.cwd = slot[o].cwd
  BY <1>1 DEF SlotRec, EndBegins, WaitStates
<1>4. Follows(o, s)
  BY <1>1, <1>2, <1>3
     DEF Follows, SlotRec, SlotFits, RowFits, StatusFits, TurnFits, WriterFits,
         EndBegins, HasUnkilledChild, Tearable, Guarded
<1>5. Update(o, s) /\ s.burn = slot[o].burn BY <1>1 DEF EndSession, SlotRec
<1>6. /\ proc # "down" /\ proc' = proc /\ alias' = alias /\ ws' = ws
      /\ Save \/ ckpt' = ckpt
  BY DEF EndSession, Up, Runs
<1> HIDE DEF o, s
<1> QED BY <1>1, <1>4, <1>5, <1>6, OnePlain

LEMMA ChildExitsPlain ==
  ASSUME IInv, SlotsInv, NEW o \in Objs, ChildExits(o)
  PROVE  PlainStep
<1> DEFINE s == [slot[o] EXCEPT !.child = "exited"]
<1>1. /\ Live(o) /\ slot[o] \in SlotRec /\ SlotFits(slot[o])
      /\ (reg[slot[o].sid] = o => RowFits(slot[o]))
  BY LiveFacts DEF ChildExits, SlotsInv
<1>2. slot[o].child = "running"
  BY <1>1 DEF ChildExits
<1>3. s \in SlotRec /\ s.sid = slot[o].sid /\ s.cwd = slot[o].cwd
  BY <1>1 DEF SlotRec, ChildStates
<1>4. Follows(o, s)
  BY <1>1, <1>2, <1>3
     DEF Follows, SlotRec, SlotFits, RowFits, StatusFits, TurnFits, WriterFits
<1>5. Update(o, s) /\ s.burn = slot[o].burn BY <1>1 DEF ChildExits, SlotRec
<1>6. /\ proc # "down" /\ proc' = proc /\ alias' = alias /\ ws' = ws
      /\ Save \/ ckpt' = ckpt
  BY DEF ChildExits, Up, Runs
<1> HIDE DEF s
<1> QED BY <1>1, <1>4, <1>5, <1>6, OnePlain

LEMMA DisarmBurnPlain ==
  ASSUME IInv, SlotsInv, NEW i \in Ids, DisarmBurn(i)
  PROVE  PlainStep
<1> DEFINE o == SlotOf(i)
           s == [slot[o] EXCEPT !.burn = FALSE]
<1>1. /\ o \in Objs /\ Live(o) /\ slot[o] \in SlotRec /\ reg[slot[o].sid] = o
      /\ SlotFits(slot[o]) /\ RowFits(slot[o])
  BY SlotOfFacts DEF DisarmBurn, SlotsInv
<1>2. s \in SlotRec /\ s.sid = slot[o].sid /\ s.cwd = slot[o].cwd
  BY <1>1 DEF SlotRec
<1>3. Follows(o, s)
  BY <1>1, <1>2
     DEF Follows, SlotRec, SlotFits, RowFits, StatusFits, TurnFits, WriterFits
<1>4. Update(o, s) /\ Save /\ proc # "down" /\ proc' = proc /\ alias' = alias
      /\ ws' = ws
  BY DEF DisarmBurn, Up
<1> HIDE DEF o, s
<1> QED BY <1>1, <1>3, <1>4, OnePlain

LEMMA DrainTimerPlain ==
  ASSUME IInv, SlotsInv, NEW o \in Objs, DrainTimer(o)
  PROVE  PlainStep
<1> DEFINE s == Killed(slot[o])
<1>1. Live(o) BY ConstantsAssumption DEF DrainTimer, Registered, IInv, RegistryConsistent
<1>2. /\ slot[o] \in SlotRec /\ SlotFits(slot[o])
      /\ reg[slot[o].sid] = o => RowFits(slot[o])
  BY <1>1, SlotFacts
<1>3. s \in SlotRec /\ s.sid = slot[o].sid /\ s.cwd = slot[o].cwd /\ s.burn = slot[o].burn
  BY <1>2, KilledType
<1>4. Follows(o, s)
  BY <1>2, <1>3 DEF Follows, SlotRec, SlotFits, RowFits, StatusFits, TurnFits,
                    WriterFits, Killed
<1>5. /\ Update(o, s) /\ ckpt' = ckpt /\ proc # "down" /\ proc' = proc
      /\ alias' = alias /\ ws' = ws
  BY DEF DrainTimer
<1> HIDE DEF s
<1> QED BY <1>1, <1>3, <1>4, <1>5, OnePlain

LEMMA EndTimerPlain ==
  ASSUME IInv, SlotsInv, NEW o \in Objs, EndTimer(o)
  PROVE  PlainStep
<1> DEFINE e == [Killed(slot[o]) EXCEPT !.ender = Over(@)]
           d == [Killed(slot[o]) EXCEPT !.destroyer = Over(@)]
<1>1. Live(o) BY DEF EndTimer
<1>2. /\ slot[o] \in SlotRec /\ SlotFits(slot[o])
      /\ reg[slot[o].sid] = o => RowFits(slot[o])
  BY <1>1, SlotFacts
<1>3. /\ Killed(slot[o]) \in SlotRec /\ Killed(slot[o]).sid = slot[o].sid
      /\ Killed(slot[o]).cwd = slot[o].cwd /\ Killed(slot[o]).burn = slot[o].burn
  BY <1>2, KilledType
<1>4. /\ proc # "down" /\ proc' = proc /\ alias' = alias /\ ws' = ws
      /\ ckpt' = ckpt
  BY DEF EndTimer, Runs
<1>5. CASE slot[o].ender = "wait" /\ Update(o, e)
  <2>1. e \in SlotRec /\ e.sid = slot[o].sid /\ e.cwd = slot[o].cwd /\ e.burn = slot[o].burn
    BY <1>3 DEF SlotRec, Over, WaitStates
  <2>2. Follows(o, e)
    BY <1>2, <1>5, <2>1 DEF Follows, SlotRec, SlotFits, RowFits, StatusFits, TurnFits,
                      WriterFits, Killed, Over
  <2> HIDE DEF e
  <2> QED BY <1>1, <1>4, <1>5, <2>1, <2>2, OnePlain
<1>6. CASE slot[o].destroyer = "wait" /\ Update(o, d)
  <2>1. d \in SlotRec /\ d.sid = slot[o].sid /\ d.cwd = slot[o].cwd /\ d.burn = slot[o].burn
    BY <1>3 DEF SlotRec, Over, WaitStates
  <2>2. Follows(o, d)
    BY <1>2, <1>6, <2>1 DEF Follows, SlotRec, SlotFits, RowFits, StatusFits, TurnFits,
                      WriterFits, Killed, Over
  <2> HIDE DEF d
  <2> QED BY <1>1, <1>4, <1>6, <2>1, <2>2, OnePlain
<1> QED BY <1>5, <1>6 DEF EndTimer

LEMMA SweepIdlePlain ==
  ASSUME IInv, SlotsInv, NEW i \in Ids, SweepIdle(i)
  PROVE  PlainStep
<1> DEFINE o == reg[i]
           s == slot[o]
           e == [s EXCEPT !.status = "ended"]
           t == BeginDestroy(e)
           k == [Killed(s) EXCEPT !.reap = TRUE]
           d == [s EXCEPT !.status = "dormant"]
<1>1. /\ o \in Objs /\ Live(o) /\ s \in SlotRec /\ s.sid = i
      /\ SlotFits(s) /\ RowFits(s)
  BY RegFacts DEF SweepIdle
<1>2. /\ s.status = "alive" /\ ~s.turn /\ s.writer # "failed"
      /\ proc # "down" /\ proc' = proc /\ alias' = alias /\ ws' = ws
  BY <1>1 DEF SweepIdle, Runs, Quiet, Ready
<1>3. CASE s.burn /\ Update(o, t) /\ ckpt' = ckpt
  <2>1. e \in SlotRec /\ e.sid = s.sid /\ e.cwd = s.cwd /\ e.burn = s.burn
    BY <1>1 DEF SlotRec, Statuses
  <2>2. t \in SlotRec /\ t.sid = s.sid /\ t.cwd = s.cwd /\ t.burn = s.burn
    BY <2>1, BeginDestroyType
  <2>3. Follows(o, t)
    <3>1. /\ t.status = "ended" /\ t.turn = s.turn /\ t.writer = s.writer
          /\ t.ender = s.ender /\ t.phase = s.phase /\ t.suppress = s.suppress
          /\ t.child = s.child /\ t.destroying
          /\ t.destroyer = (IF s.destroying THEN s.destroyer ELSE EndBegins(e))
      BY <1>1 DEF SlotRec, Statuses, BeginDestroy
    <3>2. EndBegins(e) = EndBegins(s) BY <1>1 DEF EndBegins, HasUnkilledChild, SlotRec
    <3>3. EndBegins(s) = "ready" => s.child # "running"
      BY DEF EndBegins, HasUnkilledChild
    <3> HIDE DEF o, s, t, e
    <3>4. Guarded /\ s.writer # "no" /\ t.destroyer # "no" =>
            s.writer # "failed" /\ (s.phase = "heard" \/ t.destroyer = "ready")
      <4>1. CASE s.destroying BY <1>1, <1>2, <3>1, <4>1 DEF RowFits
      <4>2. CASE ~s.destroying
        <5>1. t.destroyer = EndBegins(s) BY <3>1, <3>2, <4>2
        <5>2. Guarded /\ s.writer # "no" => s.child # "closed" BY <1>1, <1>2 DEF RowFits
        <5>3. Guarded /\ s.writer # "no" /\ s.child \in {"running", "exited"} =>
                s.phase = "heard"
          BY <1>1, <1>2 DEF SlotFits, WriterFits
        <5> QED BY <1>2, <5>1, <5>2, <5>3 DEF EndBegins, HasUnkilledChild
      <4> QED BY <4>1, <4>2
    <3>5. SlotFits(t)
      BY <1>1, <1>2, <3>1, <3>2, <3>3 DEF SlotFits, RowFits, StatusFits, TurnFits, WriterFits
    <3>6. RowFits(t) BY <1>1, <1>2, <3>1, <3>4 DEF RowFits
    <3> QED BY <1>1, <1>2, <2>2, <3>1, <3>5, <3>6 DEF Follows, s, o
  <2> HIDE DEF o, s, t
  <2> QED BY <1>1, <1>2, <1>3, <2>2, <2>3, OnePlain DEF s
<1>4. CASE ~s.burn /\ Update(o, k) /\ ckpt' = ckpt
  <2>1. /\ Killed(s) \in SlotRec /\ Killed(s).sid = s.sid
        /\ Killed(s).cwd = s.cwd /\ Killed(s).burn = s.burn
    BY <1>1, KilledType
  <2>2. k \in SlotRec /\ k.sid = s.sid /\ k.cwd = s.cwd /\ k.burn = s.burn
    BY <2>1 DEF SlotRec
  <2>3. Follows(o, k)
    <3>1. /\ k.status = s.status /\ k.turn = s.turn /\ k.writer = s.writer
          /\ k.ender = s.ender /\ k.destroyer = s.destroyer
          /\ k.destroying = s.destroying /\ k.phase = s.phase
          /\ k.suppress = s.suppress
          /\ k.child = (IF s.child = "running" THEN "killed" ELSE s.child)
      BY <1>1 DEF SlotRec, Killed
    <3> HIDE DEF o, s, k
    <3> QED BY <1>1, <1>2, <2>2, <3>1 DEF Follows, SlotFits, RowFits, StatusFits,
           TurnFits, WriterFits, s
  <2> HIDE DEF o, s, k
  <2> QED BY <1>1, <1>2, <1>4, <2>2, <2>3, OnePlain DEF s
<1>5. CASE ~s.burn /\ ~HasUnkilledChild(s) /\ Update(o, d) /\ Save
  <2>1. d \in SlotRec /\ d.sid = s.sid /\ d.cwd = s.cwd /\ d.burn = s.burn
    BY <1>1 DEF SlotRec, Statuses
  <2>2. Follows(o, d)
    BY <1>1, <1>2, <1>5, <2>1 DEF Follows, SlotRec, SlotFits, RowFits, StatusFits,
       TurnFits, WriterFits, HasUnkilledChild
  <2> HIDE DEF o, s, d
  <2> QED BY <1>1, <1>2, <1>5, <2>2, OnePlain DEF s
<1> QED BY <1>3, <1>4, <1>5 DEF SweepIdle

(* What a close makes of its slot keeps what a slot must satisfy; what more
   its branches set is the status and two flags. *)
LEMMA ClosedFits ==
  ASSUME NEW s \in SlotRec, SlotFits(s), s.child \in {"exited", "killed"}
  PROVE  /\ SlotFits(Closed(s))
         /\ Closed(s).child \in {"closed", "reaped"} /\ ~Closed(s).turn
         /\ s.child = "exited" <=> Closed(s).child = "closed"
         /\ Closed(s).status = s.status /\ Closed(s).destroying = s.destroying
         /\ Closed(s).suppress = s.suppress /\ Closed(s).phase = s.phase
         /\ Closed(s).writer # "no" => s.writer # "no"
         /\ Closed(s).ender # "no" => s.ender # "no"
         /\ Closed(s).destroyer # "no" => s.destroyer # "no"
         /\ Closed(s).writer = "failed" => s.writer \in {"watching", "failed"}
         /\ s.destroyer = "ready" => Closed(s).destroyer = "ready"
<1> DEFINE c == Closed(s)
<1>1. /\ c.child = IF s.child = "killed" THEN "reaped" ELSE "closed"
      /\ c.turn = FALSE /\ c.status = s.status /\ c.destroying = s.destroying
      /\ c.suppress = s.suppress /\ c.phase = s.phase /\ c.sid = s.sid
      /\ c.cwd = s.cwd
      /\ c.writer = IF s.writer # "watching" THEN s.writer
                    ELSE IF s.phase = "heard" THEN "no" ELSE "failed"
      /\ c.ender = Over(s.ender) /\ c.destroyer = Over(s.destroyer)
  BY DEF Closed, SlotRec
<1> HIDE DEF c
<1>2. SlotFits(c)
  BY <1>1 DEF SlotRec, SlotFits, StatusFits, TurnFits, WriterFits, Over
<1> QED BY <1>1, <1>2 DEF c, Over

LEMMA ChildClosesPlain ==
  ASSUME IInv, SlotsInv, NEW o \in Objs, NEW clean \in BOOLEAN, ChildCloses(o, clean)
  PROVE  PlainStep
<1> DEFINE s == Closed(slot[o])
           dormant == slot[o].reap \/ clean
           burns == /\ dormant /\ s.burn /\ ~s.destroying /\ proc # "draining"
                    /\ ~s.suppress
           calm == [s EXCEPT !.suppress = FALSE]
           rest == [s EXCEPT !.reap = FALSE,
                             !.status = IF dormant THEN "dormant" ELSE "ended"]
           ended == [s EXCEPT !.reap = FALSE, !.status = "ended"]
           d == reg[s.sid]
<1>1. /\ Live(o) /\ slot[o] \in SlotRec /\ SlotFits(slot[o])
      /\ reg[slot[o].sid] = o => RowFits(slot[o])
      /\ slot[o].child \in {"exited", "killed"}
  BY SlotFacts DEF ChildCloses
<1>2. /\ slot[o].writer # "failed" /\ slot[o].destroyer # "ready"
      /\ burns => /\ Tearable(s)
                  /\ d # None => Tearable(slot[d])
      /\ proc # "down" /\ proc' = proc /\ alias' = alias /\ ws' = ws
  BY <1>1 DEF ChildCloses, Runs, Quiet, Ready
<1>3. /\ s \in SlotRec /\ s.sid = slot[o].sid /\ s.cwd = slot[o].cwd
      /\ s.burn = slot[o].burn /\ s.sid \in Ids
  BY <1>1, ClosedType DEF SlotRec
<1>4. /\ SlotFits(s) /\ s.child \in {"closed", "reaped"} /\ ~s.turn
      /\ slot[o].child = "exited" <=> s.child = "closed"
      /\ s.status = slot[o].status /\ s.destroying = slot[o].destroying
      /\ s.suppress = slot[o].suppress /\ s.phase = slot[o].phase
      /\ s.writer # "no" => slot[o].writer # "no"
      /\ s.ender # "no" => slot[o].ender # "no"
      /\ s.destroyer # "no" => slot[o].destroyer # "no"
      /\ s.writer = "failed" => slot[o].writer = "watching"
      /\ slot[o].destroyer = "ready" => s.destroyer = "ready"
  BY <1>1, <1>2, ClosedFits
<1>5. slot[o].status \notin {"provisioning", "error"}
  BY <1>1 DEF SlotFits, StatusFits
<1>6. \/ d = None /\ Update(o, s) /\ ckpt' = ckpt
      \/ s.suppress /\ Update(o, calm) /\ Save
      \/ ~burns /\ ~s.suppress /\ Update(o, rest) /\ Save
      \/ /\ d # None /\ burns /\ Save
         /\ Commit(IF d = o THEN [slot EXCEPT ![o] = BeginDestroy(ended)]
                   ELSE [slot EXCEPT ![o] = ended, ![d] = BeginDestroy(@)], reg)
  BY <1>3 DEF ChildCloses
<1> HIDE DEF s
<1>7. CASE d = None /\ Update(o, s) /\ ckpt' = ckpt
  <2>1. Follows(o, s)
    BY <1>1, <1>3, <1>4, <1>7, ConstantsAssumption DEF Follows
  <2> QED BY <1>1, <1>2, <1>3, <1>7, <2>1, OnePlain
<1>8. CASE s.suppress /\ Update(o, calm) /\ Save
  <2>1. calm \in SlotRec /\ calm.sid = slot[o].sid /\ calm.cwd = slot[o].cwd
    BY <1>3 DEF SlotRec
  <2>2. Follows(o, calm)
    BY <1>1, <1>2, <1>3, <1>4, <1>8, <2>1 DEF Follows, SlotRec, SlotFits, RowFits,
       StatusFits, TurnFits, WriterFits
  <2> HIDE DEF calm
  <2> QED BY <1>1, <1>2, <1>8, <2>2, OnePlain
<1>9. CASE ~burns /\ ~s.suppress /\ Update(o, rest) /\ Save
  <2>1. rest \in SlotRec /\ rest.sid = slot[o].sid /\ rest.cwd = slot[o].cwd
    BY <1>3 DEF SlotRec, Statuses
  <2>2. Follows(o, rest)
    BY <1>1, <1>2, <1>3, <1>4, <1>5, <1>9, <2>1 DEF Follows, SlotRec, SlotFits, RowFits,
       StatusFits, TurnFits, WriterFits
  <2> HIDE DEF rest
  <2> QED BY <1>1, <1>2, <1>9, <2>2, OnePlain
<1>10. CASE /\ d # None /\ burns /\ Save
            /\ Commit(IF d = o THEN [slot EXCEPT ![o] = BeginDestroy(ended)]
                      ELSE [slot EXCEPT ![o] = ended, ![d] = BeginDestroy(@)], reg)
  <2> DEFINE e == BeginDestroy(ended)
             b == BeginDestroy(slot[d])
  <2>1. /\ ended \in SlotRec /\ ended.sid = slot[o].sid /\ ended.cwd = slot[o].cwd
        /\ ended.burn = slot[o].burn
    BY <1>3 DEF SlotRec, Statuses
  <2>2. CASE d = o
    <3>1. e \in SlotRec /\ e.sid = slot[o].sid /\ e.cwd = slot[o].cwd
      BY <2>1, BeginDestroyType
    <3>2. Follows(o, e)
      BY <1>1, <1>2, <1>3, <1>4, <1>5, <1>10, <2>2, <3>1 DEF Follows, SlotRec, SlotFits,
         RowFits, StatusFits, TurnFits, WriterFits, BeginDestroy, EndBegins,
         HasUnkilledChild, Tearable, Guarded
    <3>3. Update(o, e) BY <1>10, <2>2 DEF Update
    <3> HIDE DEF e
    <3> QED BY <1>1, <1>2, <1>10, <3>2, <3>3, OnePlain
  <2>3. CASE d # o
    <3>1. /\ d \in Objs /\ Live(d) /\ slot[d] \in SlotRec /\ slot[d].sid = s.sid
          /\ SlotFits(slot[d]) /\ RowFits(slot[d])
      BY <1>3, <1>10, RegFacts
    <3>2. /\ b \in SlotRec /\ b.sid = slot[d].sid /\ b.cwd = slot[d].cwd
          /\ b.burn = slot[d].burn
      BY <3>1, BeginDestroyType
    <3>3. Follows(o, ended)
      BY <1>1, <1>3, <1>4, <1>5, <1>10, <2>1, <2>3 DEF Follows, SlotRec, SlotFits,
         StatusFits, TurnFits, WriterFits
    <3>4. Follows(d, b)
      <4>1. Tearable(slot[d]) /\ reg[slot[d].sid] = d BY <1>2, <1>10, <3>1
      <4> QED BY <3>1, <4>1, DestroyFollows
    <3> DEFINE f == [slot EXCEPT ![o] = ended, ![d] = b]
    <3>5. Commit(f, reg)
      <4>1. [slot EXCEPT ![o] = ended, ![d] = BeginDestroy(@)] = f
        BY <2>3, <3>1 DEF IInv, TypeOK
      <4> QED BY <1>10, <2>3, <4>1
    <3> HIDE DEF ended, b, d
    <3>6. f \in [Objs -> SlotRec \cup {None}] BY <2>1, <3>1, <3>2 DEF IInv, TypeOK
    <3>7. \A p \in Objs : f[p] = (IF p = d THEN b ELSE IF p = o THEN ended ELSE slot[p])
      BY <3>1 DEF IInv, TypeOK
    <3> HIDE DEF f
    <3>8. \A p \in Objs : f[p] = slot[p] \/ (Live(p) /\ Follows(p, f[p]))
      BY <1>1, <3>1, <3>3, <3>4, <3>7
    <3> QED BY <1>2, <1>10, <3>5, <3>6, <3>8 DEF PlainStep
  <2> QED BY <2>2, <2>3
<1> QED BY <1>6, <1>7, <1>8, <1>9, <1>10

-----------------------------------------------------------------------------
(* The slots after a step *)

(* Forgetting what no code reads any more changes nothing the invariants
   say of a slot. *)
LEMMA ForgetKeeps ==
  ASSUME NEW s \in SlotRec
  PROVE  /\ Forget(s) \in SlotRec /\ Forget(s) # None
         /\ Forget(s).sid = s.sid /\ Forget(s).cwd = s.cwd
         /\ Forget(s).burn = s.burn /\ Forget(s).status = s.status
         /\ Forget(s).child = s.child /\ Forget(s).destroying = s.destroying
         /\ Forget(s).writer = s.writer /\ Forget(s).ender = s.ender
         /\ Forget(s).destroyer = s.destroyer
         /\ SlotFits(s) => SlotFits(Forget(s))
         /\ RowFits(s) => RowFits(Forget(s))
<1>1. Forget(s) \in SlotRec BY ForgetType
<1>2. /\ Forget(s).sid = s.sid /\ Forget(s).cwd = s.cwd
      /\ Forget(s).burn = s.burn /\ Forget(s).status = s.status
      /\ Forget(s).child = s.child /\ Forget(s).destroying = s.destroying
      /\ Forget(s).writer = s.writer /\ Forget(s).ender = s.ender
      /\ Forget(s).destroyer = s.destroyer /\ Forget(s).turn = s.turn
      /\ Forget(s) = s \/ (Spent(s) /\ ~Forget(s).suppress)
  BY DEF Forget, SlotRec
<1>3. SlotFits(s) => SlotFits(Forget(s))
  BY <1>1, <1>2 DEF SlotFits, StatusFits, TurnFits, WriterFits, Spent
<1>4. RowFits(s) => RowFits(Forget(s))
  BY <1>1, <1>2 DEF RowFits, Spent
<1> QED BY <1>1, <1>2, <1>3, <1>4, NoneAssumption

(* A slot after a commit: gone, or the committed one up to Forget. *)
LEMMA CommitSlot ==
  ASSUME NEW f \in [Objs -> SlotRec \cup {None}], NEW r, Commit(f, r),
         NEW o \in Objs
  PROVE  /\ slot'[o] # None => /\ f[o] \in SlotRec /\ slot'[o] = Forget(f[o])
                               /\ slot'[o] \in SlotRec
         /\ f[o] # None /\ (\E i \in Ids : r[i] = o) =>
              f[o] \in SlotRec /\ slot'[o] = Forget(f[o]) /\ slot'[o] \in SlotRec
BY ForgetType DEF Commit, Garbage

(* A commit of fitting slots keeps SlotsInv. *)
LEMMA SlotsCommit ==
  ASSUME NEW f \in [Objs -> SlotRec \cup {None}],
         NEW r \in [Ids -> Objs \cup {None}], Commit(f, r), proc' # "down",
         \A o \in Objs : f[o] # None =>
           /\ SlotFits(f[o])
           /\ r[f[o].sid] = o => RowFits(f[o]),
         Guarded => \A o \in Objs : f[o] # None =>
           /\ Pending(f[o]) => alias'[f[o].sid] = None /\ r[f[o].sid] \in {o, None}
           /\ f[o].child = "running" => r[f[o].sid] = o
  PROVE  SlotsInv'
<1>1. reg' = r BY DEF Commit
<1>2. ASSUME NEW o \in Objs, slot'[o] # None
      PROVE  /\ f[o] # None /\ slot'[o] \in SlotRec /\ slot'[o].sid = f[o].sid
             /\ SlotFits(slot'[o])
             /\ reg'[slot'[o].sid] = o => RowFits(slot'[o])
             /\ slot'[o].child = f[o].child
             /\ Pending(slot'[o]) => Pending(f[o])
  <2>1. f[o] \in SlotRec /\ slot'[o] = Forget(f[o]) BY <1>2, CommitSlot
  <2>2. f[o] # None BY <2>1, NoneAssumption
  <2> QED BY <1>1, <2>1, <2>2, ForgetKeeps DEF Pending
<1>3. Guarded => \A o \in Objs : slot'[o] # None =>
        /\ Pending(slot'[o]) => /\ alias'[slot'[o].sid] = None
                                /\ reg'[slot'[o].sid] \in {o, None}
        /\ slot'[o].child = "running" => reg'[slot'[o].sid] = o
  BY <1>1, <1>2
<1> QED BY <1>2, <1>3 DEF SlotsInv, Live, OwnsId

LEMMA PlainSlots ==
  ASSUME IInv, SlotsInv, PlainStep
  PROVE  SlotsInv'
<1>1. PICK f \in [Objs -> SlotRec \cup {None}] :
        /\ Commit(f, reg)
        /\ \A p \in Objs : f[p] = slot[p] \/ (Live(p) /\ Follows(p, f[p]))
  BY DEF PlainStep
<1>2. proc' # "down" /\ alias' = alias BY DEF PlainStep
<1>3. reg \in [Ids -> Objs \cup {None}] BY DEF IInv, TypeOK
<1>4. ASSUME NEW o \in Objs, f[o] # None
      PROVE  /\ Live(o) /\ f[o].sid = slot[o].sid /\ slot[o].sid \in Ids
             /\ SlotFits(f[o]) /\ (reg[f[o].sid] = o => RowFits(f[o]))
             /\ f[o].child = "running" => slot[o].child = "running"
             /\ Pending(f[o]) => Pending(slot[o]) \/ reg[slot[o].sid] = o
  <2>1. Live(o) BY <1>1, <1>4 DEF Live
  <2>2. CASE f[o] = slot[o] BY <2>1, <2>2, SlotFacts
  <2>3. CASE Follows(o, f[o]) BY <2>1, <2>3, SlotFacts DEF Follows, Pending
  <2> QED BY <1>1, <2>1, <2>2, <2>3
<1>5. ASSUME Guarded, NEW o \in Objs, f[o] # None
      PROVE  /\ Pending(f[o]) => alias'[f[o].sid] = None /\ reg[f[o].sid] \in {o, None}
             /\ f[o].child = "running" => reg[f[o].sid] = o
  <2>1. OwnsId(o) BY <1>4, <1>5 DEF SlotsInv
  <2>2. reg[slot[o].sid] = o => alias[slot[o].sid] = None
    BY <1>4, <1>5, ConstantsAssumption DEF IInv, AliasesFlat
  <2> QED BY <1>2, <1>4, <1>5, <2>1, <2>2 DEF OwnsId
<1> QED BY <1>1, <1>2, <1>3, <1>4, <1>5, SlotsCommit

(* Replacing a registered slot object in place. *)
LEMMA SlotsReplace ==
  ASSUME IInv, SlotsInv, NEW i \in Ids, reg[i] # None, NEW s \in SlotRec,
         s.sid = i, SlotFits(s), RowFits(s), Update(reg[i], s),
         alias' = alias, proc' # "down"
  PROVE  SlotsInv'
<1> DEFINE o == reg[i]
           f == [slot EXCEPT ![o] = s]
<1>1. o \in Objs /\ Live(o) /\ slot[o].sid = i BY RegFacts
<1>2. f \in [Objs -> SlotRec \cup {None}] /\ reg \in [Ids -> Objs \cup {None}]
  BY DEF IInv, TypeOK
<1>3. \A p \in Objs : f[p] = (IF p = o THEN s ELSE slot[p]) BY DEF IInv, TypeOK
<1>4. Commit(f, reg) BY DEF Update
<1> HIDE DEF f
<1>5. ASSUME NEW p \in Objs, f[p] # None
      PROVE  SlotFits(f[p]) /\ (reg[f[p].sid] = p => RowFits(f[p]))
  BY <1>3, <1>5, SlotFacts DEF Live
<1>6. ASSUME Guarded, NEW p \in Objs, f[p] # None
      PROVE  /\ Pending(f[p]) => alias'[f[p].sid] = None /\ reg[f[p].sid] \in {p, None}
             /\ f[p].child = "running" => reg[f[p].sid] = p
  <2>1. CASE p = o BY <1>1, <1>3, <2>1, ConstantsAssumption DEF IInv, AliasesFlat
  <2>2. CASE p # o BY <1>3, <1>6, <2>2 DEF SlotsInv, OwnsId, Live
  <2> QED BY <2>1, <2>2
<1> QED BY <1>2, <1>4, <1>5, <1>6, SlotsCommit

(* Taking c out of the registry, when nothing runs behind it. *)
LEMMA SlotsDrop ==
  ASSUME IInv, SlotsInv, NEW c \in Ids, NEW f \in [Objs -> SlotRec \cup {None}],
         Commit(f, [reg EXCEPT ![c] = None]), proc' # "down",
         \A p \in Objs : f[p] = slot[p] \/ (Live(p) /\ Follows(p, f[p])),
         Guarded /\ reg[c] # None => slot[reg[c]].child # "running",
         Guarded => \A p \in Objs : Live(p) /\ f[p] # None /\ Pending(f[p]) =>
           /\ Pending(slot[p]) \/ reg[slot[p].sid] = p
           /\ alias'[slot[p].sid] = None
  PROVE  SlotsInv'
<1> DEFINE r == [reg EXCEPT ![c] = None]
<1>1. r \in [Ids -> Objs \cup {None}] BY DEF IInv, TypeOK
<1>2. \A x \in Ids : r[x] = (IF x = c THEN None ELSE reg[x]) BY DEF IInv, TypeOK
<1>3. ASSUME NEW o \in Objs, f[o] # None
      PROVE  /\ Live(o) /\ f[o].sid = slot[o].sid /\ slot[o].sid \in Ids
             /\ SlotFits(f[o]) /\ (r[f[o].sid] = o => RowFits(f[o]))
             /\ f[o].child = "running" => slot[o].child = "running"
  <2>1. Live(o) BY <1>3 DEF Live
  <2>2. slot[o].sid \in Ids BY <2>1, SlotFacts
  <2>3. f[o].sid = slot[o].sid /\ (r[f[o].sid] = o => reg[f[o].sid] = o)
    BY <1>2, <2>1, <2>2, ConstantsAssumption DEF Follows
  <2>4. CASE f[o] = slot[o] BY <2>1, <2>2, <2>3, <2>4, SlotFacts
  <2>5. CASE Follows(o, f[o]) BY <2>1, <2>2, <2>3, <2>5 DEF Follows
  <2> QED BY <2>1, <2>4, <2>5
<1>4. ASSUME Guarded, NEW o \in Objs, f[o] # None
      PROVE  /\ Pending(f[o]) => alias'[f[o].sid] = None /\ r[f[o].sid] \in {o, None}
             /\ f[o].child = "running" => r[f[o].sid] = o
  BY <1>2, <1>3, <1>4, ConstantsAssumption DEF SlotsInv, OwnsId
<1> HIDE DEF r
<1> QED BY <1>1, <1>3, <1>4, SlotsCommit DEF r

(* Registering the new slot object n, with record s, under x, where c, if
   another id, goes: g are the other slots and f and r what is committed. *)
Registers(c, x, n, s, g, f, r) ==
  /\ c \in Ids /\ x \in Ids /\ n \in Objs /\ ~Live(n)
  /\ s \in SlotRec /\ s.sid = x /\ SlotFits(s) /\ RowFits(s)
  /\ g \in [Objs -> SlotRec \cup {None}]
  /\ f \in [Objs -> SlotRec \cup {None}]
  /\ \A p \in Objs : f[p] = (IF p = n THEN s ELSE g[p])
  /\ r \in [Ids -> Objs \cup {None}]
  /\ \A y \in Ids : r[y] = (IF y = x THEN n ELSE IF y = c THEN None ELSE reg[y])
  /\ \A p \in Objs : g[p] = slot[p] \/ (Live(p) /\ Follows(p, g[p]))
  /\ x # c => reg[x] = None

(* The step that does so takes no id from a slot that needs it. *)
RegistersFreely(c, x, g) ==
  /\ proc' # "down" /\ alias'[x] = None
  /\ Guarded /\ reg[c] # None => slot[reg[c]].child # "running"
  /\ Guarded => \A p \in Objs : Live(p) /\ g[p] # None /\ Pending(g[p]) =>
       Pending(slot[p]) /\ alias'[slot[p].sid] = None /\ slot[p].sid # x

LEMMA SlotsAdd ==
  ASSUME IInv, SlotsInv, NEW c, NEW x, NEW n, NEW s, NEW g, NEW f, NEW r,
         Registers(c, x, n, s, g, f, r), RegistersFreely(c, x, g), Commit(f, r)
  PROVE  SlotsInv'
<1> USE DEF Registers, RegistersFreely
<1>1. ASSUME NEW o \in Objs, f[o] # None, o # n
      PROVE  /\ Live(o) /\ f[o] = g[o] /\ f[o].sid = slot[o].sid /\ slot[o].sid \in Ids
             /\ SlotFits(f[o]) /\ (r[f[o].sid] = o => RowFits(f[o]))
             /\ f[o].child = "running" => slot[o].child = "running"
  <2>1. Live(o) /\ f[o] = g[o] BY <1>1 DEF Live
  <2>2. slot[o].sid \in Ids BY <2>1, SlotFacts
  <2>3. f[o].sid = slot[o].sid /\ (r[f[o].sid] = o => reg[f[o].sid] = o)
    BY <1>1, <2>1, <2>2, ConstantsAssumption DEF Follows
  <2>4. CASE f[o] = slot[o] BY <2>1, <2>2, <2>3, <2>4, SlotFacts
  <2>5. CASE Follows(o, f[o]) BY <2>1, <2>2, <2>3, <2>5 DEF Follows
  <2> QED BY <2>1, <2>4, <2>5
<1>2. f[n] = s /\ r[x] = n OBVIOUS
<1>3. ASSUME Guarded, NEW o \in Objs, f[o] # None
      PROVE  /\ Pending(f[o]) => alias'[f[o].sid] = None /\ r[f[o].sid] \in {o, None}
             /\ f[o].child = "running" => r[f[o].sid] = o
  <2>1. CASE o = n BY <1>2, <2>1
  <2>2. CASE o # n
    BY <1>1, <1>3, <2>2, ConstantsAssumption DEF SlotsInv, OwnsId
  <2> QED BY <2>1, <2>2
<1>4. ASSUME NEW o \in Objs, f[o] # None
      PROVE  SlotFits(f[o]) /\ (r[f[o].sid] = o => RowFits(f[o]))
  BY <1>1, <1>2, <1>4
<1> QED BY <1>3, <1>4, SlotsCommit

(* A slot just built fits. *)
LEMMA NewSlotFits ==
  ASSUME NEW i, NEW w, NEW b \in BOOLEAN,
         NEW st, NEW ch,
         \/ st = "alive" /\ ch = "running"
         \/ st = "provisioning" /\ ch = "none" /\ w = i
         \/ st = "dormant" /\ ch = "none"
  PROVE  SlotFits(NewSlot(i, w, st, ch, b)) /\ RowFits(NewSlot(i, w, st, ch, b))
BY DEF SlotFits, RowFits, StatusFits, TurnFits, WriterFits, NewSlot

(* A child just spawned for a message is in its turn. *)
LEMMA SpawnedInTurn ==
  ASSUME NEW i \in Ids, NEW w \in Ids, NEW b \in BOOLEAN
  PROVE  LET t == [NewSlot(i, w, "alive", "running", b) EXCEPT !.turn = TRUE]
         IN t \in SlotRec /\ t.sid = i /\ SlotFits(t) /\ RowFits(t)
<1> DEFINE s == NewSlot(i, w, "alive", "running", b)
           t == [s EXCEPT !.turn = TRUE]
<1>1. /\ s \in SlotRec /\ s.sid = i /\ s.status = "alive" /\ s.child = "running"
      /\ ~s.suppress /\ s.writer = "no" /\ s.ender = "no" /\ s.destroyer = "no"
  BY SpawnedType
<1> HIDE DEF s
<1>2. /\ t \in SlotRec /\ t.sid = i /\ t.status = "alive" /\ t.child = "running"
      /\ t.turn /\ ~t.suppress /\ t.writer = "no" /\ t.ender = "no" /\ t.destroyer = "no"
  BY <1>1 DEF SlotRec
<1> HIDE DEF t
<1>3. SlotFits(t) /\ RowFits(t)
  BY <1>2 DEF SlotFits, RowFits, StatusFits, TurnFits, WriterFits
<1> QED BY <1>2, <1>3 DEF s, t

(* A message wakes a session that nothing runs behind and nothing waits for. *)
LEMMA WakeFree ==
  ASSUME IInv, SlotsInv, NEW i \in Ids, Wakeable(i)
  PROVE  /\ SlotOf(i) \in Objs /\ Live(SlotOf(i)) /\ slot[SlotOf(i)] \in SlotRec
         /\ slot[SlotOf(i)].sid \in Ids /\ slot[SlotOf(i)].cwd \in Ids
         /\ slot[SlotOf(i)].burn \in BOOLEAN
         /\ reg[slot[SlotOf(i)].sid] = SlotOf(i) /\ alias[slot[SlotOf(i)].sid] = None
         /\ slot[SlotOf(i)].child # "running"
         /\ Guarded => ~Pending(slot[SlotOf(i)])
         /\ proc = "up"
<1> DEFINE o == SlotOf(i)
<1>1. /\ o \in Objs /\ Live(o) /\ slot[o] \in SlotRec /\ slot[o].sid \in Ids
      /\ reg[slot[o].sid] = o /\ alias[slot[o].sid] = None
  BY SlotOfFacts DEF Wakeable, Writable
<1>2. SlotFits(slot[o]) BY <1>1, SlotFacts
<1>3. /\ ~slot[o].destroying /\ NeedsRevive(slot[o]) /\ proc = "up"
      /\ slot[o].ender = "no" \/ "end" \in Races
      /\ slot[o].writer = "no" \/ "rewake" \in Races
  BY DEF Wakeable, Writable, Up
<1>4. slot[o].child # "running" BY <1>2, <1>3 DEF SlotFits, StatusFits, NeedsRevive
<1>5. Guarded => ~Pending(slot[o])
  BY <1>2, <1>3 DEF SlotFits, StatusFits, Pending, Guarded
<1> QED BY <1>1, <1>3, <1>4, <1>5 DEF SlotRec

-----------------------------------------------------------------------------
(* The operations that change the registry or build a slot *)

LEMMA NewSessionSlots ==
  ASSUME IInv, SlotsInv, NEW i \in Ids, NEW o \in Objs, NEW s \in SlotRec,
         Unused(i), ~Live(o), s.sid = i, SlotFits(s), RowFits(s),
         Commit([slot EXCEPT ![o] = s], [reg EXCEPT ![i] = o]),
         alias' = alias, proc' # "down"
  PROVE  SlotsInv'
<1>1. reg[i] = None /\ alias[i] = None /\ \A p \in Objs : Live(p) => slot[p].sid # i
  BY DEF Unused
<1> DEFINE f == [slot EXCEPT ![o] = s]
           r == [reg EXCEPT ![i] = o]
<1>2. slot \in [Objs -> SlotRec \cup {None}] /\ f \in [Objs -> SlotRec \cup {None}]
      /\ r \in [Ids -> Objs \cup {None}]
  BY DEF IInv, TypeOK
<1>3. /\ \A p \in Objs : f[p] = (IF p = o THEN s ELSE slot[p])
      /\ \A y \in Ids : r[y] = (IF y = i THEN o ELSE IF y = i THEN None ELSE reg[y])
      /\ Commit(f, r)
  BY DEF IInv, TypeOK
<1>4. Guarded => \A p \in Objs : Live(p) /\ slot[p] # None /\ Pending(slot[p]) =>
        Pending(slot[p]) /\ alias'[slot[p].sid] = None /\ slot[p].sid # i
  BY <1>1 DEF SlotsInv, OwnsId
<1>5. /\ \A p \in Objs : slot[p] = slot[p] \/ (Live(p) /\ Follows(p, slot[p]))
      /\ i # i => reg[i] = None
      /\ alias'[i] = None
      /\ Guarded /\ reg[i] # None => slot[reg[i]].child # "running"
  BY <1>1
<1>6. Registers(i, i, o, s, slot, f, r) BY <1>2, <1>3, <1>5 DEF Registers
<1>7. RegistersFreely(i, i, slot) BY <1>4, <1>5 DEF RegistersFreely
<1> HIDE DEF f, r
<1> QED BY <1>3, <1>6, <1>7, SlotsAdd

LEMMA StartNewConversationSlots ==
  ASSUME IInv, SlotsInv, NEW i \in Ids, NEW b \in BOOLEAN, StartNewConversation(i, b)
  PROVE  SlotsInv'
<1> DEFINE s == NewSlot(i, i, "alive", "running", b)
<1>1. PICK o \in Objs :
        ~Live(o) /\ Commit([slot EXCEPT ![o] = s], [reg EXCEPT ![i] = o])
  BY DEF StartNewConversation
<1>2. s \in SlotRec /\ s.sid = i /\ SlotFits(s) /\ RowFits(s)
  BY NewSlotType, NewSlotFits DEF Statuses, ChildStates
<1>3. Unused(i) /\ alias' = alias /\ proc' # "down"
  BY DEF StartNewConversation, Up
<1> HIDE DEF s
<1> QED BY <1>1, <1>2, <1>3, NewSessionSlots

LEMMA RegisterProvisioningSlots ==
  ASSUME IInv, SlotsInv, NEW i \in Ids, NEW b \in BOOLEAN, RegisterProvisioning(i, b)
  PROVE  SlotsInv'
<1> DEFINE s == NewSlot(i, i, "provisioning", "none", b)
<1>1. PICK o \in Objs :
        ~Live(o) /\ Commit([slot EXCEPT ![o] = s], [reg EXCEPT ![i] = o])
  BY DEF RegisterProvisioning
<1>2. s \in SlotRec /\ s.sid = i /\ SlotFits(s) /\ RowFits(s)
  BY NewSlotType, NewSlotFits DEF Statuses, ChildStates
<1>3. Unused(i) /\ alias' = alias /\ proc' # "down"
  BY DEF RegisterProvisioning, Up
<1> HIDE DEF s
<1> QED BY <1>1, <1>2, <1>3, NewSessionSlots

LEMMA CloneDoneSlots ==
  ASSUME IInv, SlotsInv, NEW i \in Ids, CloneDone(i)
  PROVE  SlotsInv'
<1> DEFINE o == reg[i]
           without == [reg EXCEPT ![i] = None]
           s == NewSlot(i, i, "alive", "running", slot[o].burn)
<1>1. /\ o \in Objs /\ Live(o) /\ slot[o] \in SlotRec /\ slot[o].sid = i
      /\ SlotFits(slot[o])
  BY RegFacts DEF CloneDone
<1>2. /\ reg[i] # None /\ slot[o].status = "provisioning" /\ alias' = alias
      /\ proc' # "down"
  BY DEF CloneDone, Runs
<1>3. CASE Update(o, s)
  <2>1. slot[o].burn \in BOOLEAN BY <1>1 DEF SlotRec
  <2>2. s \in SlotRec /\ s.sid = i /\ SlotFits(s) /\ RowFits(s)
    BY <2>1, NewSlotType, NewSlotFits DEF Statuses, ChildStates
  <2> HIDE DEF s
  <2> QED BY <1>2, <1>3, <2>2, SlotsReplace
<1>4. CASE Commit(slot, without)
  <2>1. slot[reg[i]].child # "running" BY <1>1, <1>2 DEF SlotFits, StatusFits
  <2>2. slot \in [Objs -> SlotRec \cup {None}] BY DEF IInv, TypeOK
  <2>3. Guarded => \A p \in Objs : Live(p) /\ Pending(slot[p]) => alias'[slot[p].sid] = None
    BY <1>2 DEF SlotsInv, OwnsId
  <2> QED BY <1>2, <1>4, <2>1, <2>2, <2>3, SlotsDrop
<1> QED BY <1>3, <1>4 DEF CloneDone

LEMMA CloneFailedSlots ==
  ASSUME IInv, SlotsInv, NEW i \in Ids, CloneFailed(i)
  PROVE  SlotsInv'
<1> DEFINE o == reg[i]
           s == [slot[o] EXCEPT !.status = "error"]
<1>1. /\ o \in Objs /\ Live(o) /\ slot[o] \in SlotRec /\ slot[o].sid = i
      /\ SlotFits(slot[o]) /\ RowFits(slot[o])
  BY RegFacts DEF CloneFailed
<1>2. /\ reg[i] # None /\ slot[o].status = "provisioning" /\ alias' = alias
      /\ proc' # "down" /\ Update(o, s)
  BY DEF CloneFailed, Runs
<1>3. s \in SlotRec /\ s.sid = i BY <1>1 DEF SlotRec, Statuses
<1>4. SlotFits(s) /\ RowFits(s)
  BY <1>1, <1>2 DEF SlotRec, SlotFits, RowFits, StatusFits, TurnFits, WriterFits
<1> HIDE DEF s
<1> QED BY <1>2, <1>3, <1>4, SlotsReplace

LEMMA MessagePrunesSlots ==
  ASSUME IInv, SlotsInv, NEW i \in Ids, MessagePrunes(i)
  PROVE  SlotsInv'
<1> DEFINE o == SlotOf(i)
           c == slot[o].sid
<1>1. Wakeable(i) /\ Commit(slot, [reg EXCEPT ![c] = None]) /\ alias' = DropAliases(c)
      /\ proc' = proc
  BY DEF MessagePrunes
<1>2. c \in Ids /\ reg[c] = o /\ slot[o].child # "running" /\ proc' # "down"
  BY <1>1, WakeFree
<1>3. slot \in [Objs -> SlotRec \cup {None}] BY DEF IInv, TypeOK
<1>4. Guarded => \A p \in Objs : Live(p) /\ Pending(slot[p]) => alias'[slot[p].sid] = None
  BY <1>1, <1>2, DropAliasesType, LiveFacts DEF SlotsInv, OwnsId
<1> HIDE DEF c
<1> QED BY <1>1, <1>2, <1>3, <1>4, SlotsDrop

(* Re-keying leaves the ids alone that something waits to go on under. *)
LEMMA RekeyFree ==
  ASSUME IInv, SlotsInv, Guarded, NEW i \in Ids, Wakeable(i),
         NEW r \in ResumableIds(slot[SlotOf(i)].sid),
         NEW p \in Objs, Live(p), Pending(slot[p])
  PROVE  /\ slot[p].sid # slot[SlotOf(i)].sid /\ slot[p].sid # r
         /\ Rekeyed(slot[SlotOf(i)].sid, r)[slot[p].sid] = None
<1> DEFINE o == SlotOf(i)
           c == slot[o].sid
<1>1. o \in Objs /\ c \in Ids /\ reg[c] = o /\ ~Pending(slot[o])
  BY WakeFree
<1>2. slot[p].sid \in Ids /\ alias[slot[p].sid] = None /\ reg[slot[p].sid] \in {p, None}
  BY SlotFacts DEF SlotsInv, OwnsId
<1>3. slot[p].sid # c BY <1>1, <1>2, ConstantsAssumption
<1>4. r = c \/ alias[r] = c BY DEF ResumableIds, AliasesOf
<1>5. slot[p].sid # r BY <1>1, <1>2, <1>3, <1>4, ConstantsAssumption
<1>6. Rekeyed(c, r)[slot[p].sid] = None
  BY <1>1, <1>2, <1>3, <1>5, ConstantsAssumption DEF Rekeyed
<1> QED BY <1>3, <1>5, <1>6

LEMMA MessageAtCapSlots ==
  ASSUME IInv, SlotsInv, NEW i \in Ids, MessageAtCap(i)
  PROVE  SlotsInv'
<1> DEFINE o == SlotOf(i)
           c == slot[o].sid
<1>1. PICK r \in ResumableIds(c) \ {c} :
        Commit(slot, [reg EXCEPT ![c] = None]) /\ alias' = Rekeyed(c, r)
  BY DEF MessageAtCap
<1>2. Wakeable(i) /\ proc' = proc BY DEF MessageAtCap
<1>3. c \in Ids /\ reg[c] = o /\ slot[o].child # "running" /\ proc' # "down"
  BY <1>2, WakeFree
<1>4. slot \in [Objs -> SlotRec \cup {None}] BY DEF IInv, TypeOK
<1>5. Guarded => \A p \in Objs : Live(p) /\ Pending(slot[p]) => alias'[slot[p].sid] = None
  BY <1>1, <1>2, RekeyFree
<1> HIDE DEF c
<1> QED BY <1>1, <1>3, <1>4, <1>5, SlotsDrop

LEMMA MessageRevivesSlots ==
  ASSUME IInv, SlotsInv, NEW i \in Ids, MessageRevives(i)
  PROVE  SlotsInv'
<1> DEFINE o == SlotOf(i)
           c == slot[o].sid
<1>1. PICK r \in ResumableIds(c), n \in Objs :
        LET resumes == transcript[r]
            fresh   == NewSlot(r, slot[o].cwd, "alive", "running", slot[o].burn)
        IN /\ ~Live(n)
           /\ Commit([slot EXCEPT ![n] =
                        [fresh EXCEPT !.turn = TRUE,
                           !.phase = IF resumes THEN "resuming" ELSE @,
                           !.writer = IF resumes THEN "writing" ELSE @]],
                     [reg EXCEPT ![c] = None, ![r] = n])
           /\ alias' = Rekeyed(c, r)
  BY DEF MessageRevives
<1> DEFINE fresh == NewSlot(r, slot[o].cwd, "alive", "running", slot[o].burn)
           s == [fresh EXCEPT !.turn = TRUE,
                   !.phase = IF transcript[r] THEN "resuming" ELSE @,
                   !.writer = IF transcript[r] THEN "writing" ELSE @]
<1>2. Wakeable(i) /\ proc' = proc BY DEF MessageRevives
<1>3. /\ o \in Objs /\ c \in Ids /\ reg[c] = o /\ alias[c] = None
      /\ slot[o].cwd \in Ids /\ slot[o].burn \in BOOLEAN
      /\ slot[o].child # "running" /\ proc' # "down"
  BY <1>2, WakeFree
<1>4. r \in Ids /\ (r # c => alias[r] = c) BY <1>3 DEF ResumableIds, AliasesOf
<1>5. s \in SlotRec /\ s.sid = r /\ SlotFits(s) /\ RowFits(s)
  <2>1. fresh \in SlotRec /\ fresh.sid = r
    BY <1>3, <1>4, SpawnedType
  <2>2. /\ fresh.status = "alive" /\ fresh.child = "running" /\ ~fresh.suppress
        /\ fresh.writer = "no" /\ fresh.ender = "no" /\ fresh.destroyer = "no"
    BY <1>3, <1>4, SpawnedType
  <2> HIDE DEF fresh
  <2>3. s \in SlotRec /\ s.sid = r
    BY <2>1 DEF SlotRec, Phases, WriterStates
  <2>4. /\ s.status = "alive" /\ s.child = "running" /\ ~s.suppress /\ s.turn
        /\ s.writer \in {"no", "writing"}
        /\ s.ender = "no" /\ s.destroyer = "no"
    BY <2>1, <2>2 DEF SlotRec
  <2> HIDE DEF s
  <2> QED BY <2>3, <2>4 DEF SlotFits, RowFits, StatusFits, TurnFits, WriterFits
<1>6. Commit([slot EXCEPT ![n] = s], [reg EXCEPT ![c] = None, ![r] = n]) /\ ~Live(n)
  BY <1>1
<1>7. r # c => reg[r] = None
  BY <1>3, <1>4, ConstantsAssumption DEF IInv, AliasesFlat
<1>8. alias' = Rekeyed(c, r) /\ alias'[r] = None
  BY <1>1, <1>3, <1>4 DEF Rekeyed
<1>9. Guarded => \A p \in Objs : Live(p) /\ Pending(slot[p]) =>
        alias'[slot[p].sid] = None /\ slot[p].sid # r
  BY <1>2, <1>8, RekeyFree
<1> HIDE DEF s, c
<1> DEFINE f == [slot EXCEPT ![n] = s]
           q == [reg EXCEPT ![c] = None, ![r] = n]
<1>10. /\ slot \in [Objs -> SlotRec \cup {None}] /\ f \in [Objs -> SlotRec \cup {None}]
       /\ q \in [Ids -> Objs \cup {None}] /\ Commit(f, q)
       /\ \A p \in Objs : f[p] = (IF p = n THEN s ELSE slot[p])
       /\ \A y \in Ids : q[y] = (IF y = r THEN n ELSE IF y = c THEN None ELSE reg[y])
  BY <1>4, <1>5, <1>6 DEF IInv, TypeOK
<1> HIDE DEF f, q
<1>11. Registers(c, r, n, s, slot, f, q)
  BY <1>3, <1>4, <1>5, <1>6, <1>7, <1>10 DEF Registers
<1>12. RegistersFreely(c, r, slot) BY <1>3, <1>8, <1>9 DEF RegistersFreely
<1> QED BY <1>10, <1>11, <1>12, SlotsAdd

(* A slot that stops waiting is one step on, and the same row. *)
LEMMA StopsWaiting ==
  ASSUME IInv, SlotsInv, NEW o \in Objs, Live(o),
         NEW s \in {[slot[o] EXCEPT !.ender = "no"], [slot[o] EXCEPT !.destroyer = "no"],
                    [slot[o] EXCEPT !.writer = "no"]}
  PROVE  Follows(o, s) /\ s.burn = slot[o].burn /\ s.status = slot[o].status
<1>1. /\ slot[o] \in SlotRec /\ SlotFits(slot[o])
      /\ reg[slot[o].sid] = o => RowFits(slot[o])
  BY SlotFacts
<1> QED BY <1>1 DEF Follows, SlotRec, WaitStates, WriterStates, SlotFits, RowFits,
           StatusFits, TurnFits, WriterFits

(* Both ends of a teardown drop the id its slot was torn down under. *)
LEMMA TeardownSlots ==
  ASSUME IInv, SlotsInv, NEW o \in Objs, Live(o), NEW s \in SlotRec, Follows(o, s),
         Commit([slot EXCEPT ![o] = s], [reg EXCEPT ![slot[o].sid] = None]),
         slot[o].ender = "ready" \/ slot[o].destroyer = "ready",
         alias' = DropAliases(slot[o].sid), proc' # "down"
  PROVE  SlotsInv'
<1> DEFINE c == slot[o].sid
           f == [slot EXCEPT ![o] = s]
<1>1. slot[o] \in SlotRec /\ c \in Ids /\ SlotFits(slot[o]) BY SlotFacts
<1>2. f \in [Objs -> SlotRec \cup {None}] BY DEF IInv, TypeOK
<1>3. \A p \in Objs : f[p] = (IF p = o THEN s ELSE slot[p]) BY DEF IInv, TypeOK
<1>4. Guarded /\ reg[c] # None => slot[reg[c]].child # "running"
  BY <1>1 DEF SlotsInv, OwnsId, Pending, SlotFits, StatusFits
<1>5. Guarded => \A p \in Objs : Live(p) /\ Pending(slot[p]) => alias'[slot[p].sid] = None
  BY <1>1, DropAliasesType, LiveFacts DEF SlotsInv, OwnsId
<1>6. Guarded => \A p \in Objs : Live(p) /\ f[p] # None /\ Pending(f[p]) =>
        /\ Pending(slot[p]) \/ reg[slot[p].sid] = p
        /\ alias'[slot[p].sid] = None
  <2>1. Pending(s) => Pending(slot[o]) BY DEF Pending
  <2>2. Pending(slot[o]) BY DEF Pending
  <2> HIDE DEF f
  <2> QED BY <1>3, <1>5, <2>2
<1>7. Commit(f, [reg EXCEPT ![c] = None]) OBVIOUS
<1>8. \A p \in Objs : f[p] = slot[p] \/ (Live(p) /\ Follows(p, f[p])) BY <1>3
<1> HIDE DEF f, c
<1> QED BY <1>1, <1>2, <1>4, <1>6, <1>7, <1>8, SlotsDrop

LEMMA EndFinishesSlots ==
  ASSUME IInv, SlotsInv, NEW o \in Objs, EndFinishes(o)
  PROVE  SlotsInv'
<1> DEFINE s == [slot[o] EXCEPT !.ender = "no"]
<1>1. /\ Live(o) /\ slot[o].ender = "ready"
      /\ Commit([slot EXCEPT ![o] = s], [reg EXCEPT ![slot[o].sid] = None])
      /\ alias' = DropAliases(slot[o].sid) /\ proc' # "down"
  BY DEF EndFinishes
<1>2. Follows(o, s) /\ s \in SlotRec BY <1>1, StopsWaiting DEF Follows
<1> HIDE DEF s
<1> QED BY <1>1, <1>2, TeardownSlots

LEMMA DestroyFinishesSlots ==
  ASSUME IInv, SlotsInv, NEW o \in Objs, DestroyFinishes(o)
  PROVE  SlotsInv'
<1> DEFINE s == [slot[o] EXCEPT !.destroyer = "no"]
<1>1. /\ Live(o) /\ slot[o].destroyer = "ready"
      /\ Commit([slot EXCEPT ![o] = s], [reg EXCEPT ![slot[o].sid] = None])
      /\ alias' = DropAliases(slot[o].sid) /\ proc' # "down"
  BY DEF DestroyFinishes
<1>2. Follows(o, s) /\ s \in SlotRec BY <1>1, StopsWaiting DEF Follows
<1> HIDE DEF s
<1> QED BY <1>1, <1>2, TeardownSlots

(* The slot a recovery finds under the id of a failed resume is that very
   slot, and nothing else waits to go on with it. *)
LEMMA FailedOwns ==
  ASSUME IInv, SlotsInv, Guarded, NEW o \in Objs, Live(o), slot[o].writer = "failed",
         reg[slot[o].sid] # None
  PROVE  /\ reg[slot[o].sid] = o /\ slot[o].child # "running"
         /\ slot[o].ender = "no" /\ slot[o].destroyer = "no"
         /\ slot[o].status \notin {"provisioning", "error"}
         /\ \A p \in Objs : Live(p) /\ Pending(slot[p]) /\ slot[p].sid = slot[o].sid => p = o
<1>1. SlotFits(slot[o]) /\ OwnsId(o) BY SlotFacts DEF SlotsInv
<1>2. reg[slot[o].sid] = o BY <1>1 DEF OwnsId, Pending
<1>3. RowFits(slot[o]) BY <1>2, SlotFacts
<1>4. \A p \in Objs : Live(p) /\ Pending(slot[p]) /\ slot[p].sid = slot[o].sid => p = o
  BY <1>2, ConstantsAssumption DEF SlotsInv, OwnsId
<1> QED BY <1>1, <1>2, <1>3, <1>4 DEF SlotFits, StatusFits, WriterFits, RowFits

LEMMA RecoverSlots ==
  ASSUME IInv, SlotsInv, NEW o \in Objs, Recover(o)
  PROVE  SlotsInv'
<1> DEFINE old == slot[o].sid
           dead == reg[old]
           s == [slot[o] EXCEPT !.writer = "no"]
           done == [slot EXCEPT ![o] = s]
           without == [reg EXCEPT ![old] = None]
<1>1. /\ Live(o) /\ slot[o].writer = "failed" /\ proc' # "down"
      /\ slot[o] \in SlotRec /\ old \in Ids
  BY Zenon, SlotFacts DEF Recover
<1>2. Follows(o, s) /\ s \in SlotRec BY <1>1, StopsWaiting DEF Follows
<1>3. /\ done \in [Objs -> SlotRec \cup {None}]
      /\ \A p \in Objs : done[p] = (IF p = o THEN s ELSE slot[p])
  BY <1>2 DEF IInv, TypeOK
<1>4. /\ s.sid = old /\ s.ender = slot[o].ender /\ s.destroyer = slot[o].destroyer
      /\ s.writer = "no" /\ s.child = slot[o].child
  BY <1>1 DEF SlotRec
<1> HIDE DEF s
<1>5. without \in [Ids -> Objs \cup {None}] /\ reg \in [Ids -> Objs \cup {None}]
  BY DEF IInv, TypeOK
<1>6. \A p \in Objs : done[p] = slot[p] \/ (Live(p) /\ Follows(p, done[p]))
  BY <1>1, <1>2, <1>3
<1>7. Guarded /\ dead # None => slot[dead].child # "running"
  BY <1>1, FailedOwns
<1>8. Guarded => \A p \in Objs : Live(p) /\ done[p] # None /\ Pending(done[p]) =>
        /\ Pending(slot[p]) /\ alias[slot[p].sid] = None
        /\ dead # None => slot[p].sid # old
  <2>1. Guarded /\ dead # None => ~Pending(s) BY <1>1, <1>4, FailedOwns DEF Pending
  <2>2. Pending(slot[o]) BY <1>1 DEF Pending
  <2> HIDE DEF done
  <2> QED BY <1>1, <1>3, <2>1, <2>2, FailedOwns DEF SlotsInv, OwnsId
<1>9. \/ dead = None /\ Commit(done, reg) /\ alias' = alias
      \/ Commit(done, without) /\ alias' = alias
      \/ \E new \in Ids, n \in Objs :
           /\ dead # None /\ Unused(new) /\ ~Live(n)
           /\ Commit([done EXCEPT ![n] =
                        [NewSlot(new, slot[dead].cwd, "alive", "running",
                                 slot[dead].burn) EXCEPT !.turn = TRUE]],
                     [without EXCEPT ![new] = n])
           /\ alias' = Moved(old, new)
  BY Zenon DEF Recover, s
<1> HIDE DEF done
<1>10. CASE dead = None /\ Commit(done, reg) /\ alias' = alias
  <2>1. without = reg BY <1>1, <1>10 DEF IInv, TypeOK
  <2> QED BY <1>1, <1>3, <1>6, <1>7, <1>8, <1>10, <2>1, SlotsDrop
<1>11. CASE Commit(done, without) /\ alias' = alias
  BY <1>1, <1>3, <1>6, <1>7, <1>8, <1>11, SlotsDrop
<1>12. ASSUME NEW new \in Ids, NEW n \in Objs, dead # None, Unused(new), ~Live(n),
              Commit([done EXCEPT ![n] =
                        [NewSlot(new, slot[dead].cwd, "alive", "running",
                                 slot[dead].burn) EXCEPT !.turn = TRUE]],
                     [without EXCEPT ![new] = n]),
              alias' = Moved(old, new)
       PROVE  SlotsInv'
  <2> DEFINE fresh == NewSlot(new, slot[dead].cwd, "alive", "running", slot[dead].burn)
             t == [fresh EXCEPT !.turn = TRUE]
             f == [done EXCEPT ![n] = t]
             q == [without EXCEPT ![new] = n]
  <2>1. slot[dead].cwd \in Ids /\ slot[dead].burn \in BOOLEAN
    BY <1>1, <1>12, RegFacts DEF SlotRec
  <2>2. t \in SlotRec /\ t.sid = new /\ SlotFits(t) /\ RowFits(t)
    BY <2>1, SpawnedInTurn
  <2> HIDE DEF t
  <2>3. /\ f \in [Objs -> SlotRec \cup {None}] /\ Commit(f, q)
        /\ \A p \in Objs : f[p] = (IF p = n THEN t ELSE done[p])
    BY Zenon, <1>3, <1>12, <2>2 DEF t
  <2>4. /\ q \in [Ids -> Objs \cup {None}]
        /\ \A y \in Ids : q[y] = (IF y = new THEN n ELSE IF y = old THEN None ELSE reg[y])
    BY <1>5
  <2> HIDE DEF f, q
  <2>5. /\ reg[new] = None /\ alias[new] = None /\ \A x \in Ids : alias[x] # new
        /\ \A p \in Objs : Live(p) => slot[p].sid # new
    BY <1>12 DEF Unused, AliasesOf
  <2>6. alias'[new] = None
    BY <1>1, <1>12, <2>5, ConstantsAssumption DEF Moved
  <2>7. Guarded => \A p \in Objs : Live(p) /\ done[p] # None /\ Pending(done[p]) =>
          Pending(slot[p]) /\ alias'[slot[p].sid] = None /\ slot[p].sid # new
    BY <1>1, <1>8, <1>12, <2>5, SlotFacts, ConstantsAssumption DEF Moved
  <2>8. Registers(old, new, n, t, done, f, q)
    BY <1>1, <1>3, <1>6, <1>12, <2>2, <2>3, <2>4, <2>5 DEF Registers
  <2>9. RegistersFreely(old, new, done) BY <1>1, <1>7, <2>6, <2>7 DEF RegistersFreely
  <2> QED BY <2>3, <2>8, <2>9, SlotsAdd
<1> QED BY Zenon, <1>9, <1>10, <1>11, <1>12

(* A slot that moves to the id its child answered under owns it: nothing else
   waits under the old one. *)
LEMMA FrameSwapsIdSlots ==
  ASSUME IInv, SlotsInv, NEW o \in Objs, NEW new \in Ids, FrameSwapsId(o, new)
  PROVE  SlotsInv'
<1> DEFINE c == slot[o].sid
           s == Swapped(slot[o], new)
           f == [slot EXCEPT ![o] = s]
           q == [reg EXCEPT ![c] = None, ![new] = o]
<1>1. /\ Runs /\ Live(o) /\ slot[o] \in SlotRec /\ c \in Ids /\ reg[c] = o
      /\ Unused(new) /\ new # c /\ slot[o].ender = "no" /\ ~slot[o].destroying
      /\ slot[o].child \in {"running", "exited", "killed"}
      /\ Commit(f, q) /\ alias' = Moved(c, new) /\ proc' = proc
  BY SwapCase
<1>2. /\ s \in SlotRec /\ s.sid = new /\ s.cwd = slot[o].cwd
      /\ s.status = slot[o].status /\ s.child = slot[o].child /\ s.phase = "heard"
      /\ s.turn = slot[o].turn /\ s.suppress = slot[o].suppress
      /\ s.destroying = slot[o].destroying /\ s.ender = slot[o].ender
      /\ s.destroyer = slot[o].destroyer
      /\ s.writer = (IF slot[o].writer = "watching" THEN "no" ELSE slot[o].writer)
  BY <1>1, SwappedType
<1>3. SlotFits(slot[o]) /\ slot[o].writer # "failed" /\ proc' # "down"
  BY <1>1, SlotFacts DEF Runs, Quiet, Ready
<1> HIDE DEF s
<1>4. SlotFits(s) /\ RowFits(s)
  BY <1>1, <1>2, <1>3 DEF SlotFits, RowFits, StatusFits, TurnFits, WriterFits
<1> HIDE DEF c
<1>5. /\ f \in [Objs -> SlotRec \cup {None}] /\ q \in [Ids -> Objs \cup {None}]
      /\ \A p \in Objs : f[p] = (IF p = o THEN s ELSE slot[p])
      /\ \A y \in Ids : q[y] = (IF y = new THEN o ELSE IF y = c THEN None ELSE reg[y])
  BY <1>1, <1>2 DEF IInv, TypeOK
<1> HIDE DEF f, q
<1>6. ASSUME NEW p \in Objs, f[p] # None, p # o
      PROVE  /\ Live(p) /\ f[p] = slot[p] /\ slot[p].sid \in Ids /\ slot[p].sid # new
             /\ SlotFits(f[p]) /\ (q[f[p].sid] = p => RowFits(f[p]))
  <2>1. Live(p) /\ f[p] = slot[p] BY <1>5, <1>6 DEF Live
  <2>2. slot[p].sid \in Ids /\ slot[p].sid # new /\ SlotFits(slot[p])
        /\ (reg[slot[p].sid] = p => RowFits(slot[p]))
    BY <1>1, <2>1, SlotFacts DEF Unused
  <2>3. q[slot[p].sid] = p => reg[slot[p].sid] = p
    BY <1>5, <2>2, ConstantsAssumption
  <2> QED BY <2>1, <2>2, <2>3
<1>7. ASSUME NEW p \in Objs, f[p] # None
      PROVE  SlotFits(f[p]) /\ (q[f[p].sid] = p => RowFits(f[p]))
  BY <1>4, <1>5, <1>6, <1>7
<1>8. /\ alias'[new] = None
      /\ \A x \in Ids : x # c /\ alias[x] # c => alias'[x] = alias[x]
  <2>1. alias[new] = None /\ c # None BY <1>1, ConstantsAssumption DEF Unused
  <2> QED BY <1>1, <2>1 DEF Moved
<1>9. ASSUME Guarded, NEW p \in Objs, f[p] # None
      PROVE  /\ Pending(f[p]) => alias'[f[p].sid] = None /\ q[f[p].sid] \in {p, None}
             /\ f[p].child = "running" => q[f[p].sid] = p
  <2>1. CASE p = o BY <1>2, <1>5, <1>8, <2>1
  <2>2. CASE p # o
    <3>1. OwnsId(p) BY <1>6, <1>9, <2>2 DEF SlotsInv
    <3>2. f[p] = slot[p] /\ slot[p].sid \in Ids /\ slot[p].sid # new
      BY <1>6, <1>9, <2>2
    <3>3. Pending(slot[p]) \/ slot[p].child = "running" => slot[p].sid # c
      BY <1>1, <2>2, <3>1, ConstantsAssumption DEF OwnsId
    <3>4. Pending(slot[p]) => alias'[slot[p].sid] = None
      BY <1>1, <1>8, <3>1, <3>2, <3>3, ConstantsAssumption DEF OwnsId
    <3> QED BY <1>5, <3>1, <3>2, <3>3, <3>4, ConstantsAssumption DEF OwnsId
  <2> QED BY <2>1, <2>2
<1> QED BY <1>1, <1>3, <1>5, <1>7, <1>9, SlotsCommit

LEMMA StillSlots ==
  ASSUME SlotsInv, reg' = reg, slot' = slot, alias' = alias, proc' # "down"
  PROVE  SlotsInv'
BY DEF SlotsInv, Live, OwnsId

LEMMA DeadSlots == ASSUME Dead("down") PROVE SlotsInv'
BY DEF Dead, SlotsInv, Live

(* The steps the process dies in. *)
LEMMA Deaths ==
  /\ Exit => Dead("down")
  /\ Crash => Dead("down")
  /\ \A o \in Objs : RecoverDies(o) \/ DestroyDies(o) => Dead("down")
BY DEF Exit, Crash, RecoverDies, DestroyDies, Dies

LEMMA BootDiesSlots == ASSUME SlotsInv, BootDies PROVE SlotsInv'
BY DEF BootDies, SlotsInv, Live, OwnsId

LEMMA BootSlots == ASSUME IInv, Boot PROVE SlotsInv'
<1> DEFINE burned == {i \in Ids : BurnsAtBoot(i)}
           back   == {i \in Ids : Restorable(i)} \ burned
<1>1. PICK f \in [back -> Objs] :
        slot' = [o \in Objs |->
             IF \E i \in back : f[i] = o
             THEN LET i == CHOOSE x \in back : f[x] = o
                  IN NewSlot(i, ckpt[i].cwd, "dormant", "none", FALSE)
             ELSE None]
  BY DEF Boot
<1>2. proc' = "up" BY DEF Boot
<1>3. ASSUME NEW o \in Objs, slot'[o] # None
      PROVE  \E i \in back : slot'[o] = NewSlot(i, ckpt[i].cwd, "dormant", "none", FALSE)
  <2> HIDE DEF back
  <2> QED BY <1>1, <1>3
<1>4. ASSUME NEW o \in Objs, slot'[o] # None
      PROVE  /\ SlotFits(slot'[o]) /\ RowFits(slot'[o]) /\ ~Pending(slot'[o])
             /\ slot'[o].child # "running"
  <2>1. PICK i \in back : slot'[o] = NewSlot(i, ckpt[i].cwd, "dormant", "none", FALSE)
    BY <1>3, <1>4
  <2>2. SlotFits(slot'[o]) /\ RowFits(slot'[o]) BY <2>1, NewSlotFits
  <2>3. ~Pending(slot'[o]) /\ slot'[o].child # "running"
    BY <2>1 DEF Pending, NewSlot
  <2> QED BY <2>2, <2>3
<1> QED BY <1>2, <1>4 DEF SlotsInv, Live, OwnsId

-----------------------------------------------------------------------------
(* Every step that is not a plain one, by name. *)
LEMMA StepKinds ==
  ASSUME IInv, SlotsInv, Next
  PROVE  \/ PlainStep
         \/ \E i \in Ids : \/ \E b \in BOOLEAN : \/ StartNewConversation(i, b)
                                                 \/ RegisterProvisioning(i, b)
                           \/ CloneDone(i) \/ CloneFailed(i)
                           \/ MessagePrunes(i) \/ MessageRevives(i) \/ MessageAtCap(i)
                           \/ DestroyUnregistered(i)
         \/ \E o \in Objs : \/ Recover(o) \/ EndFinishes(o) \/ DestroyFinishes(o)
                            \/ RecoverDies(o) \/ DestroyDies(o)
                            \/ \E new \in Ids : FrameSwapsId(o, new)
         \/ Shutdown \/ Exit \/ Crash \/ Boot \/ BootDies
<1>1. CASE Requests
  BY <1>1, MessageLivePlain, MarkSessionActivePlain, DisarmBurnPlain,
     InterruptSessionPlain, SetSessionModelPlain, DestroySessionPlain,
     EndSessionPlain DEF Requests
<1>2. CASE Background
  BY <1>2, SweepIdlePlain, FirstFramePlain, ResultFramePlain, ChildExitsPlain,
     ChildClosesPlain, WriteDonePlain, WriteFailsPlain, ResumeTimesOutPlain,
     EndTimerPlain DEF Background
<1>3. CASE Process BY <1>3, DrainTimerPlain DEF Process
<1> QED BY <1>1, <1>2, <1>3 DEF Next

LEMMA InitSlots == Init => SlotsInv
BY DEF Init, SlotsInv, Live

LEMMA NextSlots == IInv /\ SlotsInv /\ [Next]_vars => SlotsInv'
<1> SUFFICES ASSUME IInv, SlotsInv, [Next]_vars PROVE SlotsInv'
  OBVIOUS
<1>1. CASE UNCHANGED vars BY <1>1 DEF vars, SlotsInv, Live, OwnsId
<1>2. CASE Next
  <2>1. CASE PlainStep BY <2>1, PlainSlots
  <2>2. CASE Shutdown BY <2>2, StillSlots DEF Shutdown
  <2>3. ASSUME NEW i \in Ids, DestroyUnregistered(i) PROVE SlotsInv'
    BY <2>3, StillSlots DEF DestroyUnregistered, Up
  <2>4. CASE Exit \/ Crash \/ \E o \in Objs : RecoverDies(o) \/ DestroyDies(o)
    BY <2>4, Deaths, DeadSlots
  <2> QED BY <1>2, <2>1, <2>2, <2>3, <2>4, StepKinds, StartNewConversationSlots,
             RegisterProvisioningSlots, CloneDoneSlots, CloneFailedSlots,
             MessagePrunesSlots, MessageRevivesSlots, MessageAtCapSlots,
             RecoverSlots, EndFinishesSlots, DestroyFinishesSlots, BootSlots,
             FrameSwapsIdSlots, BootDiesSlots
<1> QED BY <1>1, <1>2

LEMMA SlotsInvariance == Spec => [](IInv /\ SlotsInv)
<1>1. Init => IInv /\ SlotsInv BY InitInv, InitSlots
<1>2. IInv /\ SlotsInv /\ [Next]_vars => (IInv /\ SlotsInv)' BY NextInv, NextSlots
<1> QED BY <1>1, <1>2, PTL DEF Spec

(* A claude process nobody has signalled is always behind the slot its id is
   registered to: wakeSession, recoverWithFreshSession and destroySession take
   a slot out of the registry only once its child is gone or told to go. *)
THEOREM NoChildIsOrphaned == Guarded => (Spec => []NoOrphanChild)
<1>1. Guarded /\ IInv /\ SlotsInv => NoOrphanChild
  BY DEF SlotsInv, OwnsId, NoOrphanChild
<1>2. CASE Guarded
  <2>1. IInv /\ SlotsInv => NoOrphanChild BY <1>1, <1>2
  <2> QED BY <2>1, SlotsInvariance, PTL
<1> QED BY <1>2

(* The thinking flag of a session is never left on without a process that will
   still report its close, whichever other overlaps happen: writeUserTurn sets
   turnActive for a session that has a child, and whoever takes the child away
   (a stop, a model switch, the close handler) clears it. *)
THEOREM TurnsHaveChildren == "exited" \notin Races => (Spec => []TurnHasChild)
<1> SUFFICES ASSUME "exited" \notin Races PROVE Spec => []TurnHasChild
  OBVIOUS
<1>1. IInv /\ SlotsInv => TurnHasChild
  BY ConstantsAssumption DEF IInv, RegistryConsistent, SlotsInv, SlotFits, TurnFits, TurnHasChild, Registered
<1> QED BY <1>1, SlotsInvariance, PTL

(* A session whose child has closed no longer reads as alive, so that the next
   message revives it: the close handler makes it dormant, unless whoever
   killed the child told it not to and left no child behind. *)
THEOREM NoSessionIsDeaf == "exited" \notin Races => (Spec => []NeverDeaf)
<1> SUFFICES ASSUME "exited" \notin Races PROVE Spec => []NeverDeaf
  OBVIOUS
<1>1. IInv /\ SlotsInv => NeverDeaf
  BY ConstantsAssumption DEF IInv, RegistryConsistent, SlotsInv, RowFits, NeverDeaf, NeedsRevive, Registered
<1> QED BY <1>1, SlotsInvariance, PTL

(* A swap: slot object o, its record s from now on, moves from id c to x; f and
   q are what is committed. *)
Swaps(o, c, x, s, f, q) ==
  /\ c \in Ids /\ x \in Ids /\ x # c /\ reg[c] = o /\ Live(o) /\ Unused(x)
  /\ slot[o].child # "closed" /\ slot[o].status \notin {"provisioning", "error"}
  /\ s \in SlotRec /\ s.sid = x /\ s.cwd = slot[o].cwd /\ s.burn = slot[o].burn
  /\ s.status = slot[o].status /\ s.child = slot[o].child
  /\ s.destroying = slot[o].destroying /\ s.ender = slot[o].ender
  /\ s.destroyer = slot[o].destroyer
  /\ f \in [Objs -> SlotRec \cup {None}] /\ q \in [Ids -> Objs \cup {None}]
  /\ \A p \in Objs : f[p] = (IF p = o THEN s ELSE slot[p])
  /\ \A y \in Ids : q[y] = (IF y = x THEN o ELSE IF y = c THEN None ELSE reg[y])
  /\ Commit(f, q) /\ alias' = Moved(c, x) /\ Save
  /\ proc' = proc /\ proc # "down" /\ ws' = ws

LEMMA SwapFacts ==
  ASSUME IInv, SlotsInv, NEW o \in Objs, NEW new \in Ids, FrameSwapsId(o, new)
  PROVE  \E s, f, q : Swaps(o, slot[o].sid, new, s, f, q)
<1> DEFINE c == slot[o].sid
           s == Swapped(slot[o], new)
           f == [slot EXCEPT ![o] = s]
           q == [reg EXCEPT ![c] = None, ![new] = o]
<1>1. /\ Runs /\ Live(o) /\ slot[o] \in SlotRec /\ c \in Ids /\ reg[c] = o
      /\ Unused(new) /\ new # c
      /\ slot[o].child \in {"running", "exited", "killed"}
      /\ Commit(f, q) /\ alias' = Moved(c, new) /\ Save /\ proc' = proc /\ ws' = ws
  BY SwapCase
<1>2. /\ s \in SlotRec /\ s.sid = new /\ s.cwd = slot[o].cwd /\ s.burn = slot[o].burn
      /\ s.status = slot[o].status /\ s.child = slot[o].child
      /\ s.destroying = slot[o].destroying /\ s.ender = slot[o].ender
      /\ s.destroyer = slot[o].destroyer
  BY <1>1, SwappedType
<1>3. slot[o].status \notin {"provisioning", "error"} /\ proc # "down"
  BY <1>1, SlotFacts DEF SlotFits, StatusFits, Runs
<1> HIDE DEF s, c
<1>4. /\ f \in [Objs -> SlotRec \cup {None}] /\ q \in [Ids -> Objs \cup {None}]
      /\ \A p \in Objs : f[p] = (IF p = o THEN s ELSE slot[p])
      /\ \A y \in Ids : q[y] = (IF y = new THEN o ELSE IF y = c THEN None ELSE reg[y])
  BY <1>1, <1>2 DEF IInv, TypeOK
<1> HIDE DEF f, q
<1>5. Swaps(o, c, new, s, f, q) BY <1>1, <1>2, <1>3, <1>4 DEF Swaps
<1> QED BY <1>5 DEF c

-----------------------------------------------------------------------------
(* The cap *)

(* The children that the cap is about, of objects f registered in r. *)
Kids(f, r) == {o \in Objs : /\ \E i \in Ids : r[i] = o
                            /\ f[o].child = "running" /\ ~f[o].destroying}

(* Each is behind a slot of its own that counts, in any part of the registry. *)
LEMMA KidsCounted ==
  ASSUME IInv, SlotsInv, NEW r \in [Ids -> Objs \cup {None}],
         \A i \in Ids : r[i] # None => r[i] = reg[i]
  PROVE  /\ IsFiniteSet(Kids(slot, r)) /\ Cardinality(Kids(slot, r)) \in Nat
         /\ LiveSlotCount(r) \in Nat
         /\ Cardinality(Kids(slot, r)) <= LiveSlotCount(r)
<1> DEFINE K == Kids(slot, r)
           T == {i \in Ids : r[i] # None /\ slot[r[i]].status # "ended"}
           g == [o \in K |-> slot[o].sid]
<1>1. ASSUME NEW o \in K
      PROVE  o \in Objs /\ slot[o].sid \in T /\ r[slot[o].sid] = o
  <2>1. PICK i \in Ids : r[i] = o BY DEF Kids
  <2>2. o \in Objs /\ o # None /\ slot[o].child = "running" /\ ~slot[o].destroying
    BY ConstantsAssumption DEF Kids
  <2>3. reg[i] = o BY <2>1, <2>2
  <2>4. slot[o].sid = i /\ SlotFits(slot[o]) BY <2>2, <2>3, RegFacts
  <2>5. slot[o].status = "alive" BY <2>2, <2>4 DEF SlotFits, StatusFits
  <2> QED BY <2>1, <2>2, <2>4, <2>5
<1>2. IsFiniteSet(T) /\ Cardinality(T) \in Nat
  <2>1. T \in SUBSET Ids OBVIOUS
  <2> QED BY <2>1, FiniteAssumption, FS_Subset, FS_CardinalityType
<1>3. g \in Injection(K, T)
  <2>1. g \in [K -> T] BY <1>1
  <2>2. \A a, b \in K : g[a] = g[b] => a = b BY <1>1
  <2> QED BY <2>1, <2>2 DEF Injection, IsInjective
<1>4. IsFiniteSet(K) /\ Cardinality(K) <= Cardinality(T)
  <2> HIDE DEF K, T, g
  <2> QED BY <1>2, <1>3, FS_Injection
<1>5. Cardinality(K) \in Nat BY <1>4, FS_CardinalityType
<1>6. LiveSlotCount(r) = Cardinality(T) BY DEF LiveSlotCount
<1> QED BY <1>2, <1>4, <1>5, <1>6

LEMMA KidsNow == Kids(slot, reg) = {o \in Registered : slot[o].child = "running"
                                                         /\ ~slot[o].destroying}
BY DEF Kids, Registered

(* No child more ... *)
LEMMA KidsShrink ==
  ASSUME IInv, SlotsInv, CapOnChildren, Kids(slot', reg') \subseteq Kids(slot, reg)
  PROVE  CapOnChildren'
<1>1. reg \in [Ids -> Objs \cup {None}] BY DEF IInv, TypeOK
<1>2. IsFiniteSet(Kids(slot, reg)) /\ Cardinality(Kids(slot, reg)) \in Nat
  BY <1>1, KidsCounted
<1>3. /\ Cardinality(Kids(slot', reg')) \in Nat
      /\ Cardinality(Kids(slot', reg')) <= Cardinality(Kids(slot, reg))
  BY <1>2, FS_Subset, FS_CardinalityType
<1>4. Cardinality(Kids(slot, reg)) <= MaxSessions BY KidsNow DEF CapOnChildren
<1>5. Cardinality(Kids(slot', reg')) <= MaxSessions
  BY <1>2, <1>3, <1>4, ConstantsAssumption
<1>6. Kids(slot', reg') = {o \in Registered' : slot'[o].child = "running"
                                                 /\ ~slot'[o].destroying}
  BY DEF Kids, Registered
<1> QED BY <1>5, <1>6 DEF CapOnChildren

(* ... or one more than what the cap had room for. *)
LEMMA KidsGrow ==
  ASSUME IInv, SlotsInv, NEW r \in [Ids -> Objs \cup {None}],
         \A i \in Ids : r[i] # None => r[i] = reg[i],
         ~AtCap(r), NEW n, Kids(slot', reg') \subseteq Kids(slot, r) \cup {n}
  PROVE  CapOnChildren'
<1> DEFINE K == Kids(slot, r)
<1>1. /\ IsFiniteSet(K) /\ Cardinality(K) \in Nat /\ LiveSlotCount(r) \in Nat
      /\ Cardinality(K) <= LiveSlotCount(r)
  BY KidsCounted
<1>2. LiveSlotCount(r) < MaxSessions BY <1>1, ConstantsAssumption DEF AtCap
<1>3. /\ IsFiniteSet(K \cup {n}) /\ Cardinality(K \cup {n}) \in Nat
      /\ Cardinality(K \cup {n}) <= Cardinality(K) + 1
  <2> HIDE DEF K
  <2> QED BY <1>1, FS_AddElement, FS_CardinalityType
<1>4. /\ Cardinality(Kids(slot', reg')) \in Nat
      /\ Cardinality(Kids(slot', reg')) <= Cardinality(K \cup {n})
  <2> HIDE DEF K
  <2>1. Kids(slot', reg') \in SUBSET (K \cup {n}) BY DEF K
  <2> QED BY <1>3, <2>1, FS_Subset, FS_CardinalityType
<1>5. Cardinality(Kids(slot', reg')) <= MaxSessions
  <2> HIDE DEF K
  <2> QED BY <1>1, <1>2, <1>3, <1>4, ConstantsAssumption
<1>6. Kids(slot', reg') = {o \in Registered' : slot'[o].child = "running"
                                                 /\ ~slot'[o].destroying}
  BY DEF Kids, Registered
<1> QED BY <1>5, <1>6 DEF CapOnChildren

(* A child after a commit is one of what it commits. *)
LEMMA CommitKid ==
  ASSUME IInv', NEW f \in [Objs -> SlotRec \cup {None}],
         NEW r, Commit(f, r), NEW o \in Kids(slot', reg')
  PROVE  /\ o \in Objs /\ o # None /\ \E i \in Ids : r[i] = o
         /\ f[o] # None /\ f[o].child = "running" /\ ~f[o].destroying
<1>1. reg' = r BY DEF Commit
<1>2. PICK i \in Ids : r[i] = o BY <1>1 DEF Kids
<1>3. o \in Objs /\ o # None /\ slot'[o].child = "running" /\ ~slot'[o].destroying
  BY ConstantsAssumption DEF Kids
<1>4. slot'[o] # None BY <1>1, <1>2, <1>3 DEF IInv, RegistryConsistent, Live
<1>5. f[o] \in SlotRec /\ slot'[o] = Forget(f[o]) BY <1>3, <1>4, CommitSlot
<1> QED BY <1>2, <1>3, <1>5, ForgetKeeps, NoneAssumption

(* A step that only moves slots or drops ids adds no child. *)
LEMMA CapShrinks ==
  ASSUME IInv, SlotsInv, CapOnChildren, IInv', NEW f \in [Objs -> SlotRec \cup {None}],
         NEW r \in [Ids -> Objs \cup {None}], Commit(f, r),
         \A i \in Ids : r[i] # None => r[i] = reg[i],
         \A p \in Objs : f[p] # None /\ f[p].child = "running" /\ ~f[p].destroying =>
            slot[p].child = "running" /\ ~slot[p].destroying
  PROVE  CapOnChildren'
<1>1. ASSUME NEW o \in Kids(slot', reg') PROVE o \in Kids(slot, reg)
  <2>1. /\ o \in Objs /\ o # None /\ \E i \in Ids : r[i] = o
        /\ f[o] # None /\ f[o].child = "running" /\ ~f[o].destroying
    BY CommitKid
  <2> QED BY <2>1 DEF Kids
<1> QED BY <1>1, KidsShrink

(* Slots f and registry r have no child to count that q had not, but for
   that of n. *)
GrowsBy(n, f, r, q) ==
  /\ n \in Objs /\ f \in [Objs -> SlotRec \cup {None}]
  /\ r \in [Ids -> Objs \cup {None}] /\ q \in [Ids -> Objs \cup {None}]
  /\ \A i \in Ids : q[i] # None => q[i] = reg[i]
  /\ \A i \in Ids : r[i] # None /\ r[i] # n => r[i] = q[i]
  /\ \A p \in Objs : p # n /\ f[p] # None /\ f[p].child = "running" /\ ~f[p].destroying =>
       slot[p].child = "running" /\ ~slot[p].destroying

LEMMA CapGrows ==
  ASSUME IInv, SlotsInv, CapOnChildren, IInv', NEW n, NEW f, NEW r, NEW q,
         GrowsBy(n, f, r, q), Commit(f, r), ~AtCap(q)
  PROVE  CapOnChildren'
<1> USE DEF GrowsBy
<1>1. ASSUME NEW o \in Kids(slot', reg'), o # n PROVE o \in Kids(slot, q)
  <2>1. /\ o \in Objs /\ o # None /\ \E i \in Ids : r[i] = o
        /\ f[o] # None /\ f[o].child = "running" /\ ~f[o].destroying
    BY CommitKid
  <2> QED BY <1>1, <2>1 DEF Kids
<1>2. Kids(slot', reg') \subseteq Kids(slot, q) \cup {n} BY <1>1
<1> QED BY <1>2, KidsGrow

LEMMA StartNewConversationCap ==
  ASSUME IInv, SlotsInv, CapOnChildren, IInv',
         NEW i \in Ids, NEW b \in BOOLEAN, StartNewConversation(i, b)
  PROVE  CapOnChildren'
<1> DEFINE s == NewSlot(i, i, "alive", "running", b)
<1>1. PICK o \in Objs :
        ~Live(o) /\ Commit([slot EXCEPT ![o] = s], [reg EXCEPT ![i] = o])
  BY DEF StartNewConversation
<1>2. s \in SlotRec BY NewSlotType DEF Statuses, ChildStates
<1>3. ~AtCap(reg) BY DEF StartNewConversation
<1> HIDE DEF s
<1> DEFINE f == [slot EXCEPT ![o] = s]
           r == [reg EXCEPT ![i] = o]
<1>4. /\ f \in [Objs -> SlotRec \cup {None}] /\ r \in [Ids -> Objs \cup {None}]
      /\ reg \in [Ids -> Objs \cup {None}] /\ Commit(f, r)
      /\ \A p \in Objs : p # o => f[p] = slot[p]
      /\ \A j \in Ids : r[j] # o => r[j] = reg[j]
  BY <1>1, <1>2 DEF IInv, TypeOK
<1> HIDE DEF f, r
<1>5. GrowsBy(o, f, r, reg) BY <1>4 DEF GrowsBy
<1> QED BY <1>3, <1>4, <1>5, CapGrows

LEMMA RegisterProvisioningCap ==
  ASSUME IInv, SlotsInv, CapOnChildren, IInv',
         NEW i \in Ids, NEW b \in BOOLEAN, RegisterProvisioning(i, b)
  PROVE  CapOnChildren'
<1> DEFINE s == NewSlot(i, i, "provisioning", "none", b)
<1>1. PICK o \in Objs :
        ~Live(o) /\ Commit([slot EXCEPT ![o] = s], [reg EXCEPT ![i] = o])
  BY DEF RegisterProvisioning
<1>2. s \in SlotRec /\ s.child = "none"
  BY NewSlotType DEF Statuses, ChildStates, NewSlot
<1> HIDE DEF s
<1> DEFINE f == [slot EXCEPT ![o] = s]
           r == [reg EXCEPT ![i] = o]
<1>3. /\ f \in [Objs -> SlotRec \cup {None}] /\ r \in [Ids -> Objs \cup {None}]
      /\ Commit(f, r) /\ f[o] = s
      /\ \A p \in Objs : p # o => f[p] = slot[p]
      /\ \A j \in Ids : r[j] # o => r[j] = reg[j]
  BY <1>1, <1>2 DEF IInv, TypeOK
<1> HIDE DEF f, r
<1>4. ASSUME NEW k \in Kids(slot', reg') PROVE k \in Kids(slot, reg)
  <2>1. /\ k \in Objs /\ k # None /\ \E j \in Ids : r[j] = k
        /\ f[k] # None /\ f[k].child = "running" /\ ~f[k].destroying
    BY <1>3, CommitKid
  <2>2. k # o BY <1>2, <1>3, <2>1
  <2> QED BY <1>3, <2>1, <2>2 DEF Kids
<1> QED BY <1>4, KidsShrink

LEMMA CloneDoneCap ==
  ASSUME IInv, SlotsInv, CapOnChildren, IInv', NEW i \in Ids, CloneDone(i)
  PROVE  CapOnChildren'
<1> DEFINE o == reg[i]
           without == [reg EXCEPT ![i] = None]
           s == NewSlot(i, i, "alive", "running", slot[o].burn)
<1>1. o \in Objs /\ slot[o] \in SlotRec BY RegFacts DEF CloneDone
<1>2. /\ without \in [Ids -> Objs \cup {None}] /\ reg \in [Ids -> Objs \cup {None}]
      /\ slot \in [Objs -> SlotRec \cup {None}]
      /\ \A j \in Ids : without[j] = (IF j = i THEN None ELSE reg[j])
  BY DEF IInv, TypeOK
<1>3. CASE ~AtCap(without) /\ Update(o, s)
  <2>1. slot[o].burn \in BOOLEAN BY <1>1 DEF SlotRec
  <2>2. s \in SlotRec BY <2>1, NewSlotType DEF Statuses, ChildStates
  <2> HIDE DEF s
  <2> DEFINE f == [slot EXCEPT ![o] = s]
  <2>3. /\ f \in [Objs -> SlotRec \cup {None}] /\ Commit(f, reg)
        /\ \A p \in Objs : p # o => f[p] = slot[p]
    BY <1>3, <2>2 DEF Update, IInv, TypeOK
  <2>4. \A j \in Ids : reg[j] # None /\ reg[j] # o => reg[j] = without[j] BY <1>2
  <2> HIDE DEF f, without, o
  <2>5. GrowsBy(o, f, reg, without) BY <1>1, <1>2, <2>3, <2>4 DEF GrowsBy, o
  <2> QED BY <1>3, <2>3, <2>5, CapGrows
<1>4. CASE Commit(slot, without)
  <2> HIDE DEF without
  <2> QED BY <1>2, <1>4, CapShrinks
<1> QED BY <1>3, <1>4 DEF CloneDone

LEMMA CloneFailedCap ==
  ASSUME IInv, SlotsInv, CapOnChildren, IInv', NEW i \in Ids, CloneFailed(i)
  PROVE  CapOnChildren'
<1> DEFINE o == reg[i]
           s == [slot[o] EXCEPT !.status = "error"]
           f == [slot EXCEPT ![o] = s]
<1>1. o \in Objs /\ slot[o] \in SlotRec BY RegFacts DEF CloneFailed
<1>2. /\ s \in SlotRec /\ s.child = slot[o].child
      /\ s.destroying = slot[o].destroying
  BY <1>1 DEF SlotRec, Statuses
<1>3. Update(o, s) BY DEF CloneFailed
<1> HIDE DEF s
<1>4. /\ f \in [Objs -> SlotRec \cup {None}] /\ Commit(f, reg)
      /\ reg \in [Ids -> Objs \cup {None}]
      /\ \A p \in Objs : f[p] = (IF p = o THEN s ELSE slot[p])
  BY <1>2, <1>3 DEF Update, IInv, TypeOK
<1> HIDE DEF f
<1> QED BY <1>2, <1>4, CapShrinks

LEMMA MessageRevivesCap ==
  ASSUME IInv, SlotsInv, CapOnChildren, IInv', NEW i \in Ids, MessageRevives(i)
  PROVE  CapOnChildren'
<1> DEFINE o == SlotOf(i)
           c == slot[o].sid
<1>1. PICK r \in ResumableIds(c), n \in Objs :
        LET resumes == transcript[r]
            fresh   == NewSlot(r, slot[o].cwd, "alive", "running", slot[o].burn)
        IN /\ ~AtCap([reg EXCEPT ![c] = IF r = c THEN @ ELSE None])
           /\ Commit([slot EXCEPT ![n] =
                        [fresh EXCEPT !.turn = TRUE,
                           !.phase = IF resumes THEN "resuming" ELSE @,
                           !.writer = IF resumes THEN "writing" ELSE @]],
                     [reg EXCEPT ![c] = None, ![r] = n])
  BY DEF MessageRevives
<1> DEFINE fresh == NewSlot(r, slot[o].cwd, "alive", "running", slot[o].burn)
           s == [fresh EXCEPT !.turn = TRUE,
                   !.phase = IF transcript[r] THEN "resuming" ELSE @,
                   !.writer = IF transcript[r] THEN "writing" ELSE @]
           q == [reg EXCEPT ![c] = IF r = c THEN @ ELSE None]
           f == [slot EXCEPT ![n] = s]
           g == [reg EXCEPT ![c] = None, ![r] = n]
<1>2. Wakeable(i) BY DEF MessageRevives
<1>3. c \in Ids /\ slot[o].cwd \in Ids /\ slot[o].burn \in BOOLEAN
  BY <1>2, WakeFree
<1>4. r \in Ids BY <1>3 DEF ResumableIds, AliasesOf
<1>5. s \in SlotRec
  <2>1. fresh \in SlotRec BY <1>3, <1>4, SpawnedType
  <2> HIDE DEF fresh
  <2> QED BY <2>1 DEF SlotRec, Phases, WriterStates
<1>6. ~AtCap(q) /\ Commit(f, g) BY <1>1
<1> HIDE DEF s
<1>7. /\ f \in [Objs -> SlotRec \cup {None}] /\ g \in [Ids -> Objs \cup {None}]
      /\ q \in [Ids -> Objs \cup {None}]
      /\ \A p \in Objs : p # n => f[p] = slot[p]
      /\ \A j \in Ids : q[j] # None => q[j] = reg[j]
      /\ \A j \in Ids : g[j] # None /\ g[j] # n => g[j] = q[j]
  BY <1>3, <1>4, <1>5 DEF IInv, TypeOK
<1> HIDE DEF f, g, q
<1>8. GrowsBy(n, f, g, q) BY <1>7 DEF GrowsBy
<1> QED BY <1>6, <1>8, CapGrows

LEMMA RecoverCap ==
  ASSUME IInv, SlotsInv, CapOnChildren, IInv', NEW o \in Objs, Recover(o)
  PROVE  CapOnChildren'
<1> DEFINE old == slot[o].sid
           dead == reg[old]
           s == [slot[o] EXCEPT !.writer = "no"]
           done == [slot EXCEPT ![o] = s]
           without == [reg EXCEPT ![old] = None]
<1>1. Live(o) /\ slot[o] \in SlotRec /\ old \in Ids BY Zenon, SlotFacts DEF Recover
<1>2. /\ s \in SlotRec /\ s.child = slot[o].child
      /\ s.destroying = slot[o].destroying
  BY <1>1 DEF SlotRec, WriterStates
<1> HIDE DEF s
<1>3. /\ done \in [Objs -> SlotRec \cup {None}]
      /\ \A p \in Objs : done[p] = (IF p = o THEN s ELSE slot[p])
      /\ without \in [Ids -> Objs \cup {None}] /\ reg \in [Ids -> Objs \cup {None}]
      /\ \A j \in Ids : without[j] # None => without[j] = reg[j]
  BY <1>2 DEF IInv, TypeOK
<1>4. \/ Commit(done, reg)
      \/ Commit(done, without)
      \/ \E new \in Ids, n \in Objs :
           /\ ~AtCap(without) /\ dead # None
           /\ Commit([done EXCEPT ![n] =
                        [NewSlot(new, slot[dead].cwd, "alive", "running",
                                 slot[dead].burn) EXCEPT !.turn = TRUE]],
                     [without EXCEPT ![new] = n])
  BY Zenon DEF Recover, s
<1> HIDE DEF done, without
<1>5. CASE Commit(done, reg) \/ Commit(done, without)
  BY <1>2, <1>3, <1>5, CapShrinks
<1>6. ASSUME NEW new \in Ids, NEW n \in Objs, ~AtCap(without), dead # None,
             Commit([done EXCEPT ![n] =
                       [NewSlot(new, slot[dead].cwd, "alive", "running",
                                slot[dead].burn) EXCEPT !.turn = TRUE]],
                    [without EXCEPT ![new] = n])
      PROVE  CapOnChildren'
  <2> DEFINE t == [NewSlot(new, slot[dead].cwd, "alive", "running",
                           slot[dead].burn) EXCEPT !.turn = TRUE]
             f == [done EXCEPT ![n] = t]
             g == [without EXCEPT ![new] = n]
  <2>1. t \in SlotRec
    <3>1. slot[dead].cwd \in Ids /\ slot[dead].burn \in BOOLEAN
      BY <1>1, <1>6, RegFacts DEF SlotRec
    <3>2. NewSlot(new, slot[dead].cwd, "alive", "running", slot[dead].burn) \in SlotRec
      BY <3>1, SpawnedType
    <3> QED BY Zenon, <3>2 DEF SlotRec
  <2> HIDE DEF t
  <2>2. Commit(f, g) BY <1>6 DEF t
  <2>3. /\ f \in [Objs -> SlotRec \cup {None}] /\ g \in [Ids -> Objs \cup {None}]
        /\ \A p \in Objs : p # n => f[p] = done[p]
        /\ \A j \in Ids : g[j] # n => g[j] = without[j]
    BY <1>3, <2>1
  <2> HIDE DEF f, g
  <2>4. \A p \in Objs : p # n /\ f[p] # None /\ f[p].child = "running" /\ ~f[p].destroying =>
            slot[p].child = "running" /\ ~slot[p].destroying
    BY <1>2, <1>3, <2>3
  <2>5. GrowsBy(n, f, g, without) BY <1>3, <1>6, <2>3, <2>4 DEF GrowsBy
  <2> QED BY <1>6, <2>2, <2>5, CapGrows
<1> QED BY Zenon, <1>4, <1>5, <1>6

(* Where ids are dropped and slots otherwise stay. *)
LEMMA DropCap ==
  ASSUME IInv, SlotsInv, CapOnChildren, IInv', NEW c \in Ids,
         NEW f \in [Objs -> SlotRec \cup {None}], Commit(f, [reg EXCEPT ![c] = None]),
         \A p \in Objs : f[p] = slot[p] \/ (Live(p) /\ Follows(p, f[p]))
  PROVE  CapOnChildren'
<1> DEFINE r == [reg EXCEPT ![c] = None]
<1>1. r \in [Ids -> Objs \cup {None}] /\ \A i \in Ids : r[i] # None => r[i] = reg[i]
  BY DEF IInv, TypeOK
<1>2. \A p \in Objs : f[p] # None /\ f[p].child = "running" /\ ~f[p].destroying =>
        slot[p].child = "running" /\ ~slot[p].destroying
  BY DEF Follows
<1> HIDE DEF r
<1> QED BY <1>1, <1>2, CapShrinks DEF r

LEMMA FinishesCap ==
  ASSUME IInv, SlotsInv, CapOnChildren, IInv', NEW o \in Objs,
         EndFinishes(o) \/ DestroyFinishes(o)
  PROVE  CapOnChildren'
<1>1. PICK s : /\ Follows(o, s)
               /\ Commit([slot EXCEPT ![o] = s], [reg EXCEPT ![slot[o].sid] = None])
  BY StopsWaiting DEF EndFinishes, DestroyFinishes
<1>2. Live(o) /\ slot[o].sid \in Ids /\ s \in SlotRec
  BY <1>1, SlotFacts DEF EndFinishes, DestroyFinishes, Follows
<1> DEFINE f == [slot EXCEPT ![o] = s]
<1>3. /\ f \in [Objs -> SlotRec \cup {None}]
      /\ \A p \in Objs : f[p] = slot[p] \/ (Live(p) /\ Follows(p, f[p]))
  BY <1>1, <1>2 DEF IInv, TypeOK
<1> HIDE DEF f
<1>4. Commit(f, [reg EXCEPT ![slot[o].sid] = None]) BY <1>1 DEF f
<1> QED BY <1>2, <1>3, <1>4, DropCap

LEMMA SwapsCap ==
  ASSUME IInv, SlotsInv, CapOnChildren, IInv', NEW o \in Objs, NEW new \in Ids,
         FrameSwapsId(o, new)
  PROVE  CapOnChildren'
<1>1. PICK s, f, q : Swaps(o, slot[o].sid, new, s, f, q) BY SwapFacts
<1>2. ASSUME NEW p \in Kids(slot', reg') PROVE p \in Kids(slot, reg)
  <2>1. /\ p \in Objs /\ \E i \in Ids : q[i] = p
        /\ f[p] # None /\ f[p].child = "running" /\ ~f[p].destroying
    BY <1>1, CommitKid DEF Swaps
  <2>2. \E i \in Ids : reg[i] = p
    BY <1>1, <2>1, ConstantsAssumption DEF Swaps
  <2> QED BY <1>1, <2>1, <2>2 DEF Swaps, Kids
<1> QED BY <1>2, KidsShrink

LEMMA NextCap ==
  ASSUME IInv, SlotsInv, CapOnChildren, IInv', [Next]_vars
  PROVE  CapOnChildren'
<1>1. CASE UNCHANGED vars
  BY <1>1 DEF vars, CapOnChildren, Registered
<1>2. CASE PlainStep
  <2>1. PICK f \in [Objs -> SlotRec \cup {None}] :
          /\ Commit(f, reg)
          /\ \A p \in Objs : f[p] = slot[p] \/ (Live(p) /\ Follows(p, f[p]))
    BY <1>2 DEF PlainStep
  <2>2. reg \in [Ids -> Objs \cup {None}] BY DEF IInv, TypeOK
  <2>3. \A p \in Objs : f[p] # None /\ f[p].child = "running" /\ ~f[p].destroying =>
          slot[p].child = "running" /\ ~slot[p].destroying
    BY <2>1 DEF Follows
  <2> QED BY <2>1, <2>2, <2>3, CapShrinks
<1>3. ASSUME NEW i \in Ids, MessagePrunes(i) \/ MessageAtCap(i) PROVE CapOnChildren'
  <2>1. /\ Wakeable(i) /\ Commit(slot, [reg EXCEPT ![slot[SlotOf(i)].sid] = None])
    BY <1>3 DEF MessagePrunes, MessageAtCap
  <2>2. slot[SlotOf(i)].sid \in Ids BY <2>1, WakeFree
  <2>3. slot \in [Objs -> SlotRec \cup {None}] BY DEF IInv, TypeOK
  <2> QED BY <2>1, <2>2, <2>3, DropCap
<1>4. CASE Exit \/ Crash \/ \E o \in Objs : RecoverDies(o) \/ DestroyDies(o)
  <2>1. Dead("down") BY <1>4, Deaths
  <2>2. Kids(slot', reg') = {} BY <2>1, ConstantsAssumption DEF Dead, Kids
  <2> QED BY <2>2, KidsShrink
<1>5. CASE Boot
  <2> DEFINE burned == {i \in Ids : BurnsAtBoot(i)}
             back   == {i \in Ids : Restorable(i)} \ burned
  <2>1. PICK f \in [back -> Objs] :
          slot' = [o \in Objs |->
               IF \E i \in back : f[i] = o
               THEN LET i == CHOOSE x \in back : f[x] = o
                    IN NewSlot(i, ckpt[i].cwd, "dormant", "none", FALSE)
               ELSE None]
    BY <1>5 DEF Boot
  <2> HIDE DEF back
  <2>2. ASSUME NEW o \in Kids(slot', reg') PROVE FALSE
    <3>1. o \in Objs /\ slot'[o] # None /\ slot'[o].child = "running"
      BY ConstantsAssumption DEF Kids, IInv, RegistryConsistent, Live
    <3>2. slot'[o].child = "none" BY <2>1, <3>1 DEF NewSlot
    <3> QED BY <3>1, <3>2
  <2> QED BY <2>2, KidsShrink
<1>6. ASSUME NEW i \in Ids, DestroyUnregistered(i) PROVE CapOnChildren'
  BY <1>6 DEF DestroyUnregistered, CapOnChildren, Registered
<1>7. CASE Shutdown \/ BootDies
  BY <1>7 DEF Shutdown, BootDies, CapOnChildren, Registered
<1> QED BY <1>1, <1>2, <1>3, <1>4, <1>5, <1>6, <1>7, StepKinds, StartNewConversationCap,
           RegisterProvisioningCap, CloneDoneCap, CloneFailedCap, MessageRevivesCap,
           RecoverCap, FinishesCap, SwapsCap

(* The cap bounds the processes that serve the registered sessions, whatever
   overlaps: a wake and a recovery free their old place first. *)
THEOREM ChildrenAreCapped == Spec => []CapOnChildren
<1>1. Init => CapOnChildren
  <2>1. ASSUME Init PROVE Registered = {} BY <2>1, ConstantsAssumption DEF Init, Registered
  <2> QED BY <2>1, FS_EmptySet, ConstantsAssumption DEF CapOnChildren
<1>2. IInv /\ SlotsInv /\ CapOnChildren /\ IInv' /\ [Next]_vars => CapOnChildren'
  BY NextCap
<1> QED BY <1>1, <1>2, SlotsInvariance, PTL DEF Spec

-----------------------------------------------------------------------------
(* What the steps that are not plain do to the registry and the slots *)

(* Slots f in which every slot there was is as before, or one step on. *)
OneStepOn(f) ==
  /\ f \in [Objs -> SlotRec \cup {None}]
  /\ \A p \in Objs : f[p] = slot[p] \/ (Live(p) /\ Follows(p, f[p]))

(* ... and still shows the same status and burn flag. *)
SameRows(f) ==
  /\ OneStepOn(f)
  /\ \A p \in Objs : f[p] # None =>
       f[p].burn = slot[p].burn /\ f[p].status = slot[p].status

(* Session c leaves the registry. *)
Drops(c) ==
  \E f \in [Objs -> SlotRec \cup {None}], r \in [Ids -> Objs \cup {None}] :
    /\ Commit(f, r) /\ SameRows(f)
    /\ \A y \in Ids : r[y] = IF y = c THEN None ELSE reg[y]

(* A new slot object n, with record s, is registered under x; c, if that is
   another id, leaves the registry. *)
Adds(c, x, n, s) ==
  /\ ~Live(n) /\ s \in SlotRec /\ s.sid = x /\ s.destroyer = "no" /\ s.ender = "no"
  /\ s.status # "dormant" /\ (x # c => reg[x] = None)
  /\ \E f, g \in [Objs -> SlotRec \cup {None}], r \in [Ids -> Objs \cup {None}] :
       /\ Commit(f, r) /\ SameRows(g)
       /\ \A p \in Objs : g[p] # None => g[p].destroyer = slot[p].destroyer
       /\ \A p \in Objs : f[p] = IF p = n THEN s ELSE g[p]
       /\ \A y \in Ids : r[y] = IF y = x THEN n ELSE IF y = c THEN None ELSE reg[y]

(* Provisioning session i goes on with record s. *)
Replaces(i, s) ==
  /\ reg[i] # None /\ slot[reg[i]].status = "provisioning" /\ slot[reg[i]].cwd = i
  /\ s \in SlotRec /\ s.sid = i /\ s.cwd = i /\ s.burn = slot[reg[i]].burn
  /\ s.destroyer = slot[reg[i]].destroyer \/ s.destroyer = "no"
  /\ Update(reg[i], s)

LEMMA Unchanged == ASSUME IInv PROVE SameRows(slot)
BY DEF IInv, TypeOK, OneStepOn, SameRows

LEMMA NewSessionAdds ==
  ASSUME IInv, NEW i \in Ids, NEW o \in Objs, NEW s \in SlotRec,
         Unused(i), ~Live(o), s.sid = i, s.destroyer = "no", s.ender = "no",
         s.status # "dormant",
         Commit([slot EXCEPT ![o] = s], [reg EXCEPT ![i] = o])
  PROVE  Adds(i, i, o, s)
<1> DEFINE f == [slot EXCEPT ![o] = s]
           r == [reg EXCEPT ![i] = o]
<1>1. slot \in [Objs -> SlotRec \cup {None}] /\ f \in [Objs -> SlotRec \cup {None}]
      /\ r \in [Ids -> Objs \cup {None}]
  BY DEF IInv, TypeOK
<1>2. /\ \A p \in Objs : f[p] = (IF p = o THEN s ELSE slot[p])
      /\ \A y \in Ids : r[y] = (IF y = i THEN o ELSE IF y = i THEN None ELSE reg[y])
      /\ Commit(f, r)
  BY DEF IInv, TypeOK
<1>3. SameRows(slot) BY Unchanged
<1> HIDE DEF f, r
<1> QED BY <1>1, <1>2, <1>3 DEF Adds

LEMMA StartNewConversationAdds ==
  ASSUME IInv, NEW i \in Ids, NEW b \in BOOLEAN, StartNewConversation(i, b)
  PROVE  /\ \E n \in Objs : Adds(i, i, n, NewSlot(i, i, "alive", "running", b))
         /\ NewSlot(i, i, "alive", "running", b).cwd = i
<1>1. PICK o \in Objs :
        /\ ~Live(o)
        /\ Commit([slot EXCEPT ![o] = NewSlot(i, i, "alive", "running", b)],
                  [reg EXCEPT ![i] = o])
  BY DEF StartNewConversation
<1> DEFINE s == NewSlot(i, i, "alive", "running", b)
<1>2. s \in SlotRec /\ s.sid = i BY NewSlotType DEF Statuses, ChildStates
<1>3. s.destroyer = "no" /\ s.ender = "no" /\ s.status # "dormant" /\ s.cwd = i
  BY DEF NewSlot
<1>4. Unused(i) BY DEF StartNewConversation
<1> HIDE DEF s
<1> QED BY <1>1, <1>2, <1>3, <1>4, NewSessionAdds DEF s

LEMMA RegisterProvisioningAdds ==
  ASSUME IInv, NEW i \in Ids, NEW b \in BOOLEAN, RegisterProvisioning(i, b)
  PROVE  /\ \E n \in Objs : Adds(i, i, n, NewSlot(i, i, "provisioning", "none", b))
         /\ NewSlot(i, i, "provisioning", "none", b).cwd = i
         /\ NewSlot(i, i, "provisioning", "none", b).status = "provisioning"
<1>1. PICK o \in Objs :
        /\ ~Live(o)
        /\ Commit([slot EXCEPT ![o] = NewSlot(i, i, "provisioning", "none", b)],
                  [reg EXCEPT ![i] = o])
  BY DEF RegisterProvisioning
<1> DEFINE s == NewSlot(i, i, "provisioning", "none", b)
<1>2. s \in SlotRec /\ s.sid = i BY NewSlotType DEF Statuses, ChildStates
<1>3. /\ s.destroyer = "no" /\ s.ender = "no" /\ s.status = "provisioning"
      /\ s.status # "dormant" /\ s.cwd = i
  BY DEF NewSlot
<1>4. Unused(i) BY DEF RegisterProvisioning
<1> HIDE DEF s
<1> QED BY <1>1, <1>2, <1>3, <1>4, NewSessionAdds DEF s

(* A revive registers the session again, in the same workspace. *)
LEMMA MessageRevivesAdds ==
  ASSUME IInv, SlotsInv, NEW i \in Ids, MessageRevives(i)
  PROVE  \E x \in Ids, n \in Objs : \E s :
           /\ Adds(slot[SlotOf(i)].sid, x, n, s)
           /\ s.cwd = slot[SlotOf(i)].cwd /\ s.status = "alive"
           /\ x \in ResumableIds(slot[SlotOf(i)].sid)
           /\ alias' = Rekeyed(slot[SlotOf(i)].sid, x)
<1> DEFINE o == SlotOf(i)
           c == slot[o].sid
<1>1. PICK r \in ResumableIds(c), n \in Objs :
        LET resumes == transcript[r]
            fresh   == NewSlot(r, slot[o].cwd, "alive", "running", slot[o].burn)
        IN /\ ~Live(n)
           /\ Commit([slot EXCEPT ![n] =
                        [fresh EXCEPT !.turn = TRUE,
                           !.phase = IF resumes THEN "resuming" ELSE @,
                           !.writer = IF resumes THEN "writing" ELSE @]],
                     [reg EXCEPT ![c] = None, ![r] = n])
           /\ alias' = Rekeyed(c, r)
  BY Zenon DEF MessageRevives
<1> DEFINE fresh == NewSlot(r, slot[o].cwd, "alive", "running", slot[o].burn)
           s == [fresh EXCEPT !.turn = TRUE,
                   !.phase = IF transcript[r] THEN "resuming" ELSE @,
                   !.writer = IF transcript[r] THEN "writing" ELSE @]
<1>2. Wakeable(i) BY DEF MessageRevives
<1>3. /\ o \in Objs /\ c \in Ids /\ reg[c] = o
      /\ slot[o].cwd \in Ids /\ slot[o].burn \in BOOLEAN
  BY <1>2, WakeFree
<1>4. r \in Ids /\ (r # c => alias[r] = c) BY <1>3 DEF ResumableIds, AliasesOf
<1>5. /\ s \in SlotRec /\ s.sid = r /\ s.cwd = slot[o].cwd /\ s.status = "alive"
      /\ s.destroyer = "no" /\ s.ender = "no" /\ s.status # "dormant"
  <2>1. fresh \in SlotRec BY <1>3, <1>4, SpawnedType
  <2>2. /\ fresh.status = "alive" /\ fresh.cwd = slot[o].cwd /\ fresh.sid = r
        /\ fresh.ender = "no" /\ fresh.destroyer = "no"
    BY DEF NewSlot
  <2> HIDE DEF fresh
  <2> QED BY <2>1, <2>2 DEF SlotRec, Phases, WriterStates
<1>6. /\ Commit([slot EXCEPT ![n] = s], [reg EXCEPT ![c] = None, ![r] = n]) /\ ~Live(n)
      /\ r \in ResumableIds(c) /\ alias' = Rekeyed(c, r)
  BY <1>1
<1>7. r # c => reg[r] = None
  BY <1>3, <1>4, ConstantsAssumption DEF IInv, AliasesFlat
<1> HIDE DEF s, c
<1> DEFINE f == [slot EXCEPT ![n] = s]
           q == [reg EXCEPT ![c] = None, ![r] = n]
<1>8. /\ slot \in [Objs -> SlotRec \cup {None}] /\ f \in [Objs -> SlotRec \cup {None}]
      /\ q \in [Ids -> Objs \cup {None}] /\ Commit(f, q)
      /\ \A p \in Objs : f[p] = (IF p = n THEN s ELSE slot[p])
      /\ \A y \in Ids : q[y] = (IF y = r THEN n ELSE IF y = c THEN None ELSE reg[y])
  BY <1>4, <1>5, <1>6 DEF IInv, TypeOK
<1>9. SameRows(slot) BY Unchanged
<1> HIDE DEF f, q
<1>10. Adds(c, r, n, s) BY <1>5, <1>6, <1>7, <1>8, <1>9 DEF Adds
<1> QED BY <1>4, <1>5, <1>6, <1>10 DEF c

(* What a recovery does, by its three cases. *)
LEMMA RecoverCases ==
  ASSUME IInv, SlotsInv, NEW o \in Objs, Recover(o)
  PROVE  \/ /\ reg[slot[o].sid] = None /\ Drops(slot[o].sid)
            /\ alias' = alias /\ ckpt' = ckpt
         \/ /\ reg[slot[o].sid] # None
            /\ \E x \in Ids, n \in Objs : \E s :
                 /\ Adds(slot[o].sid, x, n, s)
                 /\ s.cwd = slot[reg[slot[o].sid]].cwd /\ s.status = "alive"
                 /\ Unused(x) /\ alias' = Moved(slot[o].sid, x)
            /\ Save
         \/ /\ reg[slot[o].sid] # None /\ AtCap([reg EXCEPT ![slot[o].sid] = None])
            /\ Drops(slot[o].sid) /\ alias' = alias /\ ckpt' = ckpt
<1> DEFINE old == slot[o].sid
           dead == reg[old]
           s == [slot[o] EXCEPT !.writer = "no"]
           done == [slot EXCEPT ![o] = s]
           without == [reg EXCEPT ![old] = None]
<1>1. Live(o) /\ old \in Ids BY Zenon, SlotFacts DEF Recover
<1>2. Follows(o, s) /\ s \in SlotRec /\ s.burn = slot[o].burn /\ s.status = slot[o].status
  BY <1>1, StopsWaiting DEF Follows
<1> HIDE DEF s
<1>3. /\ done \in [Objs -> SlotRec \cup {None}]
      /\ \A p \in Objs : done[p] = (IF p = o THEN s ELSE slot[p])
  BY <1>2 DEF IInv, TypeOK
<1>4. /\ SameRows(done)
      /\ \A p \in Objs : done[p] # None => done[p].destroyer = slot[p].destroyer
  <2>1. s.destroyer = slot[o].destroyer BY <1>1, SlotFacts DEF s, SlotRec
  <2> HIDE DEF done
  <2> QED BY <1>1, <1>2, <1>3, <2>1 DEF OneStepOn, SameRows
<1>5. /\ without \in [Ids -> Objs \cup {None}] /\ reg \in [Ids -> Objs \cup {None}]
      /\ \A y \in Ids : without[y] = IF y = old THEN None ELSE reg[y]
  BY DEF IInv, TypeOK
<1>6. \/ dead = None /\ Commit(done, reg) /\ alias' = alias /\ ckpt' = ckpt
      \/ dead # None /\ AtCap(without) /\ Commit(done, without) /\ alias' = alias /\ ckpt' = ckpt
      \/ /\ Save
         /\ \E new \in Ids, n \in Objs :
             /\ dead # None /\ Unused(new) /\ ~Live(n)
             /\ Commit([done EXCEPT ![n] =
                        [NewSlot(new, slot[dead].cwd, "alive", "running",
                                 slot[dead].burn) EXCEPT !.turn = TRUE]],
                     [without EXCEPT ![new] = n])
             /\ alias' = Moved(old, new)
  BY Zenon DEF Recover, s
<1> HIDE DEF done, without
<1>7. CASE dead = None /\ Commit(done, reg) /\ alias' = alias /\ ckpt' = ckpt
  <2>1. \A y \in Ids : reg[y] = IF y = old THEN None ELSE reg[y] BY <1>7
  <2> QED BY <1>3, <1>4, <1>5, <1>7, <2>1 DEF Drops
<1>8. CASE dead # None /\ AtCap(without) /\ Commit(done, without) /\ alias' = alias /\ ckpt' = ckpt
  <2>1. Drops(old) BY <1>3, <1>4, <1>5, <1>8 DEF Drops
  <2> QED BY <1>8, <2>1 DEF without
<1>9. ASSUME Save, NEW new \in Ids, NEW n \in Objs, dead # None, Unused(new), ~Live(n),
             Commit([done EXCEPT ![n] =
                        [NewSlot(new, slot[dead].cwd, "alive", "running",
                                 slot[dead].burn) EXCEPT !.turn = TRUE]],
                     [without EXCEPT ![new] = n]),
             alias' = Moved(old, new)
      PROVE  \E x \in Ids, m \in Objs : \E v :
                 /\ Adds(old, x, m, v) /\ v.cwd = slot[dead].cwd /\ v.status = "alive"
                 /\ Unused(x) /\ alias' = Moved(old, x)
  <2> DEFINE fresh == NewSlot(new, slot[dead].cwd, "alive", "running", slot[dead].burn)
             t == [fresh EXCEPT !.turn = TRUE]
             f == [done EXCEPT ![n] = t]
             q == [without EXCEPT ![new] = n]
  <2>1. slot[dead].cwd \in Ids /\ slot[dead].burn \in BOOLEAN
    BY <1>1, <1>9, RegFacts DEF SlotRec
  <2>2. /\ t \in SlotRec /\ t.sid = new /\ t.cwd = slot[dead].cwd /\ t.status = "alive"
        /\ t.destroyer = "no" /\ t.ender = "no" /\ t.status # "dormant"
    <3>1. fresh \in SlotRec /\ fresh.sid = new
      BY <2>1, SpawnedType
    <3>2. /\ fresh.status = "alive" /\ fresh.cwd = slot[dead].cwd
          /\ fresh.ender = "no" /\ fresh.destroyer = "no"
      BY <2>1, SpawnedType
    <3> HIDE DEF fresh
    <3> QED BY <3>1, <3>2 DEF SlotRec
  <2> HIDE DEF t
  <2>3. /\ f \in [Objs -> SlotRec \cup {None}] /\ Commit(f, q)
        /\ \A p \in Objs : f[p] = (IF p = n THEN t ELSE done[p])
    BY Zenon, <1>3, <1>9, <2>2 DEF t
  <2>4. /\ q \in [Ids -> Objs \cup {None}]
        /\ \A y \in Ids : q[y] = (IF y = new THEN n ELSE IF y = old THEN None ELSE reg[y])
    BY <1>5
  <2> HIDE DEF f, q
  <2>5. reg[new] = None /\ ~Live(n) BY <1>9 DEF Unused
  <2>6. Adds(old, new, n, t) BY <1>3, <1>4, <2>2, <2>3, <2>4, <2>5 DEF Adds
  <2> QED BY <1>9, <2>2, <2>6
<1> QED BY Zenon, <1>6, <1>7, <1>8, <1>9

LEMMA TeardownDrops ==
  ASSUME IInv, SlotsInv, NEW o \in Objs, Live(o), NEW s, Follows(o, s),
         s.burn = slot[o].burn, s.status = slot[o].status,
         Commit([slot EXCEPT ![o] = s], [reg EXCEPT ![slot[o].sid] = None])
  PROVE  Drops(slot[o].sid)
<1> DEFINE f == [slot EXCEPT ![o] = s]
           r == [reg EXCEPT ![slot[o].sid] = None]
<1>1. s \in SlotRec /\ slot[o].sid \in Ids BY SlotFacts DEF Follows
<1>2. /\ f \in [Objs -> SlotRec \cup {None}] /\ r \in [Ids -> Objs \cup {None}]
      /\ \A p \in Objs : f[p] = (IF p = o THEN s ELSE slot[p])
      /\ \A y \in Ids : r[y] = IF y = slot[o].sid THEN None ELSE reg[y]
      /\ Commit(f, r)
  BY <1>1 DEF IInv, TypeOK
<1> HIDE DEF f, r
<1>3. SameRows(f) BY <1>2 DEF OneStepOn, SameRows
<1> QED BY <1>2, <1>3 DEF Drops

LEMMA PlainDrops ==
  ASSUME IInv, NEW c \in Ids, Commit(slot, [reg EXCEPT ![c] = None])
  PROVE  Drops(c)
<1> DEFINE r == [reg EXCEPT ![c] = None]
<1>1. /\ slot \in [Objs -> SlotRec \cup {None}] /\ r \in [Ids -> Objs \cup {None}]
      /\ \A y \in Ids : r[y] = IF y = c THEN None ELSE reg[y]
      /\ Commit(slot, r)
  BY DEF IInv, TypeOK
<1>2. SameRows(slot) BY Unchanged
<1> HIDE DEF r
<1> QED BY <1>1, <1>2 DEF Drops

(* The end of a clone. *)
LEMMA CloneDoneCases ==
  ASSUME IInv, SlotsInv, NEW i \in Ids, CloneDone(i)
  PROVE  /\ reg[i] # None /\ slot[reg[i]].status = "provisioning" /\ slot[reg[i]].cwd = i
         /\ \/ /\ Replaces(i, NewSlot(i, i, "alive", "running", slot[reg[i]].burn))
               /\ Save /\ ws' = ws
            \/ Drops(i) /\ ws' = [ws EXCEPT ![i] = FALSE] /\ ckpt' = ckpt
<1> DEFINE o == reg[i]
           s == NewSlot(i, i, "alive", "running", slot[o].burn)
<1>1. o # None /\ slot[o].status = "provisioning" BY DEF CloneDone
<1>2. /\ o \in Objs /\ Live(o) /\ slot[o] \in SlotRec /\ slot[o].sid = i
      /\ SlotFits(slot[o])
  BY <1>1, RegFacts
<1>3. slot[o].cwd = i BY <1>1, <1>2 DEF SlotFits, StatusFits
<1>4. CASE Update(o, s) /\ Save /\ ws' = ws
  <2>1. slot[o].burn \in BOOLEAN BY <1>2 DEF SlotRec
  <2>2. s \in SlotRec /\ s.sid = i BY <2>1, NewSlotType DEF Statuses, ChildStates
  <2>3. s.cwd = i /\ s.burn = slot[o].burn /\ s.destroyer = "no" BY DEF NewSlot
  <2> HIDE DEF s
  <2>4. Replaces(i, s) BY <1>1, <1>3, <1>4, <2>2, <2>3 DEF Replaces
  <2> QED BY <1>1, <1>3, <1>4, <2>4 DEF s
<1>5. CASE Commit(slot, [reg EXCEPT ![i] = None])
           /\ ws' = [ws EXCEPT ![i] = FALSE] /\ ckpt' = ckpt
  BY <1>1, <1>3, <1>5, PlainDrops
<1> QED BY <1>4, <1>5 DEF CloneDone

LEMMA CloneFailedReplaces ==
  ASSUME IInv, SlotsInv, NEW i \in Ids, CloneFailed(i)
  PROVE  /\ Replaces(i, [slot[reg[i]] EXCEPT !.status = "error"])
         /\ [slot[reg[i]] EXCEPT !.status = "error"].status = "error"
         /\ ws' = [ws EXCEPT ![i] = FALSE] /\ ckpt' = ckpt /\ alias' = alias
<1> DEFINE o == reg[i]
           s == [slot[o] EXCEPT !.status = "error"]
<1>1. /\ o # None /\ slot[o].status = "provisioning" /\ Update(o, s)
      /\ ws' = [ws EXCEPT ![i] = FALSE] /\ ckpt' = ckpt /\ alias' = alias
  BY DEF CloneFailed
<1>2. /\ o \in Objs /\ Live(o) /\ slot[o] \in SlotRec /\ slot[o].sid = i
      /\ SlotFits(slot[o])
  BY <1>1, RegFacts
<1>3. slot[o].cwd = i BY <1>1, <1>2 DEF SlotFits, StatusFits
<1>4. /\ s \in SlotRec /\ s.sid = i /\ s.cwd = i /\ s.burn = slot[o].burn
      /\ s.destroyer = slot[o].destroyer /\ s.status = "error"
  BY <1>2, <1>3 DEF SlotRec, Statuses
<1> HIDE DEF s
<1> QED BY <1>1, <1>3, <1>4 DEF Replaces, s

-----------------------------------------------------------------------------
(* Workspaces *)

(* No other session rests in a workspace that a teardown is about to take. *)
DoomedAlone ==
  \A o \in Objs, p \in Registered :
    Live(o) /\ slot[o].destroyer # "no" /\ slot[p].cwd = slot[o].cwd => p = o

(* Nor would a boot bring back two sessions in the same one. *)
CkptApart ==
  \A i, j \in Ids : ckpt[i] # None /\ ckpt[j] # None /\ ckpt[i].cwd = ckpt[j].cwd => i = j

WorkInv == WorkspaceOwned /\ DoomedAlone /\ CkptApart

(* What a commit makes of the slots. *)
LEMMA CommitFacts ==
  ASSUME IInv', NEW f \in [Objs -> SlotRec \cup {None}],
         NEW r, Commit(f, r)
  PROVE  /\ reg' = r
         /\ \A o \in Objs : slot'[o] # None =>
              /\ f[o] # None /\ f[o] \in SlotRec
              /\ slot'[o].sid = f[o].sid /\ slot'[o].cwd = f[o].cwd
              /\ slot'[o].burn = f[o].burn /\ slot'[o].status = f[o].status
              /\ slot'[o].destroying = f[o].destroying
              /\ slot'[o].destroyer = f[o].destroyer
         /\ \A i \in Ids : r[i] # None =>
              r[i] \in Objs /\ slot'[r[i]] # None /\ f[r[i]] # None
<1>1. reg' = r BY DEF Commit
<1>2. ASSUME NEW o \in Objs, slot'[o] # None
      PROVE  /\ f[o] # None /\ f[o] \in SlotRec
             /\ slot'[o].sid = f[o].sid /\ slot'[o].cwd = f[o].cwd
             /\ slot'[o].burn = f[o].burn /\ slot'[o].status = f[o].status
             /\ slot'[o].destroying = f[o].destroying
             /\ slot'[o].destroyer = f[o].destroyer
  <2>1. f[o] \in SlotRec /\ slot'[o] = Forget(f[o]) BY <1>2, CommitSlot
  <2> QED BY <2>1, ForgetKeeps, NoneAssumption
<1>3. ASSUME NEW i \in Ids, r[i] # None
      PROVE  r[i] \in Objs /\ slot'[r[i]] # None
  BY <1>1, <1>3 DEF IInv, TypeOK, RegistryConsistent, Live
<1> QED BY <1>1, <1>2, <1>3

(* A save copies the workspaces of sessions that do not share any. *)
LEMMA SavedApart ==
  ASSUME IInv', Save \/ ckpt' = ckpt, CkptApart, WorkspaceOwned'
  PROVE  CkptApart'
<1>1. CASE ckpt' = ckpt BY <1>1 DEF CkptApart
<1>2. CASE Save
  <2>1. ASSUME NEW i \in Ids, ckpt'[i] # None
        PROVE  /\ reg'[i] # None /\ reg'[i] \in Objs /\ slot'[reg'[i]].sid = i
               /\ ckpt'[i].cwd = slot'[reg'[i]].cwd
    BY <1>2, <2>1 DEF Save, Saved, IInv, TypeOK, RegistryConsistent
  <2>2. ASSUME NEW i \in Ids, NEW j \in Ids, ckpt'[i] # None, ckpt'[j] # None,
               ckpt'[i].cwd = ckpt'[j].cwd
        PROVE  i = j
    <3>1. reg'[i] = reg'[j]
      BY <2>1, <2>2 DEF WorkspaceOwned, Registered
    <3> QED BY <2>1, <2>2, <3>1
  <2> QED BY <2>2 DEF CkptApart
<1> QED BY <1>1, <1>2

(* The registry after a commit of slots that stay where they are. *)
LEMMA WorkKept ==
  ASSUME IInv, SlotsInv, WorkInv, IInv', proc # "down",
         NEW f \in [Objs -> SlotRec \cup {None}],
         NEW r \in [Ids -> Objs \cup {None}], Commit(f, r),
         \A o \in Objs : f[o] # None =>
            /\ Live(o) /\ f[o].cwd = slot[o].cwd
            /\ f[o].destroyer # "no" => slot[o].destroyer # "no" \/ o \in Registered,
         \A i \in Ids : r[i] # None => r[i] = reg[i],
         \A i \in Ids : r[i] # None /\ f[r[i]].status # "error" => ws'[f[r[i]].cwd],
         Save \/ ckpt' = ckpt
  PROVE  WorkInv'
<1>1. ASSUME NEW p \in Registered'
      PROVE  /\ p \in Objs /\ p \in Registered /\ f[p] # None
             /\ slot'[p].cwd = f[p].cwd /\ slot'[p].status = f[p].status
             /\ f[p].status # "error" => ws'[f[p].cwd]
  <2>1. PICK i \in Ids : reg'[i] = p /\ p \in Objs BY DEF Registered
  <2>2. r[i] = p /\ r[i] # None BY <2>1, CommitFacts, ConstantsAssumption
  <2> QED BY <2>1, <2>2, CommitFacts DEF Registered
<1>2. WorkspaceOwned' BY <1>1 DEF WorkInv, WorkspaceOwned
<1>3. DoomedAlone'
  <2>1. ASSUME NEW o \in Objs, slot'[o] # None
        PROVE  /\ Live(o) /\ slot'[o].cwd = slot[o].cwd
               /\ slot'[o].destroyer # "no" => slot[o].destroyer # "no" \/ o \in Registered
    BY <2>1, CommitFacts
  <2> QED BY <1>1, <2>1 DEF WorkInv, DoomedAlone, WorkspaceOwned, Live
<1> QED BY <1>2, <1>3, SavedApart DEF WorkInv

LEMMA OneStepFacts ==
  ASSUME IInv, SlotsInv, NEW f, OneStepOn(f), NEW o \in Objs, f[o] # None
  PROVE  /\ Live(o) /\ f[o] \in SlotRec /\ f[o].sid = slot[o].sid
         /\ f[o].cwd = slot[o].cwd
         /\ f[o].status = "error" <=> slot[o].status = "error"
         /\ f[o].status = "provisioning" <=> slot[o].status = "provisioning"
         /\ f[o].destroyer # "no" => slot[o].destroyer # "no" \/ o \in Registered
<1>1. Live(o) /\ f[o] \in SlotRec BY NoneAssumption DEF OneStepOn, Live
<1>2. CASE f[o] = slot[o] BY <1>1, <1>2
<1>3. CASE Follows(o, f[o])
  <2>1. slot[o].sid \in Ids BY <1>1, SlotFacts
  <2> QED BY <1>1, <1>3, <2>1 DEF Follows, Registered
<1> QED BY <1>1, <1>2, <1>3 DEF OneStepOn

LEMMA PlainWork ==
  ASSUME IInv, SlotsInv, WorkInv, IInv', PlainStep
  PROVE  WorkInv'
<1>1. PICK f \in [Objs -> SlotRec \cup {None}] : Commit(f, reg) /\ OneStepOn(f)
  BY DEF PlainStep, OneStepOn
<1>2. proc # "down" /\ ws' = ws /\ (Save \/ ckpt' = ckpt) BY DEF PlainStep
<1>3. reg \in [Ids -> Objs \cup {None}] BY DEF IInv, TypeOK
<1>4. \A o \in Objs : f[o] # None =>
        /\ Live(o) /\ f[o].cwd = slot[o].cwd /\ (f[o].status # "error" => slot[o].status # "error")
        /\ f[o].destroyer # "no" => slot[o].destroyer # "no" \/ o \in Registered
  BY <1>1, OneStepFacts
<1>5. \A i \in Ids : reg[i] # None =>
        reg[i] \in Objs /\ f[reg[i]] # None /\ reg[i] \in Registered
  BY <1>1, <1>3, CommitFacts DEF Registered
<1>6. \A i \in Ids : reg[i] # None /\ f[reg[i]].status # "error" => ws'[f[reg[i]].cwd]
  BY <1>2, <1>4, <1>5 DEF WorkInv, WorkspaceOwned
<1> QED BY <1>1, <1>2, <1>3, <1>4, <1>6, WorkKept

LEMMA DropsWork ==
  ASSUME IInv, SlotsInv, WorkInv, IInv', proc # "down", NEW c \in Ids, Drops(c),
         \A y \in Ids : y # c /\ reg[y] # None /\ slot[reg[y]].status # "error" =>
           ws'[slot[reg[y]].cwd],
         Save \/ ckpt' = ckpt
  PROVE  WorkInv'
<1>1. PICK f \in [Objs -> SlotRec \cup {None}], r \in [Ids -> Objs \cup {None}] :
        /\ Commit(f, r) /\ SameRows(f) /\ OneStepOn(f)
        /\ \A y \in Ids : r[y] = IF y = c THEN None ELSE reg[y]
  BY DEF Drops, SameRows
<1>2. \A o \in Objs : f[o] # None =>
        /\ Live(o) /\ f[o].cwd = slot[o].cwd /\ (f[o].status # "error" => slot[o].status # "error")
        /\ f[o].destroyer # "no" => slot[o].destroyer # "no" \/ o \in Registered
  BY <1>1, OneStepFacts
<1>3. \A i \in Ids : r[i] # None => r[i] \in Objs /\ f[r[i]] # None
  BY <1>1, CommitFacts
<1>4. \A i \in Ids : r[i] # None => r[i] = reg[i] /\ i # c BY <1>1
<1>5. \A i \in Ids : r[i] # None /\ f[r[i]].status # "error" => ws'[f[r[i]].cwd]
  BY <1>2, <1>3, <1>4
<1> QED BY <1>1, <1>2, <1>4, <1>5, WorkKept

LEMMA ReplacesWork ==
  ASSUME IInv, SlotsInv, WorkInv, IInv', proc # "down", NEW i \in Ids, NEW s, Replaces(i, s),
         ws' = ws \/ (s.status = "error" /\ ws' = [ws EXCEPT ![i] = FALSE]),
         Save \/ ckpt' = ckpt
  PROVE  WorkInv'
<1> DEFINE o == reg[i]
           f == [slot EXCEPT ![o] = s]
<1>1. /\ o \in Objs /\ Live(o) /\ o \in Registered /\ slot[o].sid = i
      /\ slot[o].cwd = i /\ slot[o].status = "provisioning" /\ reg[i] # None
  BY RegFacts DEF Replaces, Registered
<1>2. /\ s \in SlotRec /\ s.cwd = i /\ s.sid = i
      /\ s.destroyer # "no" => slot[o].destroyer # "no"
  BY DEF Replaces
<1>3. /\ f \in [Objs -> SlotRec \cup {None}] /\ reg \in [Ids -> Objs \cup {None}]
      /\ Commit(f, reg)
      /\ \A p \in Objs : f[p] = (IF p = o THEN s ELSE slot[p])
  BY <1>2 DEF IInv, TypeOK, Replaces, Update
<1> HIDE DEF f
<1>4. \A p \in Objs : f[p] # None =>
        /\ Live(p) /\ f[p].cwd = slot[p].cwd
        /\ f[p].destroyer # "no" => slot[p].destroyer # "no" \/ p \in Registered
  BY <1>1, <1>2, <1>3 DEF Live
<1>5. ASSUME NEW y \in Ids, reg[y] # None, f[reg[y]].status # "error"
      PROVE  ws'[f[reg[y]].cwd]
  <2>1. /\ reg[y] \in Objs /\ reg[y] \in Registered /\ slot[reg[y]].sid = y
        /\ slot[reg[y]].cwd \in Ids
    BY <1>5, RegFacts DEF Registered
  <2>2. CASE y = i
    <3>1. f[reg[y]] = s BY <1>1, <1>3, <2>2
    <3>2. ws' = ws BY <1>5, <3>1
    <3>3. ws[i] BY <1>1 DEF WorkInv, WorkspaceOwned
    <3> QED BY <1>2, <3>1, <3>2, <3>3
  <2>3. CASE y # i
    <3>1. reg[y] # o /\ f[reg[y]] = slot[reg[y]] BY <1>1, <1>3, <2>1, <2>3
    <3>2. slot[reg[y]].cwd # i /\ ws[slot[reg[y]].cwd]
      BY <1>1, <1>5, <2>1, <3>1 DEF WorkInv, WorkspaceOwned
    <3> QED BY <2>1, <3>1, <3>2 DEF IInv, TypeOK
  <2> QED BY <2>2, <2>3
<1>6. \A y \in Ids : reg[y] # None => reg[y] = reg[y] OBVIOUS
<1> QED BY <1>3, <1>4, <1>5, WorkKept


LEMMA AddsWork ==
  ASSUME IInv, SlotsInv, WorkInv, IInv', proc # "down",
         NEW c \in Ids, NEW x \in Ids, NEW n \in Objs, NEW s, Adds(c, x, n, s),
         ws'[s.cwd], \A w \in Ids : ws[w] => ws'[w], Save \/ ckpt' = ckpt,
         \A p \in Registered : slot[p].cwd = s.cwd => p = reg[c],
         \A p \in Objs : Live(p) /\ slot[p].cwd = s.cwd => slot[p].destroyer = "no"
  PROVE  WorkInv'
<1>1. PICK f \in [Objs -> SlotRec \cup {None}], g \in [Objs -> SlotRec \cup {None}],
           r \in [Ids -> Objs \cup {None}] :
        /\ Commit(f, r) /\ SameRows(g) /\ OneStepOn(g)
        /\ \A p \in Objs : g[p] # None => g[p].destroyer = slot[p].destroyer
        /\ \A p \in Objs : f[p] = IF p = n THEN s ELSE g[p]
        /\ \A y \in Ids : r[y] = IF y = x THEN n ELSE IF y = c THEN None ELSE reg[y]
  BY DEF Adds, SameRows
<1>2. s \in SlotRec /\ s.destroyer = "no" /\ ~Live(n) BY DEF Adds
<1>3. f[n] = s BY <1>1
<1>4. ASSUME NEW o \in Objs, o # n, f[o] # None
      PROVE  /\ Live(o) /\ f[o].cwd = slot[o].cwd /\ slot[o].cwd \in Ids
             /\ f[o].status # "error" => slot[o].status # "error"
             /\ f[o].destroyer = slot[o].destroyer
  <2>1. f[o] = g[o] /\ g[o] # None BY <1>1, <1>4
  <2>2. Live(o) BY <1>1, <2>1, OneStepFacts
  <2> QED BY <1>1, <2>1, <2>2, OneStepFacts, SlotFacts
<1>5. ASSUME NEW p \in Registered', p # n
      PROVE  /\ p \in Objs /\ p \in Registered /\ f[p] # None /\ p # reg[c]
             /\ slot'[p].cwd = slot[p].cwd /\ slot[p].cwd # s.cwd
             /\ slot'[p].status # "error" => ws'[slot[p].cwd]
  <2>1. PICK y \in Ids : reg'[y] = p /\ p \in Objs BY DEF Registered
  <2>2. r[y] = p /\ p # None /\ slot'[p] # None /\ f[p] # None
    BY <1>1, <2>1, CommitFacts, ConstantsAssumption
  <2>3. y # c /\ reg[y] = p BY <1>1, <1>5, <2>2
  <2>4. p \in Registered /\ p # reg[c] BY <2>1, <2>2, <2>3, RegFacts DEF Registered
  <2>5. slot'[p].cwd = slot[p].cwd /\ (slot'[p].status # "error" => slot[p].status # "error")
    BY <1>1, <1>4, <1>5, <2>1, <2>2, CommitFacts
  <2>6. slot[p].cwd \in Ids BY <1>4, <1>5, <2>1, <2>2
  <2> QED BY <2>1, <2>2, <2>4, <2>5, <2>6 DEF WorkInv, WorkspaceOwned
<1>6. n \in Registered' => slot'[n].cwd = s.cwd
  <2>1. r[x] = n /\ r[x] # None BY <1>1, ConstantsAssumption
  <2> QED BY <1>1, <1>3, <2>1, CommitFacts
<1>7. WorkspaceOwned' BY <1>5, <1>6 DEF WorkInv, WorkspaceOwned
<1>8. DoomedAlone'
  <2>1. ASSUME NEW o \in Objs, slot'[o] # None, slot'[o].destroyer # "no"
        PROVE  /\ o # n /\ Live(o) /\ slot'[o].cwd = slot[o].cwd
               /\ slot[o].destroyer # "no"
    <3>1. f[o] # None /\ f[o].destroyer = slot'[o].destroyer /\ f[o].cwd = slot'[o].cwd
      BY <1>1, <2>1, CommitFacts
    <3>2. o # n BY <1>2, <1>3, <2>1, <3>1
    <3> QED BY <1>4, <2>1, <3>1, <3>2
  <2>2. ASSUME NEW o \in Objs, NEW p \in Registered', slot'[o] # None,
               slot'[o].destroyer # "no", slot'[p].cwd = slot'[o].cwd
        PROVE  p = o
    <3>1. CASE p = n
      <4>1. slot[o].cwd = s.cwd /\ Live(o) /\ slot[o].destroyer # "no"
        BY <1>6, <2>1, <2>2, <3>1
      <4> QED BY <4>1
    <3>2. CASE p # n
      BY <1>5, <2>1, <2>2, <3>2 DEF WorkInv, DoomedAlone, WorkspaceOwned
    <3> QED BY <3>1, <3>2
  <2> QED BY <2>2 DEF DoomedAlone, Live
<1> QED BY <1>7, <1>8, SavedApart DEF WorkInv

LEMMA NewSessionWork ==
  ASSUME IInv, SlotsInv, WorkInv, IInv', NEW i \in Ids, NEW n \in Objs, NEW s,
         Adds(i, i, n, s), s.cwd = i, Unused(i), proc # "down",
         ws' = [ws EXCEPT ![i] = TRUE], Save \/ ckpt' = ckpt
  PROVE  WorkInv'
<1>1. ws'[s.cwd] /\ \A w \in Ids : ws[w] => ws'[w] BY DEF IInv, TypeOK
<1>2. \A p \in Objs : Live(p) => slot[p].cwd # i BY DEF Unused
<1>3. \A p \in Registered : p \in Objs /\ Live(p)
  BY ConstantsAssumption DEF Registered, IInv, RegistryConsistent
<1> QED BY <1>1, <1>2, <1>3, AddsWork

LEMMA MessageRevivesWork ==
  ASSUME Guarded, IInv, SlotsInv, WorkInv, IInv', NEW i \in Ids, MessageRevives(i)
  PROVE  WorkInv'
<1> DEFINE o == SlotOf(i)
           c == slot[o].sid
<1>0. PICK x \in Ids, n \in Objs : \E s : Adds(c, x, n, s) /\ s.cwd = slot[o].cwd
  BY MessageRevivesAdds
<1>1. PICK s : Adds(c, x, n, s) /\ s.cwd = slot[o].cwd
  BY <1>0
<1>2. /\ Wakeable(i) /\ ws[slot[o].cwd] /\ Save /\ ws' = ws
  BY DEF MessageRevives
<1>3. /\ o \in Objs /\ Live(o) /\ c \in Ids /\ reg[c] = o /\ o \in Registered
      /\ slot[o].destroyer = "no" /\ proc # "down"
  BY <1>2, WakeFree DEF Pending, Registered
<1>4. \A p \in Registered : slot[p].cwd = s.cwd => p = reg[c]
  BY <1>1, <1>3 DEF WorkInv, WorkspaceOwned
<1>5. \A p \in Objs : Live(p) /\ slot[p].cwd = s.cwd => slot[p].destroyer = "no"
  BY <1>1, <1>3 DEF WorkInv, DoomedAlone
<1> HIDE DEF c, o
<1> QED BY <1>1, <1>2, <1>3, <1>4, <1>5, AddsWork

(* A session that is still registered, and is no failed clone, has its
   workspace. *)
LEMMA RegisteredWork ==
  ASSUME IInv, SlotsInv, WorkInv, proc # "down", NEW y \in Ids, reg[y] # None
  PROVE  /\ reg[y] \in Registered /\ reg[y] \in Objs /\ slot[reg[y]].sid = y
         /\ slot[reg[y]].cwd \in Ids
         /\ slot[reg[y]].status # "error" => ws[slot[reg[y]].cwd]
BY RegFacts DEF Registered, WorkInv, WorkspaceOwned

LEMMA RecoverWork ==
  ASSUME Guarded, IInv, SlotsInv, WorkInv, IInv', NEW o \in Objs, Recover(o)
  PROVE  WorkInv'
<1> DEFINE old == slot[o].sid
<1>1. /\ Live(o) /\ slot[o].writer = "failed" /\ ws' = ws /\ proc # "down" /\ old \in Ids
  BY Zenon, SlotFacts DEF Recover
<1>2. \A y \in Ids : y # old /\ reg[y] # None /\ slot[reg[y]].status # "error" =>
        ws'[slot[reg[y]].cwd]
  BY <1>1, RegisteredWork
<1>3. CASE Drops(old) /\ ckpt' = ckpt
  BY <1>1, <1>2, <1>3, DropsWork
<1>4. ASSUME reg[old] # None, Save, NEW x \in Ids, NEW n \in Objs, NEW s,
             Adds(old, x, n, s), s.cwd = slot[reg[old]].cwd
      PROVE  WorkInv'
  <2>1. /\ reg[old] = o /\ slot[o].destroyer = "no" /\ slot[o].status # "error"
    BY <1>1, <1>4, FailedOwns
  <2>2. o \in Registered /\ ws[slot[o].cwd] BY <1>1, <1>4, <2>1, RegisteredWork
  <2>3. \A p \in Registered : slot[p].cwd = s.cwd => p = reg[old]
    BY <1>4, <2>1, <2>2 DEF WorkInv, WorkspaceOwned
  <2>4. \A p \in Objs : Live(p) /\ slot[p].cwd = s.cwd => slot[p].destroyer = "no"
    BY <1>4, <2>1, <2>2 DEF WorkInv, DoomedAlone
  <2> HIDE DEF old
  <2> QED BY <1>1, <1>4, <2>1, <2>2, <2>3, <2>4, AddsWork
<1> HIDE DEF old
<1> QED BY <1>3, <1>4, RecoverCases DEF old

LEMMA TeardownWork ==
  ASSUME IInv, SlotsInv, WorkInv, IInv', NEW o \in Objs,
         EndFinishes(o) \/ DestroyFinishes(o)
  PROVE  WorkInv'
<1> DEFINE c == slot[o].sid
<1>1. Live(o) /\ proc # "down" /\ Save BY DEF EndFinishes, DestroyFinishes
<1>2. c \in Ids BY <1>1, SlotFacts
<1>3. CASE EndFinishes(o)
  <2>1. ws' = ws /\ Commit([slot EXCEPT ![o] = [@ EXCEPT !.ender = "no"]], [reg EXCEPT ![c] = None])
    BY <1>3 DEF EndFinishes
  <2>2. Drops(c) BY <1>1, <2>1, StopsWaiting, TeardownDrops
  <2>3. \A y \in Ids : y # c /\ reg[y] # None /\ slot[reg[y]].status # "error" =>
          ws'[slot[reg[y]].cwd]
    BY <1>1, <2>1, RegisteredWork
  <2> QED BY <1>1, <1>2, <2>2, <2>3, DropsWork
<1>4. CASE DestroyFinishes(o)
  <2>1. /\ slot[o].destroyer = "ready" /\ ws' = [ws EXCEPT ![slot[o].cwd] = FALSE]
        /\ Commit([slot EXCEPT ![o] = [@ EXCEPT !.destroyer = "no"]], [reg EXCEPT ![c] = None])
    BY <1>4 DEF DestroyFinishes
  <2>2. Drops(c) BY <1>1, <2>1, StopsWaiting, TeardownDrops
  <2>3. ASSUME NEW y \in Ids, y # c, reg[y] # None, slot[reg[y]].status # "error"
        PROVE  ws'[slot[reg[y]].cwd]
    <3>1. /\ reg[y] \in Registered /\ slot[reg[y]].sid = y /\ ws[slot[reg[y]].cwd]
          /\ slot[reg[y]].cwd \in Ids
      BY <1>1, <2>3, RegisteredWork
    <3>2. reg[y] # o BY <2>3, <3>1
    <3>3. slot[reg[y]].cwd # slot[o].cwd
      BY <1>1, <2>1, <3>1, <3>2 DEF WorkInv, DoomedAlone
    <3> QED BY <2>1, <3>1, <3>3 DEF IInv, TypeOK
  <2> QED BY <1>1, <1>2, <2>2, <2>3, DropsWork
<1> QED BY <1>3, <1>4

LEMMA MessageDropsWork ==
  ASSUME IInv, SlotsInv, WorkInv, IInv', NEW i \in Ids,
         MessagePrunes(i) \/ MessageAtCap(i)
  PROVE  WorkInv'
<1> DEFINE c == slot[SlotOf(i)].sid
<1>1. /\ Wakeable(i) /\ Commit(slot, [reg EXCEPT ![c] = None]) /\ ws' = ws
      /\ Save \/ ckpt' = ckpt
  BY DEF MessagePrunes, MessageAtCap
<1>2. c \in Ids /\ proc # "down" BY <1>1, WakeFree
<1>3. Drops(c) BY <1>1, <1>2, PlainDrops
<1>4. \A y \in Ids : y # c /\ reg[y] # None /\ slot[reg[y]].status # "error" =>
        ws'[slot[reg[y]].cwd]
  BY <1>1, <1>2, RegisteredWork
<1> HIDE DEF c
<1> QED BY <1>1, <1>2, <1>3, <1>4, DropsWork

LEMMA CloneWork ==
  ASSUME IInv, SlotsInv, WorkInv, IInv', NEW i \in Ids, CloneDone(i) \/ CloneFailed(i)
  PROVE  WorkInv'
<1>1. proc # "down" BY DEF CloneDone, CloneFailed, Runs
<1>2. CASE CloneFailed(i)
  <2> DEFINE s == [slot[reg[i]] EXCEPT !.status = "error"]
  <2>1. /\ Replaces(i, s) /\ s.status = "error" /\ ws' = [ws EXCEPT ![i] = FALSE]
        /\ ckpt' = ckpt
    BY <1>2, CloneFailedReplaces
  <2> HIDE DEF s
  <2> QED BY <1>1, <2>1, ReplacesWork
<1>3. CASE CloneDone(i)
  <2> DEFINE s == NewSlot(i, i, "alive", "running", slot[reg[i]].burn)
  <2>1. /\ reg[i] # None /\ slot[reg[i]].cwd = i
        /\ \/ Replaces(i, s) /\ Save /\ ws' = ws
           \/ Drops(i) /\ ws' = [ws EXCEPT ![i] = FALSE] /\ ckpt' = ckpt
    BY <1>3, CloneDoneCases
  <2> HIDE DEF s
  <2>2. ASSUME ws' = [ws EXCEPT ![i] = FALSE],
               NEW y \in Ids, y # i, reg[y] # None, slot[reg[y]].status # "error"
        PROVE  ws'[slot[reg[y]].cwd]
    <3>1. /\ reg[y] \in Registered /\ slot[reg[y]].sid = y /\ ws[slot[reg[y]].cwd]
          /\ slot[reg[y]].cwd \in Ids
          /\ reg[i] \in Registered /\ slot[reg[i]].sid = i
      BY <1>1, <2>1, <2>2, RegisteredWork
    <3>2. slot[reg[y]].cwd # i
      BY <2>1, <2>2, <3>1 DEF WorkInv, WorkspaceOwned
    <3> QED BY <2>2, <3>1, <3>2 DEF IInv, TypeOK
  <2> QED BY <1>1, <2>1, <2>2, ReplacesWork, DropsWork
<1> QED BY <1>2, <1>3

LEMMA StillWork ==
  ASSUME WorkInv, reg' = reg, slot' = slot, ws' = ws, ckpt' = ckpt,
         proc # "down"
  PROVE  WorkInv'
BY DEF WorkInv, WorkspaceOwned, DoomedAlone, CkptApart, Registered, Live

(* A row saved of a part of the registry is that of a registered session. *)
LEMMA PartRows ==
  ASSUME IInv, NEW q \in [Ids -> Objs \cup {None}], NEW a, NEW k,
         k = Saved(q, slot, a),
         \A i \in Ids : q[i] # None => q[i] = reg[i],
         NEW i \in Ids, k[i] # None
  PROVE  /\ reg[i] # None /\ q[i] = reg[i] /\ reg[i] \in Objs /\ reg[i] \in Registered
         /\ slot[reg[i]] # None /\ slot[reg[i]].sid = i
         /\ slot[reg[i]].status # "provisioning"
         /\ k[i].cwd = slot[reg[i]].cwd /\ k[i].burn = slot[reg[i]].burn
         /\ k[i].aliases = {x \in Ids : a[x] = i}
<1>1. /\ q[i] # None /\ slot[q[i]].status # "provisioning"
      /\ k[i] = [cwd |-> slot[q[i]].cwd, burn |-> slot[q[i]].burn,
                 aliases |-> {x \in Ids : a[x] = i}]
  BY DEF Saved
<1>2. /\ reg[i] # None /\ q[i] = reg[i] /\ reg[i] \in Objs /\ reg[i] \in Registered
      /\ slot[reg[i]] # None /\ slot[reg[i]].sid = i
  BY <1>1 DEF IInv, TypeOK, RegistryConsistent, Registered, Live
<1> QED BY <1>1, <1>2

(* After the process died no session is registered; what it left in the
   checkpoint is apart, whichever save was the last. *)
LEMMA DeadWork ==
  ASSUME Dead("down"), CkptApart' PROVE WorkInv'
BY ConstantsAssumption DEF Dead, Registered, WorkInv, WorkspaceOwned, DoomedAlone

LEMMA DyingApart ==
  ASSUME IInv, WorkInv, NEW q \in [Ids -> Objs \cup {None}], NEW a,
         \A i \in Ids : q[i] # None => q[i] = reg[i],
         ckpt' = Saved(q, slot, a)
  PROVE  CkptApart'
<1>1. ASSUME NEW i \in Ids, NEW j \in Ids, ckpt'[i] # None, ckpt'[j] # None,
             ckpt'[i].cwd = ckpt'[j].cwd
      PROVE  i = j
  <2>1. /\ reg[i] \in Registered /\ slot[reg[i]].sid = i /\ ckpt'[i].cwd = slot[reg[i]].cwd
        /\ reg[j] \in Registered /\ slot[reg[j]].sid = j /\ ckpt'[j].cwd = slot[reg[j]].cwd
    BY <1>1, PartRows
  <2>2. reg[i] = reg[j] BY <1>1, <2>1 DEF WorkInv, WorkspaceOwned
  <2> QED BY <2>1, <2>2
<1> QED BY <1>1 DEF CkptApart

LEMMA RecoverDiesApart ==
  ASSUME IInv, WorkInv, NEW o \in Objs, RecoverDies(o)
  PROVE  CkptApart'
<1> DEFINE old == slot[o].sid
           q   == [reg EXCEPT ![old] = None]
           k   == Saved(q, slot, alias)
<1>1. PICK new \in Ids :
        /\ Unused(new)
        /\ ckpt' = [k EXCEPT ![new] =
             [cwd |-> slot[reg[old]].cwd, burn |-> slot[reg[old]].burn, aliases |-> {}]]
  BY RecoverDiesCase
<1>2. old \in Ids /\ reg[old] \in Objs /\ Live(reg[old]) BY RecoverDiesCase
<1>3. reg[old] \in Registered /\ slot[reg[old]].sid = old
  BY <1>2, ConstantsAssumption DEF IInv, RegistryConsistent, Registered
<1>4. /\ q \in [Ids -> Objs \cup {None}]
      /\ \A i \in Ids : q[i] # None => i # old /\ q[i] = reg[i]
  BY <1>2 DEF IInv, TypeOK
<1> HIDE DEF old, q
<1>5. ASSUME NEW i \in Ids, ckpt'[i] # None
      PROVE  \/ i = new /\ ckpt'[i].cwd = slot[reg[old]].cwd
             \/ /\ i # new /\ reg[i] \in Registered /\ slot[reg[i]].sid = i
                /\ i # old /\ ckpt'[i].cwd = slot[reg[i]].cwd
  <2>1. k = [j \in Ids |-> k[j]] BY DEF Saved
  <2>2. CASE i = new
    <3> HIDE DEF k
    <3> QED BY <1>1, <2>1, <2>2
  <2>3. CASE i # new
    <3>1. ckpt'[i] = k[i]
      <4> HIDE DEF k
      <4> QED BY <1>1, <2>1, <2>3
    <3>2. k[i] # None /\ k = Saved(q, slot, alias) BY <1>5, <3>1
    <3> HIDE DEF k
    <3>3. /\ reg[i] # None /\ q[i] = reg[i] /\ reg[i] \in Registered
          /\ slot[reg[i]].sid = i /\ k[i].cwd = slot[reg[i]].cwd
      BY <1>4, <3>2, PartRows
    <3>4. i # old BY <1>4, <3>3
    <3> QED BY <2>3, <3>1, <3>3, <3>4
  <2> QED BY <2>2, <2>3
<1>6. ASSUME NEW i \in Ids, NEW j \in Ids, ckpt'[i] # None, ckpt'[j] # None,
             ckpt'[i].cwd = ckpt'[j].cwd
      PROVE  i = j
  BY <1>3, <1>5, <1>6 DEF WorkInv, WorkspaceOwned
<1> QED BY <1>6 DEF CkptApart

LEMMA DeathsWork ==
  ASSUME IInv, WorkInv,
         Exit \/ Crash \/ \E o \in Objs : RecoverDies(o) \/ DestroyDies(o)
  PROVE  WorkInv'
<1>1. reg \in [Ids -> Objs \cup {None}] BY DEF IInv, TypeOK
<1>2. CASE Exit
  <2>1. ckpt' = Saved(reg, slot, alias) BY <1>2 DEF Exit
  <2> QED BY <1>1, <1>2, <2>1, DyingApart, Deaths, DeadWork
<1>3. CASE Crash
  <2>1. CkptApart' BY <1>3 DEF Crash, WorkInv, CkptApart
  <2> QED BY <1>3, <2>1, Deaths, DeadWork
<1>4. ASSUME NEW o \in Objs, DestroyDies(o) PROVE WorkInv'
  <2> DEFINE q == [reg EXCEPT ![slot[o].sid] = None]
  <2>1. ckpt' = Saved(q, slot, DropAliases(slot[o].sid)) BY <1>4 DEF DestroyDies
  <2>2. q \in [Ids -> Objs \cup {None}] /\ \A i \in Ids : q[i] # None => q[i] = reg[i]
    BY DEF IInv, TypeOK
  <2> HIDE DEF q
  <2> QED BY <1>4, <2>1, <2>2, DyingApart, Deaths, DeadWork
<1>5. ASSUME NEW o \in Objs, RecoverDies(o) PROVE WorkInv'
  BY <1>5, RecoverDiesApart, Deaths, DeadWork
<1> QED BY <1>2, <1>3, <1>4, <1>5

LEMMA BootDiesWork ==
  ASSUME IInv, SlotsInv, WorkInv, BootDies
  PROVE  WorkInv'
<1>1. Registered' = {} /\ \A p \in Objs : slot'[p] = None
  BY ConstantsAssumption DEF BootDies, SlotsInv, IInv, RegistryConsistent, Registered, Live
<1>2. \A i \in Ids : ckpt'[i] # None => ckpt[i] # None /\ ckpt'[i] = ckpt[i]
  BY DEF BootDies
<1> QED BY <1>1, <1>2
        DEF WorkInv, WorkspaceOwned, DoomedAlone, CkptApart, Live

(* A session that moves to another id stays in its workspace. *)
LEMMA SwapsWork ==
  ASSUME IInv, SlotsInv, WorkInv, IInv', NEW o \in Objs, NEW new \in Ids,
         FrameSwapsId(o, new)
  PROVE  WorkInv'
<1>1. PICK s, f, q : Swaps(o, slot[o].sid, new, s, f, q) BY SwapFacts
<1>2. ASSUME NEW p \in Objs, slot'[p] # None
      PROVE  /\ Live(p) /\ slot'[p].cwd = slot[p].cwd /\ slot'[p].status = slot[p].status
             /\ slot'[p].destroyer = slot[p].destroyer
  BY <1>1, <1>2, CommitFacts DEF Swaps, Live
<1>3. ASSUME NEW p \in Registered'
      PROVE  p \in Objs /\ p \in Registered /\ slot'[p] # None
  <2>1. PICK i \in Ids : reg'[i] = p /\ p \in Objs BY DEF Registered
  <2>2. q[i] = p /\ p # None /\ slot'[p] # None
    BY <1>1, <2>1, CommitFacts, ConstantsAssumption DEF Swaps
  <2>3. \E j \in Ids : reg[j] = p BY <1>1, <2>1, <2>2 DEF Swaps
  <2> QED BY <2>1, <2>2, <2>3 DEF Registered
<1>4. WorkspaceOwned' /\ DoomedAlone'
  BY <1>1, <1>2, <1>3 DEF Swaps, WorkInv, WorkspaceOwned, DoomedAlone, Live
<1> QED BY <1>1, <1>4, SavedApart DEF WorkInv, Swaps

(* Boot, by what it leaves: childless slots, one per session it keeps. *)
LEMMA BootFacts ==
  ASSUME IInv, IInv', Boot
  PROVE  /\ \A i \in Ids : ckpt'[i] # None <=> Restorable(i) /\ ~ckpt[i].burn
         /\ \A i \in Ids : reg'[i] # None <=> ckpt'[i] # None
         /\ \A i \in Ids : ckpt'[i] # None => ckpt'[i] = ckpt[i]
         /\ \A i \in Ids : reg'[i] # None =>
              /\ slot'[reg'[i]].cwd = ckpt[i].cwd
              /\ slot'[reg'[i]].status = "dormant" /\ slot'[reg'[i]].burn = FALSE
         /\ \A o \in Objs : slot'[o] # None => slot'[o].destroyer = "no"
         /\ \A w \in Ids : ws[w] /\ (\A b \in Ids : Restorable(b) /\ ckpt[b].burn => ckpt[b].cwd # w)
              => ws'[w]
<1> DEFINE burned == {i \in Ids : BurnsAtBoot(i)}
           back   == {i \in Ids : Restorable(i)} \ burned
<1>1. PICK f \in [back -> Objs] :
        /\ \A i, j \in back : f[i] = f[j] => i = j
        /\ reg' = [i \in Ids |-> IF i \in back THEN f[i] ELSE None]
        /\ slot' = [o \in Objs |->
             IF \E i \in back : f[i] = o
             THEN LET i == CHOOSE x \in back : f[x] = o
                  IN NewSlot(i, ckpt[i].cwd, "dormant", "none", FALSE)
             ELSE None]
  BY DEF Boot
<1>2. /\ ckpt' = [i \in Ids |-> IF i \in back THEN ckpt[i] ELSE None]
      /\ ws' = [i \in Ids |-> ws[i] /\ \A b \in burned : ckpt[b].cwd # i]
  BY DEF Boot
<1>3. /\ back \subseteq Ids
      /\ \A i \in Ids : i \in back <=> Restorable(i) /\ ~ckpt[i].burn
  BY DEF BurnsAtBoot
<1>4. \A i \in Ids : i \in back => ckpt[i] # None BY <1>3 DEF Restorable
<1>5. \A b \in burned : b \in Ids /\ Restorable(b) /\ ckpt[b].burn BY DEF BurnsAtBoot
<1> HIDE DEF back, burned
<1>6. ASSUME NEW o \in Objs, slot'[o] # None
      PROVE  \E i \in back : f[i] = o /\ slot'[o] = NewSlot(i, ckpt[i].cwd, "dormant", "none", FALSE)
  BY <1>1, <1>6
<1>7. ASSUME NEW i \in Ids, reg'[i] # None
      PROVE  /\ i \in back
             /\ slot'[reg'[i]] = NewSlot(i, ckpt[i].cwd, "dormant", "none", FALSE)
  <2>1. i \in back /\ reg'[i] = f[i] /\ f[i] \in Objs BY <1>1, <1>7
  <2>2. slot'[f[i]] # None BY <1>7, <2>1 DEF IInv, RegistryConsistent, Live
  <2>3. PICK j \in back : f[j] = f[i] /\ slot'[f[i]] = NewSlot(j, ckpt[j].cwd, "dormant", "none", FALSE)
    BY <1>6, <2>1, <2>2
  <2>4. j = i BY <1>1, <2>1, <2>3
  <2> QED BY <2>1, <2>3, <2>4
<1>8. \A i \in Ids : i \in back => reg'[i] # None BY <1>1, ConstantsAssumption
<1>9. \A i \in Ids : LET s == NewSlot(i, ckpt[i].cwd, "dormant", "none", FALSE)
                      IN /\ s.cwd = ckpt[i].cwd /\ s.status = "dormant"
                         /\ s.burn = FALSE /\ s.destroyer = "no"
  BY DEF NewSlot
<1>10. \A i \in Ids : reg'[i] # None =>
        /\ slot'[reg'[i]].cwd = ckpt[i].cwd
        /\ slot'[reg'[i]].status = "dormant" /\ slot'[reg'[i]].burn = FALSE
  BY <1>7, <1>9
<1>11. ASSUME NEW o \in Objs, slot'[o] # None PROVE slot'[o].destroyer = "no"
  <2>1. PICK i \in back : slot'[o] = NewSlot(i, ckpt[i].cwd, "dormant", "none", FALSE)
    BY <1>6, <1>11
  <2> QED BY <1>3, <1>9, <2>1
<1>12. \A i \in Ids : ckpt'[i] # None <=> i \in back BY <1>2, <1>4
<1>13. \A i \in Ids : ckpt'[i] # None => ckpt'[i] = ckpt[i] BY <1>2, <1>12
<1>14. \A w \in Ids : ws[w] /\ (\A b \in Ids : Restorable(b) /\ ckpt[b].burn => ckpt[b].cwd # w)
              => ws'[w]
  BY <1>2, <1>5
<1> QED BY <1>3, <1>7, <1>8, <1>10, <1>11, <1>12, <1>13, <1>14

LEMMA BootWork ==
  ASSUME IInv, WorkInv, IInv', Boot
  PROVE  WorkInv'
<1>1. ASSUME NEW i \in Ids, reg'[i] # None
      PROVE  /\ Restorable(i) /\ ~ckpt[i].burn /\ ckpt[i] # None /\ ckpt[i].cwd \in Ids
             /\ slot'[reg'[i]].cwd = ckpt[i].cwd /\ ws'[ckpt[i].cwd]
  <2>1. Restorable(i) /\ ~ckpt[i].burn /\ slot'[reg'[i]].cwd = ckpt[i].cwd
    BY <1>1, BootFacts
  <2>2. ckpt[i] # None /\ ws[ckpt[i].cwd] BY <2>1 DEF Restorable
  <2>3. ckpt[i].cwd \in Ids BY <2>2 DEF IInv, TypeOK, CkptRec
  <2>4. \A b \in Ids : Restorable(b) /\ ckpt[b].burn => ckpt[b].cwd # ckpt[i].cwd
    BY <2>1, <2>2 DEF Restorable, WorkInv, CkptApart
  <2>5. ws'[ckpt[i].cwd] BY <2>2, <2>3, <2>4, BootFacts
  <2> QED BY <2>1, <2>2, <2>3, <2>5
<1>2. \A p \in Registered' : \E i \in Ids : reg'[i] = p /\ reg'[i] # None
  BY ConstantsAssumption DEF Registered
<1>3. WorkspaceOwned'
  <2>1. ASSUME NEW o \in Registered', NEW p \in Registered', slot'[p].cwd = slot'[o].cwd
        PROVE  p = o
    <3>1. PICK i \in Ids, j \in Ids : reg'[i] = o /\ reg'[j] = p /\ o # None /\ p # None
      BY <1>2
    <3>2. i = j BY <1>1, <2>1, <3>1 DEF WorkInv, CkptApart
    <3> QED BY <3>1, <3>2
  <2>2. \A o \in Registered' : ws'[slot'[o].cwd] BY <1>1, <1>2
  <2> QED BY <2>1, <2>2 DEF WorkspaceOwned
<1>4. DoomedAlone' BY BootFacts DEF DoomedAlone, Live
<1>5. CkptApart' BY BootFacts DEF WorkInv, CkptApart
<1> QED BY <1>3, <1>4, <1>5 DEF WorkInv

LEMMA InitWork == Init => WorkInv
BY ConstantsAssumption DEF Init, WorkInv, WorkspaceOwned, DoomedAlone, CkptApart, Registered

LEMMA NextWork ==
  ASSUME Guarded, IInv, SlotsInv, WorkInv, [Next]_vars
  PROVE  WorkInv'
<1>0. IInv' BY NextInv
<1>1. CASE UNCHANGED vars
  BY <1>1 DEF vars, WorkInv, WorkspaceOwned, DoomedAlone, CkptApart, Registered, Live
<1>2. CASE Next
  <2>1. CASE PlainStep BY <1>0, <2>1, PlainWork
  <2>2. CASE Shutdown BY <2>2, StillWork DEF Shutdown, Up
  <2>3. ASSUME NEW i \in Ids, DestroyUnregistered(i) PROVE WorkInv'
    BY <2>3, StillWork DEF DestroyUnregistered, Up
  <2>4. CASE Exit \/ Crash \/ \E o \in Objs : RecoverDies(o) \/ DestroyDies(o)
    BY <2>4, DeathsWork
  <2>5. ASSUME NEW i \in Ids, NEW b \in BOOLEAN, StartNewConversation(i, b) PROVE WorkInv'
    <3>1. /\ Unused(i) /\ Save /\ ws' = [ws EXCEPT ![i] = TRUE] /\ proc # "down"
      BY <2>5 DEF StartNewConversation, Up
    <3> QED BY <1>0, <2>5, <3>1, StartNewConversationAdds, NewSessionWork
  <2>6. ASSUME NEW i \in Ids, NEW b \in BOOLEAN, RegisterProvisioning(i, b) PROVE WorkInv'
    <3>1. /\ Unused(i) /\ ckpt' = ckpt /\ ws' = [ws EXCEPT ![i] = TRUE] /\ proc # "down"
      BY <2>6 DEF RegisterProvisioning, Up
    <3> QED BY <1>0, <2>6, <3>1, RegisterProvisioningAdds, NewSessionWork
  <2> QED BY <1>0, <1>2, <2>1, <2>2, <2>3, <2>4, <2>5, <2>6, StepKinds, CloneWork,
             MessageDropsWork, MessageRevivesWork, RecoverWork, TeardownWork, BootWork,
             BootDiesWork, SwapsWork
<1> QED BY <1>1, <1>2

(* No two sessions share a private workspace, and a session keeps its own:
   cleanupWorkspace runs for a session that has left the registry, and neither
   a recovery nor a boot hands its directory to a second one. *)
THEOREM WorkspacesAreOwned == Guarded => (Spec => []WorkspaceOwned)
<1> SUFFICES ASSUME Guarded PROVE Spec => []WorkspaceOwned
  OBVIOUS
<1>1. Init => IInv /\ SlotsInv /\ WorkInv BY InitInv, InitSlots, InitWork
<1>2. IInv /\ SlotsInv /\ WorkInv /\ [Next]_vars => (IInv /\ SlotsInv /\ WorkInv)'
  BY NextInv, NextSlots, NextWork
<1>3. WorkInv => WorkspaceOwned BY DEF WorkInv
<1> QED BY <1>1, <1>2, <1>3, PTL DEF Spec

-----------------------------------------------------------------------------
(* The checkpoint *)

(* No checkpointed session has the workspace of one that is still cloning,
   and none shares an alias with another. *)
CloningUnsaved ==
  \A i, j \in Ids :
    reg[i] # None /\ slot[reg[i]].status = "provisioning" /\ ckpt[j] # None =>
      ckpt[j].cwd # slot[reg[i]].cwd

CkptAliasesApart ==
  \A i, j \in Ids, x \in Ids :
    ckpt[i] # None /\ ckpt[j] # None /\ x \in ckpt[i].aliases /\ x \in ckpt[j].aliases => i = j

(* While the process runs, a row is the one a save would write, but for a
   failed clone and a session that left with its workspace there. *)
RowsAgree ==
  proc # "down" => \A i \in Ids :
    \/ ckpt[i] = Row(i)
    \/ reg[i] # None /\ slot[reg[i]].status = "error" /\ ckpt[i] = None
    \/ reg[i] = None /\ ckpt[i] # None /\ ws[ckpt[i].cwd]

AgreesInv == RowsAgree /\ CloningUnsaved /\ CkptAliasesApart

(* What CheckpointAgrees says of a step that the process survives. *)
Current ==
  \A i \in Ids :
    \/ ckpt'[i] = Row(i)'
    \/ /\ proc # "down" /\ ckpt'[i] = ckpt[i]
       /\ Row(i)' = Row(i) \/ CloneFails(i) \/ IsRefused(i)

(* The row a save would write for session i. *)
SavedRow(r, f, a, i) ==
  IF r[i] = None \/ f[r[i]].status = "provisioning" THEN None
  ELSE [cwd |-> f[r[i]].cwd, burn |-> f[r[i]].burn, aliases |-> {x \in Ids : a[x] = i}]

LEMMA SavedRows ==
  ASSUME NEW r, NEW f, NEW a, NEW i \in Ids
  PROVE  Saved(r, f, a)[i] = SavedRow(r, f, a, i)
BY DEF Saved, SavedRow

(* After a save all three hold. *)
LEMMA SavedAgrees ==
  ASSUME IInv', Save, WorkspaceOwned'
  PROVE  AgreesInv' /\ Current
<1>1. \A i \in Ids : ckpt'[i] = SavedRow(reg', slot', alias', i)
  BY SavedRows DEF Save
<1>2. RowsAgree' BY <1>1, SavedRows DEF Save, RowsAgree, Row
<1>3. ASSUME NEW i \in Ids, ckpt'[i] # None
      PROVE  /\ reg'[i] # None /\ reg'[i] \in Registered'
             /\ slot'[reg'[i]].status # "provisioning" /\ ckpt'[i].cwd = slot'[reg'[i]].cwd
             /\ ckpt'[i].aliases = {x \in Ids : alias'[x] = i}
  BY <1>1, <1>3 DEF SavedRow, IInv, TypeOK, Registered
<1>4. ASSUME NEW i \in Ids, NEW j \in Ids, reg'[i] # None,
             slot'[reg'[i]].status = "provisioning", ckpt'[j] # None
      PROVE  ckpt'[j].cwd # slot'[reg'[i]].cwd
  <2>1. reg'[i] \in Registered' BY <1>4 DEF IInv, TypeOK, Registered
  <2>2. reg'[j] # reg'[i] BY <1>3, <1>4
  <2> QED BY <1>3, <1>4, <2>1, <2>2 DEF WorkspaceOwned
<1>5. CkptAliasesApart' BY <1>3 DEF CkptAliasesApart
<1>6. Current BY <1>1, SavedRows DEF Current, Row
<1> QED BY <1>2, <1>4, <1>5, <1>6 DEF AgreesInv, CloningUnsaved

(* A step that saves nothing keeps them when every row stays what it was, is
   one a save leaves out, or is gone with its workspace still there. *)
LEMMA AgreesKept ==
  ASSUME IInv, AgreesInv, IInv', proc # "down", ckpt' = ckpt,
         NEW f \in [Objs -> SlotRec \cup {None}],
         NEW r \in [Ids -> Objs \cup {None}], Commit(f, r),
         \A i \in Ids :
           \/ /\ SavedRow(r, f, alias', i) = SavedRow(reg, slot, alias, i)
              /\ reg[i] # None /\ slot[reg[i]].status = "error" =>
                   r[i] # None /\ f[r[i]].status = "error"
              /\ reg[i] = None => r[i] = None
           \/ /\ r[i] = None /\ (ckpt[i] = None \/ ws'[ckpt[i].cwd])
              /\ SavedRow(reg, slot, alias, i) = None \/ IsRefused(i)
           \/ /\ r[i] # None /\ ckpt[i] = None
              /\ \/ f[r[i]].status = "error" /\ CloneFails(i)
                 \/ f[r[i]].status = "provisioning" /\ SavedRow(reg, slot, alias, i) = None,
         \A i \in Ids : ckpt[i] # None /\ ws[ckpt[i].cwd] => ws'[ckpt[i].cwd],
         \A i, j \in Ids :
           r[i] # None /\ f[r[i]].status = "provisioning" /\ ckpt[j] # None =>
             ckpt[j].cwd # f[r[i]].cwd
  PROVE  AgreesInv' /\ Current
<1>1. reg' = r BY DEF Commit
<1>2. \A i \in Ids : r[i] # None =>
        /\ slot'[r[i]].status = f[r[i]].status /\ slot'[r[i]].cwd = f[r[i]].cwd
        /\ slot'[r[i]].burn = f[r[i]].burn
  BY CommitFacts
<1>3. \A i \in Ids : SavedRow(reg', slot', alias', i) = SavedRow(r, f, alias', i)
  BY <1>1, <1>2 DEF SavedRow
<1>4. ASSUME NEW i \in Ids
      PROVE  \/ ckpt'[i] = SavedRow(reg', slot', alias', i)
             \/ reg'[i] # None /\ slot'[reg'[i]].status = "error" /\ ckpt'[i] = None
             \/ reg'[i] = None /\ ckpt'[i] # None /\ ws'[ckpt'[i].cwd]
  <2>1. \/ ckpt[i] = SavedRow(reg, slot, alias, i)
        \/ reg[i] # None /\ slot[reg[i]].status = "error" /\ ckpt[i] = None
        \/ reg[i] = None /\ ckpt[i] # None /\ ws[ckpt[i].cwd]
    BY SavedRows DEF AgreesInv, RowsAgree, Row
  <2>2. CASE /\ SavedRow(r, f, alias', i) = SavedRow(reg, slot, alias, i)
             /\ reg[i] # None /\ slot[reg[i]].status = "error" =>
                  r[i] # None /\ f[r[i]].status = "error"
             /\ reg[i] = None => r[i] = None
    BY <1>1, <1>2, <1>3, <2>1, <2>2
  <2>3. CASE r[i] = None /\ (ckpt[i] = None \/ ws'[ckpt[i].cwd])
    BY <1>1, <2>3 DEF SavedRow
  <2>4. CASE r[i] # None /\ ckpt[i] = None /\ f[r[i]].status \in {"error", "provisioning"}
    BY <1>1, <1>2, <2>4 DEF SavedRow
  <2> QED BY <2>2, <2>3, <2>4
<1>8. ASSUME NEW i \in Ids PROVE Row(i)' = Row(i) \/ CloneFails(i) \/ IsRefused(i)
  <2>1. Row(i)' = SavedRow(r, f, alias', i) /\ Row(i) = SavedRow(reg, slot, alias, i)
    BY <1>3, SavedRows DEF Row
  <2>2. r[i] = None \/ f[r[i]].status = "provisioning" => SavedRow(r, f, alias', i) = None
    BY DEF SavedRow
  <2> QED BY <2>1, <2>2
<1>9. Current BY <1>8 DEF Current
<1>5. RowsAgree' BY <1>4, SavedRows DEF RowsAgree, Row
<1>6. CloningUnsaved' BY <1>1, <1>2 DEF CloningUnsaved
<1>7. CkptAliasesApart' BY DEF AgreesInv, CkptAliasesApart
<1> QED BY <1>5, <1>6, <1>7, <1>9 DEF AgreesInv

(* The same, for a step that at most takes session c out. *)
LEMMA RowsKept ==
  ASSUME IInv, SlotsInv, AgreesInv, IInv', proc # "down", ckpt' = ckpt, ws' = ws,
         NEW c \in Ids, NEW f \in [Objs -> SlotRec \cup {None}],
         NEW r \in [Ids -> Objs \cup {None}], Commit(f, r), SameRows(f),
         \A y \in Ids : r[y] = reg[y] \/ (y = c /\ r[y] = None),
         \A y \in Ids : y # c => \A x \in Ids : alias'[x] = y <=> alias[x] = y,
         \/ /\ r[c] = None /\ (ckpt[c] = None \/ ws[ckpt[c].cwd])
            /\ SavedRow(reg, slot, alias, c) = None \/ IsRefused(c)
         \/ r[c] = reg[c] /\ alias' = alias
  PROVE  AgreesInv' /\ Current
<1>1. ASSUME NEW y \in Ids, r[y] # None
      PROVE  /\ r[y] = reg[y] /\ reg[y] \in Objs /\ f[r[y]].status = slot[reg[y]].status
             /\ f[r[y]].burn = slot[reg[y]].burn /\ f[r[y]].cwd = slot[reg[y]].cwd
  <2>1. r[y] = reg[y] /\ reg[y] \in Objs /\ f[r[y]] # None BY <1>1, CommitFacts
  <2> QED BY <2>1, OneStepFacts DEF SameRows
<1>2. \A i \in Ids :
        \/ /\ SavedRow(r, f, alias', i) = SavedRow(reg, slot, alias, i)
           /\ reg[i] # None /\ slot[reg[i]].status = "error" =>
                r[i] # None /\ f[r[i]].status = "error"
           /\ reg[i] = None => r[i] = None
        \/ /\ r[i] = None /\ (ckpt[i] = None \/ ws'[ckpt[i].cwd])
           /\ SavedRow(reg, slot, alias, i) = None \/ IsRefused(i)
  <2>1. ASSUME NEW i \in Ids, r[i] = reg[i], \A x \in Ids : alias'[x] = i <=> alias[x] = i
        PROVE  /\ SavedRow(r, f, alias', i) = SavedRow(reg, slot, alias, i)
               /\ reg[i] # None /\ slot[reg[i]].status = "error" =>
                    r[i] # None /\ f[r[i]].status = "error"
               /\ reg[i] = None => r[i] = None
    <3>1. {x \in Ids : alias'[x] = i} = {x \in Ids : alias[x] = i} BY <2>1
    <3> QED BY <1>1, <2>1, <3>1 DEF SavedRow
  <2>2. \A i \in Ids : i # c => r[i] = reg[i] /\ \A x \in Ids : alias'[x] = i <=> alias[x] = i
    OBVIOUS
  <2> QED BY <2>1, <2>2
<1>3. \A i, j \in Ids :
        r[i] # None /\ f[r[i]].status = "provisioning" /\ ckpt[j] # None =>
          ckpt[j].cwd # f[r[i]].cwd
  BY <1>1 DEF AgreesInv, CloningUnsaved
<1> QED BY <1>2, <1>3, AgreesKept

LEMMA PlainAgrees ==
  ASSUME IInv, SlotsInv, AgreesInv, IInv', WorkspaceOwned', PlainStep
  PROVE  AgreesInv' /\ Current
<1>1. PICK f \in [Objs -> SlotRec \cup {None}] :
        /\ Commit(f, reg) /\ OneStepOn(f)
        /\ Save \/ (ckpt' = ckpt /\ \A p \in Objs : Live(p) => f[p].burn = slot[p].burn)
  BY DEF PlainStep, OneStepOn
<1>2. proc # "down" /\ ws' = ws /\ alias' = alias BY DEF PlainStep
<1>3. CASE Save BY <1>3, SavedAgrees
<1>4. CASE ckpt' = ckpt /\ \A p \in Objs : Live(p) => f[p].burn = slot[p].burn
  <2>1. reg \in [Ids -> Objs \cup {None}] BY DEF IInv, TypeOK
  <2>2. ASSUME NEW y \in Ids, reg[y] # None
        PROVE  /\ f[reg[y]].cwd = slot[reg[y]].cwd /\ f[reg[y]].burn = slot[reg[y]].burn
               /\ f[reg[y]].status = "error" <=> slot[reg[y]].status = "error"
               /\ f[reg[y]].status = "provisioning" <=> slot[reg[y]].status = "provisioning"
    <3>1. reg[y] \in Objs /\ f[reg[y]] # None BY <1>1, <2>1, <2>2, CommitFacts
    <3> QED BY <1>1, <1>4, <3>1, OneStepFacts
  <2>3. \A i \in Ids : SavedRow(reg, f, alias', i) = SavedRow(reg, slot, alias, i)
    BY <1>2, <2>2 DEF SavedRow
  <2>4. \A i, j \in Ids :
          reg[i] # None /\ f[reg[i]].status = "provisioning" /\ ckpt[j] # None =>
            ckpt[j].cwd # f[reg[i]].cwd
    BY <2>2 DEF AgreesInv, CloningUnsaved
  <2> QED BY <1>1, <1>2, <1>4, <2>1, <2>2, <2>3, <2>4, AgreesKept
<1> QED BY <1>1, <1>3, <1>4

LEMMA RegisterProvisioningAgrees ==
  ASSUME IInv, SlotsInv, AgreesInv, IInv', NEW i \in Ids, NEW b \in BOOLEAN,
         RegisterProvisioning(i, b)
  PROVE  AgreesInv' /\ Current
<1> DEFINE s == NewSlot(i, i, "provisioning", "none", b)
<1>1. PICK n \in Objs :
        ~Live(n) /\ Commit([slot EXCEPT ![n] = s], [reg EXCEPT ![i] = n])
  BY DEF RegisterProvisioning
<1>2. /\ proc # "down" /\ ckpt' = ckpt /\ alias' = alias /\ ws' = [ws EXCEPT ![i] = TRUE]
      /\ ckpt[i] = None /\ ~ws[i] /\ reg[i] = None /\ \A p \in Objs : Live(p) => slot[p].cwd # i
  BY DEF RegisterProvisioning, Up, Unused
<1>3. s \in SlotRec BY NewSlotType DEF Statuses, ChildStates
<1>4. s.status = "provisioning" /\ s.cwd = i BY DEF NewSlot
<1> HIDE DEF s
<1> DEFINE f == [slot EXCEPT ![n] = s]
           r == [reg EXCEPT ![i] = n]
<1>5. /\ f \in [Objs -> SlotRec \cup {None}] /\ r \in [Ids -> Objs \cup {None}]
      /\ Commit(f, r) /\ f[n] = s /\ r[i] = n
      /\ \A p \in Objs : p # n => f[p] = slot[p]
      /\ \A y \in Ids : y # i => r[y] = reg[y]
  BY <1>1, <1>3 DEF IInv, TypeOK
<1> HIDE DEF f, r
<1>6. \A y \in Ids : y # i /\ r[y] # None => reg[y] # n /\ f[r[y]] = slot[reg[y]]
  BY <1>1, <1>5, RegFacts
<1>7. ASSUME NEW y \in Ids
      PROVE  \/ /\ SavedRow(r, f, alias', y) = SavedRow(reg, slot, alias, y)
                /\ reg[y] # None /\ slot[reg[y]].status = "error" =>
                     r[y] # None /\ f[r[y]].status = "error"
                /\ reg[y] = None => r[y] = None
             \/ /\ r[y] # None /\ ckpt[y] = None
                /\ f[r[y]].status = "provisioning" /\ SavedRow(reg, slot, alias, y) = None
  <2>1. CASE y = i BY <1>2, <1>4, <1>5, <2>1, ConstantsAssumption DEF SavedRow
  <2>2. CASE y # i BY <1>2, <1>5, <1>6, <2>2 DEF SavedRow
  <2> QED BY <2>1, <2>2
<1>8. ASSUME NEW j \in Ids, ckpt[j] # None
      PROVE  /\ ckpt[j].cwd # i /\ ckpt[j].cwd \in Ids
             /\ ws[ckpt[j].cwd] => ws'[ckpt[j].cwd]
  <2>1. ckpt[j].cwd \in Ids BY <1>8 DEF IInv, TypeOK, CkptRec
  <2>2. \/ ckpt[j] = SavedRow(reg, slot, alias, j)
        \/ ws[ckpt[j].cwd]
    BY <1>2, <1>8, SavedRows DEF AgreesInv, RowsAgree, Row
  <2>3. CASE ckpt[j] = SavedRow(reg, slot, alias, j)
    <3>1. reg[j] # None /\ ckpt[j].cwd = slot[reg[j]].cwd
      BY <1>8, <2>3 DEF SavedRow
    <3> QED BY <1>2, <2>1, <3>1, RegFacts DEF IInv, TypeOK
  <2> QED BY <1>2, <2>1, <2>2, <2>3 DEF IInv, TypeOK
<1>9. \A y, j \in Ids :
        r[y] # None /\ f[r[y]].status = "provisioning" /\ ckpt[j] # None =>
          ckpt[j].cwd # f[r[y]].cwd
  <2>1. ASSUME NEW y \in Ids, NEW j \in Ids, r[y] # None,
               f[r[y]].status = "provisioning", ckpt[j] # None
        PROVE  ckpt[j].cwd # f[r[y]].cwd
    <3>1. CASE y = i BY <1>4, <1>5, <1>8, <2>1, <3>1
    <3>2. CASE y # i BY <1>5, <1>6, <2>1, <3>2 DEF AgreesInv, CloningUnsaved
    <3> QED BY <3>1, <3>2
  <2> QED BY <2>1
<1> QED BY <1>2, <1>5, <1>7, <1>8, <1>9, AgreesKept

(* The end of a clone that leaves no running session: nothing is saved, and
   nothing was. *)
Loses(i, f, r) ==
  /\ i \in Ids /\ reg[i] # None /\ slot[reg[i]].status = "provisioning" /\ slot[reg[i]].cwd = i
  /\ f \in [Objs -> SlotRec \cup {None}] /\ r \in [Ids -> Objs \cup {None}]
  /\ \A y \in Ids : y # i /\ r[y] # None => f[r[y]] = slot[reg[y]]
  /\ \A y \in Ids : y # i => r[y] = reg[y]
  /\ r[i] = None \/ (r[i] = reg[i] /\ f[r[i]].status = "error")

LEMMA CloneLostAgrees ==
  ASSUME IInv, SlotsInv, WorkInv, AgreesInv, IInv', NEW i, NEW f, NEW r,
         Loses(i, f, r), Commit(f, r),
         proc # "down", ckpt' = ckpt, alias' = alias, ws' = [ws EXCEPT ![i] = FALSE]
  PROVE  AgreesInv' /\ Current
<1> USE DEF Loses
<1>1. ckpt[i] = None
  <2>1. SavedRow(reg, slot, alias, i) = None BY DEF SavedRow
  <2>2. Saved(reg, slot, alias)[i] = None BY <2>1, SavedRows
  <2> QED BY <2>2 DEF AgreesInv, RowsAgree, Row
<1>2. \A y \in Ids :
        \/ /\ SavedRow(r, f, alias', y) = SavedRow(reg, slot, alias, y)
           /\ reg[y] # None /\ slot[reg[y]].status = "error" =>
                r[y] # None /\ f[r[y]].status = "error"
           /\ reg[y] = None => r[y] = None
        \/ /\ r[y] = None /\ (ckpt[y] = None \/ ws'[ckpt[y].cwd])
           /\ SavedRow(reg, slot, alias, y) = None
        \/ /\ r[y] # None /\ ckpt[y] = None /\ f[r[y]].status = "error"
           /\ CloneFails(y)
  <2>1. ASSUME NEW y \in Ids, y # i
        PROVE  /\ SavedRow(r, f, alias', y) = SavedRow(reg, slot, alias, y)
               /\ reg[y] # None /\ slot[reg[y]].status = "error" =>
                    r[y] # None /\ f[r[y]].status = "error"
               /\ reg[y] = None => r[y] = None
    BY <2>1 DEF SavedRow
  <2>2. r[i] # None => CloneFails(i) BY CommitFacts DEF CloneFails
  <2>3. SavedRow(reg, slot, alias, i) = None BY DEF SavedRow
  <2> QED BY <1>1, <2>1, <2>2, <2>3
<1>3. ASSUME NEW j \in Ids, ckpt[j] # None, ws[ckpt[j].cwd]
      PROVE  ws'[ckpt[j].cwd]
  <2>1. ckpt[j].cwd # i BY <1>3 DEF AgreesInv, CloningUnsaved
  <2>2. ckpt[j].cwd \in Ids BY <1>3 DEF IInv, TypeOK, CkptRec
  <2> QED BY <1>3, <2>1, <2>2 DEF IInv, TypeOK
<1>4. \A y, j \in Ids :
        r[y] # None /\ f[r[y]].status = "provisioning" /\ ckpt[j] # None =>
          ckpt[j].cwd # f[r[y]].cwd
  BY DEF AgreesInv, CloningUnsaved
<1> QED BY <1>2, <1>3, <1>4, AgreesKept

LEMMA CloneAgrees ==
  ASSUME IInv, SlotsInv, WorkInv, AgreesInv, IInv', WorkspaceOwned', NEW i \in Ids,
         CloneDone(i) \/ CloneFailed(i)
  PROVE  AgreesInv' /\ Current
<1>1. proc # "down" /\ alias' = alias BY DEF CloneDone, CloneFailed, Runs
<1>2. CASE CloneFailed(i)
  <2> DEFINE o == reg[i]
             s == [slot[o] EXCEPT !.status = "error"]
             f == [slot EXCEPT ![o] = s]
  <2>1. /\ Replaces(i, s) /\ s.status = "error" /\ ws' = [ws EXCEPT ![i] = FALSE]
        /\ ckpt' = ckpt
    BY <1>2, CloneFailedReplaces
  <2> HIDE DEF s
  <2>2. /\ reg[i] # None /\ slot[o].status = "provisioning" /\ slot[o].cwd = i
        /\ s \in SlotRec /\ Update(o, s)
    BY <2>1 DEF Replaces
  <2>3. o \in Objs /\ slot[o].sid = i BY <2>2, RegFacts
  <2>4. /\ f \in [Objs -> SlotRec \cup {None}] /\ reg \in [Ids -> Objs \cup {None}]
        /\ Commit(f, reg) /\ f[o] = s /\ \A p \in Objs : p # o => f[p] = slot[p]
    BY <2>2, <2>3 DEF IInv, TypeOK, Update
  <2> HIDE DEF f
  <2>5. \A y \in Ids : y # i /\ reg[y] # None => f[reg[y]] = slot[reg[y]]
    BY <2>3, <2>4, RegFacts
  <2>6. Loses(i, f, reg) BY <2>1, <2>2, <2>4, <2>5 DEF Loses
  <2> QED BY <1>1, <2>1, <2>4, <2>6, CloneLostAgrees
<1>3. CASE CloneDone(i)
  <2> DEFINE without == [reg EXCEPT ![i] = None]
  <2>1. CASE Save BY <2>1, SavedAgrees
  <2>2. CASE Commit(slot, without) /\ ws' = [ws EXCEPT ![i] = FALSE] /\ ckpt' = ckpt
    <3>1. reg[i] # None /\ slot[reg[i]].status = "provisioning" /\ slot[reg[i]].cwd = i
      BY <1>3, CloneDoneCases
    <3>2. /\ slot \in [Objs -> SlotRec \cup {None}] /\ without \in [Ids -> Objs \cup {None}]
          /\ without[i] = None /\ \A y \in Ids : y # i => without[y] = reg[y]
      BY DEF IInv, TypeOK
    <3> HIDE DEF without
    <3>3. Loses(i, slot, without) BY <3>1, <3>2 DEF Loses
    <3> QED BY <1>1, <2>2, <3>3, CloneLostAgrees
  <2> QED BY <1>3, <2>1, <2>2 DEF CloneDone
<1> QED BY <1>2, <1>3

(* A revive that the cap refuses after the wake re-keyed the session. *)
LEMMA MessageAtCapAgrees ==
  ASSUME IInv, SlotsInv, AgreesInv, IInv', NEW i \in Ids, MessageAtCap(i)
  PROVE  AgreesInv' /\ Current
<1> DEFINE c == slot[SlotOf(i)].sid
           q == [reg EXCEPT ![c] = None]
<1>1. PICK x \in ResumableIds(c) \ {c} : Commit(slot, q) /\ alias' = Rekeyed(c, x)
  BY DEF MessageAtCap
<1>2. /\ Wakeable(i) /\ ws[slot[reg[c]].cwd] /\ ckpt' = ckpt /\ ws' = ws
  BY DEF MessageAtCap
<1>3. /\ c \in Ids /\ reg[c] = SlotOf(i) /\ reg[c] # None /\ alias[c] = None
      /\ proc # "down" /\ slot[reg[c]].status # "provisioning"
  BY <1>2, WakeFree DEF Wakeable, Writable
<1>4. x \in Ids /\ x # c /\ alias[x] = c BY <1>1, <1>3 DEF ResumableIds, AliasesOf
<1>5. reg[x] = None BY <1>3, <1>4, ConstantsAssumption DEF IInv, AliasesFlat
<1>6. ckpt[c] = None \/ ws[ckpt[c].cwd]
  <2>1. \/ ckpt[c] = SavedRow(reg, slot, alias, c)
        \/ ckpt[c] = None \/ ws[ckpt[c].cwd]
    BY SavedRows, <1>3 DEF AgreesInv, RowsAgree, Row
  <2> QED BY <1>2, <1>3, <2>1 DEF SavedRow
<1>12. IsRefused(c)
  <2>1. AtCap(q) /\ reg' = q BY <1>1 DEF MessageAtCap, Commit
  <2>2. q = [y \in Ids |-> IF reg[y] = reg[c] THEN None ELSE reg[y]]
    <3> HIDE DEF c
    <3>1. \A y \in Ids : reg[y] = reg[c] <=> y = c BY <1>3, RegFacts
    <3> QED BY <1>3, <3>1 DEF IInv, TypeOK
  <2>3. "ready" \notin {slot[reg[c]].ender, slot[reg[c]].destroyer}
    BY <1>2, <1>3, WakeFree DEF Wakeable, Writable, Up, Quiet, Ready
  <2>4. reg'[c] = None BY <1>3, <2>1 DEF IInv, TypeOK
  <2> QED BY <1>2, <1>3, <2>1, <2>2, <2>3, <2>4 DEF IsRefused, FilledByOthers
<1> HIDE DEF c
<1>7. ASSUME NEW y \in Ids, y # c, y # x, NEW z \in Ids
      PROVE  alias'[z] = y <=> alias[z] = y
  BY <1>1, <1>3, <1>4, <1>7, ConstantsAssumption DEF Rekeyed
<1>8. \A y \in Ids : q[y] = IF y = c THEN None ELSE reg[y] BY DEF IInv, TypeOK
<1>9. /\ slot \in [Objs -> SlotRec \cup {None}] /\ q \in [Ids -> Objs \cup {None}]
      /\ Commit(slot, q)
  BY <1>1 DEF IInv, TypeOK
<1> HIDE DEF q
<1>10. ASSUME NEW y \in Ids
       PROVE  \/ /\ SavedRow(q, slot, alias', y) = SavedRow(reg, slot, alias, y)
                 /\ reg[y] # None /\ slot[reg[y]].status = "error" =>
                      q[y] # None /\ slot[q[y]].status = "error"
                 /\ reg[y] = None => q[y] = None
              \/ q[y] = None /\ (ckpt[y] = None \/ ws'[ckpt[y].cwd]) /\ IsRefused(y)
  <2>1. CASE y = c BY <1>2, <1>6, <1>8, <1>12, <2>1
  <2>2. CASE y = x BY <1>4, <1>5, <1>8, <2>2 DEF SavedRow
  <2>3. CASE y # c /\ y # x
    <3>1. {z \in Ids : alias'[z] = y} = {z \in Ids : alias[z] = y} BY <1>7, <2>3
    <3> QED BY <1>8, <2>3, <3>1 DEF SavedRow
  <2> QED BY <2>1, <2>2, <2>3
<1>11. \A y, j \in Ids :
         q[y] # None /\ slot[q[y]].status = "provisioning" /\ ckpt[j] # None =>
           ckpt[j].cwd # slot[q[y]].cwd
  BY <1>8 DEF AgreesInv, CloningUnsaved
<1> QED BY <1>2, <1>3, <1>9, <1>10, <1>11, AgreesKept

LEMMA RecoverAgrees ==
  ASSUME Guarded, IInv, SlotsInv, WorkInv, AgreesInv, IInv', WorkspaceOwned',
         NEW o \in Objs, Recover(o)
  PROVE  AgreesInv' /\ Current
<1> DEFINE c == slot[o].sid
           q == [reg EXCEPT ![c] = None]
<1>1. /\ Live(o) /\ slot[o].writer = "failed" /\ ws' = ws /\ proc # "down" /\ c \in Ids
  BY Zenon, SlotFacts DEF Recover
<1>2. CASE Save BY <1>2, SavedAgrees
<1>3. CASE /\ Drops(c) /\ alias' = alias /\ ckpt' = ckpt
           /\ reg[c] # None => AtCap(q)
  <2>1. PICK f \in [Objs -> SlotRec \cup {None}], r \in [Ids -> Objs \cup {None}] :
          /\ Commit(f, r) /\ SameRows(f)
          /\ \A y \in Ids : r[y] = IF y = c THEN None ELSE reg[y]
    BY <1>3 DEF Drops
  <2>2. r[c] = None BY <1>1, <2>1
  <2>3. \/ /\ r[c] = None /\ (ckpt[c] = None \/ ws[ckpt[c].cwd])
           /\ IsRefused(c)
        \/ r[c] = reg[c]
    <3>1. CASE reg[c] = None BY <2>2, <3>1
    <3>2. CASE reg[c] # None
      <4>1. reg[c] = o /\ slot[o].status \notin {"provisioning", "error"}
        BY <1>1, <3>2, FailedOwns
      <4>2. ws[slot[o].cwd] BY <1>1, <3>2, <4>1, RegisteredWork
      <4>3. \/ ckpt[c] = SavedRow(reg, slot, alias, c)
            \/ ckpt[c] = None \/ ws[ckpt[c].cwd]
        BY <1>1, SavedRows DEF AgreesInv, RowsAgree, Row
      <4>4. ckpt[c] = None \/ ws[ckpt[c].cwd] BY <4>1, <4>2, <4>3 DEF SavedRow
      <4>5. AtCap(q) BY Zenon, <1>3, <3>2
      <4>6. q = [y \in Ids |-> IF reg[y] = reg[c] THEN None ELSE reg[y]]
        <5>1. \A y \in Ids : reg[y] = reg[c] <=> y = c BY <1>1, <3>2, RegFacts
        <5>2. q = [y \in Ids |-> IF y = c THEN None ELSE reg[y]] BY DEF IInv, TypeOK
        <5> QED BY <5>1, <5>2
      <4>7. reg'[c] = None BY <2>1, <2>2 DEF Commit
      <4>8. "ready" \notin {slot[o].ender, slot[o].destroyer} BY <1>1, <3>2, FailedOwns
      <4>9. IsRefused(c)
        BY <3>2, <4>1, <4>2, <4>5, <4>6, <4>7, <4>8 DEF IsRefused, FilledByOthers
      <4> QED BY <2>2, <4>4, <4>9
    <3> QED BY <3>1, <3>2
  <2> HIDE DEF c
  <2> QED BY <1>1, <1>3, <2>1, <2>3, RowsKept
<1> QED BY <1>2, <1>3, RecoverCases

LEMMA StillAgrees ==
  ASSUME AgreesInv, reg' = reg, slot' = slot, alias' = alias, ws' = ws, ckpt' = ckpt,
         proc # "down"
  PROVE  AgreesInv' /\ Current
BY DEF AgreesInv, RowsAgree, CloningUnsaved, CkptAliasesApart, Current, Row, Saved

LEMMA DeadAgrees ==
  ASSUME Dead("down"), CkptAliasesApart' PROVE AgreesInv'
BY DEF Dead, AgreesInv, RowsAgree, CloningUnsaved

LEMMA DeathsAgree ==
  ASSUME IInv, AgreesInv,
         Exit \/ Crash \/ \E o \in Objs : RecoverDies(o) \/ DestroyDies(o)
  PROVE  AgreesInv'
<1>1. CASE Crash
  <2>1. CkptAliasesApart' BY <1>1 DEF Crash, AgreesInv, CkptAliasesApart
  <2> QED BY <1>1, <2>1, Deaths, DeadAgrees
<1>2. ASSUME NEW a, \A i \in Ids : ckpt'[i] # None => ckpt'[i].aliases \subseteq {x \in Ids : a[x] = i}
      PROVE  CkptAliasesApart'
  BY <1>2 DEF CkptAliasesApart
<1>3. CASE Exit
  <2>1. \A i \in Ids : ckpt'[i] # None => ckpt'[i].aliases \subseteq {x \in Ids : alias[x] = i}
    BY <1>3 DEF Exit, Saved
  <2> QED BY <1>2, <1>3, <2>1, Deaths, DeadAgrees
<1>4. ASSUME NEW o \in Objs, DestroyDies(o) PROVE AgreesInv'
  <2> DEFINE a == DropAliases(slot[o].sid)
  <2>1. ckpt' = Saved([reg EXCEPT ![slot[o].sid] = None], slot, a) BY <1>4 DEF DestroyDies
  <2> HIDE DEF a
  <2>2. \A i \in Ids : ckpt'[i] # None => ckpt'[i].aliases \subseteq {x \in Ids : a[x] = i}
    BY <2>1 DEF Saved
  <2> QED BY <1>2, <1>4, <2>2, Deaths, DeadAgrees
<1>5. ASSUME NEW o \in Objs, RecoverDies(o) PROVE AgreesInv'
  <2> DEFINE k == Saved([reg EXCEPT ![slot[o].sid] = None], slot, alias)
             row == [cwd |-> slot[reg[slot[o].sid]].cwd,
                     burn |-> slot[reg[slot[o].sid]].burn, aliases |-> {}]
  <2>1. PICK new \in Ids : ckpt' = [k EXCEPT ![new] = row] BY <1>5, RecoverDiesCase
  <2>2. /\ k = [i \in Ids |-> k[i]]
        /\ \A i \in Ids : k[i] # None => k[i].aliases \subseteq {x \in Ids : alias[x] = i}
    BY DEF Saved
  <2>3. row.aliases = {} OBVIOUS
  <2> HIDE DEF k, row
  <2>4. \A i \in Ids : ckpt'[i] # None => ckpt'[i].aliases \subseteq {x \in Ids : alias[x] = i}
    BY <2>1, <2>2, <2>3
  <2> QED BY <1>2, <1>5, <2>4, Deaths, DeadAgrees
<1> QED BY <1>1, <1>3, <1>4, <1>5

LEMMA BootDiesAgrees ==
  ASSUME AgreesInv, SlotsInv, BootDies, IInv
  PROVE  AgreesInv'
<1>1. \A i \in Ids : reg'[i] = None
  BY DEF BootDies, SlotsInv, IInv, TypeOK, RegistryConsistent, Live
<1>2. proc' = "down" BY DEF BootDies
<1>3. \A i \in Ids : ckpt'[i] # None => ckpt[i] # None /\ ckpt'[i] = ckpt[i]
  BY DEF BootDies
<1> QED BY <1>1, <1>2, <1>3 DEF AgreesInv, RowsAgree, CloningUnsaved, CkptAliasesApart

(* The aliases after a boot are those of the checkpoint it kept. *)
LEMMA BootAliases ==
  ASSUME IInv, CkptAliasesApart, IInv', Boot, NEW i \in Ids, ckpt'[i] # None
  PROVE  {x \in Ids : alias'[x] = i} = ckpt[i].aliases
<1> DEFINE back == {j \in Ids : Restorable(j)} \ {j \in Ids : BurnsAtBoot(j)}
<1>1. alias' = [x \in Ids |->
         IF \E j \in back : x \in ckpt[j].aliases
         THEN CHOOSE j \in back : x \in ckpt[j].aliases ELSE None]
  BY DEF Boot
<1>2. ckpt' = [j \in Ids |-> IF j \in back THEN ckpt[j] ELSE None]
  BY DEF Boot
<1>3. back \subseteq Ids /\ \A j \in back : ckpt[j] # None
  BY DEF Restorable
<1>4. \A j \in back : ckpt[j].aliases \subseteq Ids
  BY <1>3 DEF IInv, TypeOK, CkptRec
<1> HIDE DEF back
<1>5. i \in back BY <1>2
<1>6. ASSUME NEW x \in Ids, alias'[x] = i PROVE x \in ckpt[i].aliases
  <2>1. \E j \in back : x \in ckpt[j].aliases BY <1>1, <1>6, ConstantsAssumption
  <2> QED BY <1>1, <1>6, <2>1
<1>7. ASSUME NEW x \in Ids, x \in ckpt[i].aliases PROVE alias'[x] = i
  <2>1. alias'[x] = CHOOSE j \in back : x \in ckpt[j].aliases
    BY <1>1, <1>5, <1>7
  <2>2. alias'[x] \in back /\ x \in ckpt[alias'[x]].aliases BY <1>5, <1>7, <2>1
  <2> QED BY <1>3, <1>5, <1>7, <2>2 DEF CkptAliasesApart
<1> QED BY <1>4, <1>5, <1>6, <1>7

LEMMA BootAgrees ==
  ASSUME IInv, AgreesInv, IInv', Boot
  PROVE  AgreesInv' /\ Current
<1>1. ASSUME NEW i \in Ids
      PROVE  ckpt'[i] = SavedRow(reg', slot', alias', i)
  <2>1. CASE ckpt'[i] = None BY <2>1, BootFacts DEF SavedRow
  <2>2. CASE ckpt'[i] # None
    <3>1. /\ ckpt'[i] = ckpt[i] /\ reg'[i] # None /\ ~ckpt[i].burn
          /\ slot'[reg'[i]].cwd = ckpt[i].cwd
          /\ slot'[reg'[i]].status = "dormant" /\ slot'[reg'[i]].burn = FALSE
      BY <2>2, BootFacts
    <3>2. {x \in Ids : alias'[x] = i} = ckpt[i].aliases
      BY <2>2, BootAliases DEF AgreesInv
    <3>3. ckpt[i] \in CkptRec BY <2>2, <3>1 DEF IInv, TypeOK
    <3>4. ckpt[i] = [cwd |-> ckpt[i].cwd, burn |-> FALSE, aliases |-> ckpt[i].aliases]
      BY <3>1, <3>3 DEF CkptRec
    <3>5. SavedRow(reg', slot', alias', i) =
            [cwd |-> ckpt[i].cwd, burn |-> FALSE, aliases |-> ckpt[i].aliases]
      BY <3>1, <3>2 DEF SavedRow
    <3> QED BY <3>1, <3>4, <3>5
  <2> QED BY <2>1, <2>2
<1>2. RowsAgree' /\ Current BY <1>1, SavedRows DEF RowsAgree, Current, Row
<1>3. \A i \in Ids : reg'[i] # None => slot'[reg'[i]].status = "dormant" BY BootFacts
<1>4. CloningUnsaved' BY <1>3 DEF CloningUnsaved
<1>5. \A i \in Ids : ckpt'[i] # None => ckpt'[i] = ckpt[i] BY BootFacts
<1>6. CkptAliasesApart' BY <1>5 DEF AgreesInv, CkptAliasesApart
<1> QED BY <1>2, <1>4, <1>6 DEF AgreesInv

LEMMA InitAgrees == Init => AgreesInv
BY DEF Init, AgreesInv, RowsAgree, CloningUnsaved, CkptAliasesApart, Row, Saved

LEMMA NextAgrees ==
  ASSUME Guarded, IInv, SlotsInv, WorkInv, AgreesInv, [Next]_vars
  PROVE  AgreesInv' /\ (proc' # "down" => Current \/ UNCHANGED vars)
<1>0. IInv' /\ WorkspaceOwned' BY NextInv, NextWork DEF WorkInv
<1>1. CASE UNCHANGED vars
  BY <1>1 DEF vars, AgreesInv, RowsAgree, CloningUnsaved, CkptAliasesApart, Row, Saved
<1>2. CASE Next
  <2>1. CASE PlainStep BY <1>0, <2>1, PlainAgrees
  <2>2. CASE Shutdown BY <2>2, StillAgrees DEF Shutdown, Up
  <2>3. ASSUME NEW i \in Ids, DestroyUnregistered(i) PROVE AgreesInv' /\ Current
    BY <2>3, StillAgrees DEF DestroyUnregistered, Up
  <2>4. CASE Exit \/ Crash \/ \E o \in Objs : RecoverDies(o) \/ DestroyDies(o)
    BY <2>4, DeathsAgree, Deaths DEF Dead
  <2>11. CASE BootDies BY <2>11, BootDiesAgrees DEF BootDies
  <2>5. CASE Save BY <1>0, <2>5, SavedAgrees
  <2>6. ASSUME NEW i \in Ids,
               \/ \E b \in BOOLEAN : StartNewConversation(i, b)
               \/ MessagePrunes(i) \/ MessageRevives(i)
        PROVE  Save
    BY Zenon, <2>6 DEF StartNewConversation, MessagePrunes, MessageRevives
  <2>7. ASSUME NEW o \in Objs,
               \/ EndFinishes(o) \/ DestroyFinishes(o)
               \/ \E new \in Ids : FrameSwapsId(o, new)
        PROVE  Save
    BY <2>7 DEF EndFinishes, DestroyFinishes, FrameSwapsId
  <2>8. ASSUME NEW i \in Ids,
               \/ \E b \in BOOLEAN : RegisterProvisioning(i, b)
               \/ CloneDone(i) \/ CloneFailed(i) \/ MessageAtCap(i)
        PROVE  AgreesInv' /\ Current
    BY <1>0, <2>8, RegisterProvisioningAgrees, CloneAgrees, MessageAtCapAgrees
  <2>9. ASSUME NEW o \in Objs, Recover(o) PROVE AgreesInv' /\ Current
    BY <1>0, <2>9, RecoverAgrees
  <2>10. CASE Boot BY <1>0, <2>10, BootAgrees
  <2> QED BY <1>2, <2>1, <2>2, <2>3, <2>4, <2>5, <2>6, <2>7, <2>8, <2>9, <2>10, <2>11, StepKinds
<1> QED BY <1>1, <1>2

(* What a boot would restore is what the registry holds, but for a session
   whose clone fails and one whose revive the cap refuses: no other operation
   changes the map, the aliases or a persisted field and leaves saveCheckpoint
   out. *)
THEOREM CheckpointIsCurrent == Guarded => (Spec => CheckpointAgrees)
<1> SUFFICES ASSUME Guarded PROVE Spec => CheckpointAgrees
  OBVIOUS
<1>1. Init => IInv /\ SlotsInv /\ WorkInv /\ AgreesInv
  BY InitInv, InitSlots, InitWork, InitAgrees
<1>2. IInv /\ SlotsInv /\ WorkInv /\ AgreesInv /\ [Next]_vars =>
        (IInv /\ SlotsInv /\ WorkInv /\ AgreesInv)'
  BY NextInv, NextSlots, NextWork, NextAgrees
<1>3. IInv /\ SlotsInv /\ WorkInv /\ AgreesInv /\ [Next]_vars =>
        [proc' # "down" => Current]_vars
  BY NextAgrees
<1>4. Spec => [][proc' # "down" => Current]_vars BY <1>1, <1>2, <1>3, PTL DEF Spec
<1> QED BY <1>4 DEF CheckpointAgrees, Current

-----------------------------------------------------------------------------
(* What a step may never do to a registered session *)

LEMMA RegisteredFacts ==
  ASSUME IInv, SlotsInv, NEW o \in Registered
  PROVE  /\ o \in Objs /\ Live(o) /\ o # None /\ slot[o] \in SlotRec
         /\ slot[o].sid \in Ids /\ reg[slot[o].sid] = o
         /\ \A i \in Ids : reg[i] = o => i = slot[o].sid
<1>1. PICK i \in Ids : reg[i] = o BY DEF Registered
<1>2. o \in Objs /\ o # None BY ConstantsAssumption DEF Registered
<1> QED BY <1>1, <1>2, RegFacts

(* A burn session comes to rest only on its way out. *)
BurnRests ==
  \A o \in Registered :
       (/\ slot'[o] # None /\ slot[o].burn /\ slot'[o].burn
        /\ slot[o].status # "dormant" /\ slot'[o].status = "dormant"
        /\ slot'[o].sid = slot[o].sid)
       => slot'[o].destroying \/ proc' = "draining"

LEMMA RestsCommit ==
  ASSUME IInv, SlotsInv, IInv', NEW f \in [Objs -> SlotRec \cup {None}], NEW r, Commit(f, r),
         \A o \in Registered :
           f[o] # None /\ f[o].status = "dormant" /\ f[o].burn /\ slot[o].status # "dormant" =>
             f[o].destroying \/ proc' = "draining"
  PROVE  BurnRests
BY CommitFacts, RegisteredFacts DEF BurnRests

LEMMA PlainRests == ASSUME IInv, SlotsInv, IInv', PlainStep PROVE BurnRests
<1>1. PICK f \in [Objs -> SlotRec \cup {None}] :
        /\ Commit(f, reg)
        /\ \A p \in Objs : f[p] = slot[p] \/ (Live(p) /\ Follows(p, f[p]))
  BY DEF PlainStep
<1>2. proc' = proc BY DEF PlainStep
<1>3. ASSUME NEW o \in Registered, f[o] # None,
             f[o].status = "dormant", f[o].burn, slot[o].status # "dormant"
      PROVE  f[o].destroying \/ proc' = "draining"
  BY <1>1, <1>2, <1>3, RegisteredFacts DEF Follows
<1> QED BY <1>1, <1>3, RestsCommit

LEMMA DropsRests == ASSUME IInv, SlotsInv, IInv', NEW c \in Ids, Drops(c) PROVE BurnRests
<1>1. PICK f \in [Objs -> SlotRec \cup {None}], r \in [Ids -> Objs \cup {None}] :
        Commit(f, r) /\ SameRows(f)
  BY DEF Drops
<1> QED BY <1>1, RestsCommit, RegisteredFacts DEF SameRows

LEMMA AddsRests ==
  ASSUME IInv, SlotsInv, IInv', NEW c \in Ids, NEW x \in Ids, NEW n \in Objs, NEW s,
         Adds(c, x, n, s)
  PROVE  BurnRests
<1>1. PICK f \in [Objs -> SlotRec \cup {None}], g \in [Objs -> SlotRec \cup {None}],
           r \in [Ids -> Objs \cup {None}] :
        /\ Commit(f, r) /\ SameRows(g) /\ ~Live(n)
        /\ \A p \in Objs : f[p] = IF p = n THEN s ELSE g[p]
  BY DEF Adds
<1>2. \A o \in Registered : f[o] # None => f[o].status = slot[o].status
  BY <1>1, RegisteredFacts DEF SameRows
<1> QED BY <1>1, <1>2, RestsCommit

LEMMA ReplacesRests ==
  ASSUME IInv, SlotsInv, IInv', NEW i \in Ids, NEW s, Replaces(i, s), s.status # "dormant"
  PROVE  BurnRests
<1> DEFINE f == [slot EXCEPT ![reg[i]] = s]
<1>1. /\ f \in [Objs -> SlotRec \cup {None}] /\ Commit(f, reg)
      /\ \A p \in Objs : f[p] = IF p = reg[i] THEN s ELSE slot[p]
  BY DEF Replaces, Update, IInv, TypeOK
<1> HIDE DEF f
<1>2. \A o \in Registered : f[o].status = slot[o].status \/ f[o].status # "dormant"
  BY <1>1, RegisteredFacts
<1> QED BY <1>1, <1>2, RestsCommit

LEMMA NextRests == IInv /\ SlotsInv /\ [Next]_vars => [BurnRests]_vars
<1> SUFFICES ASSUME IInv, SlotsInv, Next PROVE BurnRests
  OBVIOUS
<1>1. IInv' BY NextInv
<1>2. CASE PlainStep BY <1>1, <1>2, PlainRests
<1>3. ASSUME NEW i \in Ids, NEW b \in BOOLEAN,
             StartNewConversation(i, b) \/ RegisterProvisioning(i, b)
      PROVE  BurnRests
  BY <1>1, <1>3, StartNewConversationAdds, RegisterProvisioningAdds, AddsRests
<1>4. ASSUME NEW i \in Ids, MessagePrunes(i) \/ MessageAtCap(i) PROVE BurnRests
  <2>1. Wakeable(i) /\ Commit(slot, [reg EXCEPT ![slot[SlotOf(i)].sid] = None])
    BY <1>4 DEF MessagePrunes, MessageAtCap
  <2>2. slot[SlotOf(i)].sid \in Ids BY <2>1, WakeFree
  <2> QED BY <1>1, <2>1, <2>2, PlainDrops, DropsRests
<1>5. ASSUME NEW i \in Ids, MessageRevives(i) PROVE BurnRests
  <2>1. slot[SlotOf(i)].sid \in Ids BY <1>5, WakeFree DEF MessageRevives
  <2> QED BY <1>1, <1>5, <2>1, MessageRevivesAdds, AddsRests
<1>6. ASSUME NEW i \in Ids, CloneDone(i) \/ CloneFailed(i) PROVE BurnRests
  <2>1. NewSlot(i, i, "alive", "running", slot[reg[i]].burn).status = "alive"
    BY DEF NewSlot
  <2> QED BY <1>1, <1>6, <2>1, CloneDoneCases, CloneFailedReplaces, ReplacesRests, DropsRests
<1>7. ASSUME NEW o \in Objs, Recover(o) PROVE BurnRests
  <2>1. slot[o].sid \in Ids BY Zenon, <1>7, SlotFacts DEF Recover
  <2> QED BY <1>1, <1>7, <2>1, RecoverCases, DropsRests, AddsRests
<1>8. ASSUME NEW o \in Objs, EndFinishes(o) \/ DestroyFinishes(o) PROVE BurnRests
  <2>1. Live(o) /\ slot[o].sid \in Ids BY <1>8, SlotFacts DEF EndFinishes, DestroyFinishes
  <2>2. Drops(slot[o].sid)
    BY <1>8, <2>1, StopsWaiting, TeardownDrops DEF EndFinishes, DestroyFinishes
  <2> QED BY <1>1, <2>1, <2>2, DropsRests
<1>9. CASE Shutdown \/ \E i \in Ids : DestroyUnregistered(i)
  BY <1>9 DEF Shutdown, DestroyUnregistered, BurnRests
<1>10. CASE Exit \/ Crash \/ \E o \in Objs : RecoverDies(o) \/ DestroyDies(o)
  BY <1>10, Deaths, RegisteredFacts DEF Dead, BurnRests
<1>11. CASE Boot \/ BootDies
  <2>1. Registered = {} BY <1>11, RegisteredFacts DEF Boot, BootDies, SlotsInv, Live
  <2> QED BY <2>1 DEF BurnRests
<1>12. ASSUME NEW o \in Objs, NEW new \in Ids, FrameSwapsId(o, new) PROVE BurnRests
  <2>1. PICK s, f, q : Swaps(o, slot[o].sid, new, s, f, q) BY <1>12, SwapFacts
  <2>2. \A p \in Registered : f[p].status = slot[p].status
    BY <2>1, RegisteredFacts DEF Swaps
  <2> QED BY <1>1, <2>1, <2>2, RestsCommit DEF Swaps
<1> QED BY <1>2, <1>3, <1>4, <1>5, <1>6, <1>7, <1>8, <1>9, <1>10, <1>11, <1>12, StepKinds

(* The close handler and the idle sweep destroy a burn session where another
   would go dormant, whichever overlaps happen. *)
THEOREM BurnSessionsNeverRest == Spec => BurnNeverRests
<1>1. IInv /\ SlotsInv /\ [Next]_vars => [BurnRests]_vars BY NextRests
<1> QED BY <1>1, SlotsInvariance, PTL DEF Spec, BurnNeverRests, BurnRests

-----------------------------------------------------------------------------
(* Sessions stay, but for a teardown, a lost workspace or a full registry:
   the step SessionsAreKept is about. *)
StaysOr ==
  \A o \in Registered :
       (proc' # "down" /\ \A p \in Objs : (\E i \in Ids : reg'[i] = p) => slot'[p].cwd # slot[o].cwd)
       => \/ "ready" \in {slot[o].ender, slot[o].destroyer}
          \/ ~ws'[slot[o].cwd]
          \/ FilledByOthers(o)

(* A commit that keeps every session but the one of id c. *)
LEMMA StaysCommit ==
  ASSUME IInv, SlotsInv, IInv', NEW f \in [Objs -> SlotRec \cup {None}], NEW r, Commit(f, r),
         NEW c \in Ids,
         \A o \in Registered : slot[o].sid # c =>
           r[slot[o].sid] = o /\ (f[o] # None => f[o].cwd = slot[o].cwd),
         \A o \in Registered : slot[o].sid = c =>
           \/ \E y \in Ids : r[y] # None /\ (f[r[y]] # None => f[r[y]].cwd = slot[o].cwd)
           \/ "ready" \in {slot[o].ender, slot[o].destroyer}
           \/ ~ws'[slot[o].cwd]
           \/ FilledByOthers(o)
  PROVE  StaysOr
<1>1. ASSUME NEW o \in Registered, NEW y \in Ids, r[y] # None,
             f[r[y]] # None => f[r[y]].cwd = slot[o].cwd
      PROVE  \E p \in Objs : (\E i \in Ids : reg'[i] = p) /\ slot'[p].cwd = slot[o].cwd
  <2>1. reg'[y] = r[y] /\ r[y] \in Objs /\ slot'[r[y]] # None /\ f[r[y]] # None
    BY <1>1, CommitFacts
  <2>2. slot'[r[y]].cwd = slot[o].cwd BY <1>1, <2>1, CommitFacts
  <2> QED BY <2>1, <2>2
<1>2. ASSUME NEW o \in Registered
      PROVE  \/ \E y \in Ids : r[y] # None /\ (f[r[y]] # None => f[r[y]].cwd = slot[o].cwd)
             \/ "ready" \in {slot[o].ender, slot[o].destroyer}
             \/ ~ws'[slot[o].cwd]
             \/ FilledByOthers(o)
  BY RegisteredFacts
<1> QED BY <1>1, <1>2 DEF StaysOr

LEMMA PlainStays == ASSUME IInv, SlotsInv, IInv', PlainStep PROVE StaysOr
<1>1. PICK f \in [Objs -> SlotRec \cup {None}] : Commit(f, reg) /\ OneStepOn(f)
  BY DEF PlainStep, OneStepOn
<1>2. \A o \in Registered :
        /\ slot[o].sid \in Ids /\ reg[slot[o].sid] = o /\ o # None
        /\ f[o] # None => f[o].cwd = slot[o].cwd
  BY <1>1, RegisteredFacts, OneStepFacts
<1>3. CASE Registered = {} BY <1>3 DEF StaysOr
<1>4. CASE Registered # {}
  <2>1. PICK c \in Ids : TRUE BY <1>2, <1>4
  <2> QED BY <1>1, <1>2, StaysCommit
<1> QED BY <1>3, <1>4

(* A full registry without c is full without the slot of c. *)
LEMMA FullWithout ==
  ASSUME IInv, SlotsInv, NEW c \in Ids, reg[c] # None, AtCap([reg EXCEPT ![c] = None])
  PROVE  FilledByOthers(reg[c])
<1>1. \A i \in Ids : reg[i] = reg[c] <=> i = c BY RegFacts
<1>2. [reg EXCEPT ![c] = None] = [i \in Ids |-> IF reg[i] = reg[c] THEN None ELSE reg[i]]
  BY <1>1 DEF IInv, TypeOK
<1> QED BY <1>2 DEF FilledByOthers

LEMMA DropsStays ==
  ASSUME IInv, SlotsInv, IInv', NEW c \in Ids, Drops(c),
         \/ reg[c] = None
         \/ "ready" \in {slot[reg[c]].ender, slot[reg[c]].destroyer}
         \/ ~ws'[slot[reg[c]].cwd]
         \/ AtCap([reg EXCEPT ![c] = None])
  PROVE  StaysOr
<1>1. PICK f \in [Objs -> SlotRec \cup {None}], r \in [Ids -> Objs \cup {None}] :
        /\ Commit(f, r) /\ OneStepOn(f)
        /\ \A y \in Ids : r[y] = IF y = c THEN None ELSE reg[y]
  BY DEF Drops, SameRows
<1>2. \A o \in Registered : slot[o].sid # c =>
        r[slot[o].sid] = o /\ (f[o] # None => f[o].cwd = slot[o].cwd)
  BY <1>1, RegisteredFacts, OneStepFacts
<1>3. \A o \in Registered : slot[o].sid = c => reg[c] = o /\ reg[c] # None
  BY RegisteredFacts
<1>4. \A o \in Registered : slot[o].sid = c =>
        \/ "ready" \in {slot[o].ender, slot[o].destroyer}
        \/ ~ws'[slot[o].cwd]
        \/ FilledByOthers(o)
  BY <1>3, FullWithout
<1> QED BY <1>1, <1>2, <1>4, StaysCommit

LEMMA AddsStays ==
  ASSUME IInv, SlotsInv, IInv', NEW c \in Ids, NEW x \in Ids, NEW n \in Objs, NEW s,
         Adds(c, x, n, s), reg[c] # None => s.cwd = slot[reg[c]].cwd
  PROVE  StaysOr
<1>1. PICK f \in [Objs -> SlotRec \cup {None}], g \in [Objs -> SlotRec \cup {None}],
           r \in [Ids -> Objs \cup {None}] :
        /\ Commit(f, r) /\ OneStepOn(g) /\ ~Live(n) /\ (x # c => reg[x] = None)
        /\ \A p \in Objs : f[p] = IF p = n THEN s ELSE g[p]
        /\ \A y \in Ids : r[y] = IF y = x THEN n ELSE IF y = c THEN None ELSE reg[y]
  BY DEF Adds, SameRows
<1>2. \A o \in Registered : slot[o].sid # c =>
        r[slot[o].sid] = o /\ (f[o] # None => f[o].cwd = slot[o].cwd)
  BY <1>1, RegisteredFacts, OneStepFacts
<1>3. r[x] = n /\ n # None /\ f[n] = s BY <1>1, ConstantsAssumption
<1>4. \A o \in Registered : slot[o].sid = c => s.cwd = slot[o].cwd
  BY RegisteredFacts
<1> QED BY <1>1, <1>2, <1>3, <1>4, StaysCommit

LEMMA ReplacesStays ==
  ASSUME IInv, SlotsInv, IInv', NEW i \in Ids, NEW s, Replaces(i, s)
  PROVE  StaysOr
<1> DEFINE f == [slot EXCEPT ![reg[i]] = s]
<1>1. /\ f \in [Objs -> SlotRec \cup {None}] /\ Commit(f, reg)
      /\ \A p \in Objs : f[p] = IF p = reg[i] THEN s ELSE slot[p]
      /\ s.cwd = i /\ slot[reg[i]].cwd = i
  BY DEF Replaces, Update, IInv, TypeOK
<1> HIDE DEF f
<1>2. \A o \in Registered : f[o].cwd = slot[o].cwd /\ reg[slot[o].sid] = o /\ o # None
                            /\ slot[o].sid \in Ids
  BY <1>1, RegisteredFacts
<1> QED BY <1>1, <1>2, StaysCommit

LEMMA NextStays ==
  ASSUME Guarded, IInv, SlotsInv, [Next]_vars
  PROVE  [StaysOr]_vars
<1> SUFFICES ASSUME Next PROVE StaysOr
  OBVIOUS
<1>1. IInv' BY NextInv
<1>2. CASE PlainStep BY <1>1, <1>2, PlainStays
<1>3. ASSUME NEW i \in Ids, NEW b \in BOOLEAN,
             StartNewConversation(i, b) \/ RegisterProvisioning(i, b)
      PROVE  StaysOr
  <2>1. reg[i] = None BY <1>3 DEF StartNewConversation, RegisterProvisioning, Unused
  <2> QED BY <1>1, <1>3, <2>1, StartNewConversationAdds, RegisterProvisioningAdds, AddsStays
<1>4. ASSUME NEW i \in Ids, MessagePrunes(i) \/ MessageAtCap(i) PROVE StaysOr
  <2> DEFINE c == slot[SlotOf(i)].sid
  <2>1. /\ Wakeable(i) /\ Commit(slot, [reg EXCEPT ![c] = None])
        /\ (~ws[slot[SlotOf(i)].cwd] /\ ws' = ws) \/ AtCap([reg EXCEPT ![c] = None])
    BY <1>4 DEF MessagePrunes, MessageAtCap
  <2>2. c \in Ids /\ reg[c] = SlotOf(i) BY <2>1, WakeFree
  <2>3. Drops(c) BY <2>1, <2>2, PlainDrops
  <2> HIDE DEF c
  <2> QED BY <1>1, <2>1, <2>2, <2>3, DropsStays
<1>5. ASSUME NEW i \in Ids, MessageRevives(i) PROVE StaysOr
  <2>1. slot[SlotOf(i)].sid \in Ids /\ reg[slot[SlotOf(i)].sid] = SlotOf(i)
    BY <1>5, WakeFree DEF MessageRevives
  <2> QED BY <1>1, <1>5, <2>1, MessageRevivesAdds, AddsStays
<1>6. ASSUME NEW i \in Ids, CloneDone(i) \/ CloneFailed(i) PROVE StaysOr
  <2>1. CASE CloneFailed(i) BY <1>1, <2>1, CloneFailedReplaces, ReplacesStays
  <2>2. CASE CloneDone(i)
    <3>1. CASE \E s : Replaces(i, s) BY <1>1, <3>1, ReplacesStays
    <3>2. CASE Drops(i) /\ ws' = [ws EXCEPT ![i] = FALSE]
      <4>1. ~ws'[slot[reg[i]].cwd] BY <2>2, <3>2, CloneDoneCases DEF IInv, TypeOK
      <4> QED BY <1>1, <3>2, <4>1, DropsStays
    <3> QED BY <2>2, <3>1, <3>2, CloneDoneCases
  <2> QED BY <1>6, <2>1, <2>2
<1>7. ASSUME NEW o \in Objs, Recover(o) PROVE StaysOr
  <2>1. slot[o].sid \in Ids BY Zenon, <1>7, SlotFacts DEF Recover
  <2> QED BY <1>1, <1>7, <2>1, RecoverCases, DropsStays, AddsStays
<1>8. ASSUME NEW o \in Objs, EndFinishes(o) \/ DestroyFinishes(o) PROVE StaysOr
  <2>1. /\ Live(o) /\ slot[o].sid \in Ids
        /\ slot[o].ender = "ready" \/ slot[o].destroyer = "ready"
    BY <1>8, SlotFacts DEF EndFinishes, DestroyFinishes
  <2>2. Drops(slot[o].sid)
    BY <1>8, <2>1, StopsWaiting, TeardownDrops DEF EndFinishes, DestroyFinishes
  <2>3. reg[slot[o].sid] \in {o, None} BY <2>1 DEF SlotsInv, OwnsId, Pending
  <2> QED BY <1>1, <2>1, <2>2, <2>3, DropsStays
<1>9. CASE Shutdown \/ \E i \in Ids : DestroyUnregistered(i)
  <2>1. reg' = reg /\ slot' = slot BY <1>9 DEF Shutdown, DestroyUnregistered
  <2> QED BY <2>1, RegisteredFacts DEF StaysOr
<1>10. CASE Exit \/ Crash \/ \E o \in Objs : RecoverDies(o) \/ DestroyDies(o)
  BY <1>10, Deaths DEF Dead, StaysOr
<1>11. CASE Boot \/ BootDies
  <2>1. Registered = {} BY <1>11, RegisteredFacts DEF Boot, BootDies, SlotsInv, Live
  <2> QED BY <2>1 DEF StaysOr
<1>12. ASSUME NEW o \in Objs, NEW new \in Ids, FrameSwapsId(o, new) PROVE StaysOr
  <2> DEFINE c == slot[o].sid
  <2>1. PICK s, f, q : Swaps(o, c, new, s, f, q) BY <1>12, SwapFacts
  <2> HIDE DEF c
  <2>2. \A p \in Registered : slot[p].sid # c =>
          q[slot[p].sid] = p /\ f[p].cwd = slot[p].cwd
    BY <2>1, RegisteredFacts DEF Swaps, Unused
  <2>3. \A p \in Registered : slot[p].sid = c => p = o
    BY <2>1, RegisteredFacts DEF Swaps
  <2>4. q[new] = o /\ o # None /\ f[o].cwd = slot[o].cwd
    BY <2>1, ConstantsAssumption DEF Swaps
  <2> QED BY <1>1, <2>1, <2>2, <2>3, <2>4, StaysCommit DEF Swaps
<1> QED BY <1>2, <1>3, <1>4, <1>5, <1>6, <1>7, <1>8, <1>9, <1>10, <1>11, <1>12, StepKinds

(* No step takes a session out of the registry but a teardown that came to its
   end, the prune of one whose workspace is gone, a revive the cap refused, or
   the end of the process. *)
THEOREM SessionsStayKept == Guarded => (Spec => SessionsAreKept)
<1> SUFFICES ASSUME Guarded PROVE Spec => SessionsAreKept
  OBVIOUS
<1>1. IInv /\ SlotsInv /\ [Next]_vars => [StaysOr]_vars BY NextStays
<1> QED BY <1>1, SlotsInvariance, PTL DEF Spec, SessionsAreKept, StaysOr

-----------------------------------------------------------------------------
(* Where an id leads.  Between two callbacks LeadsTo looks at the registry,
   while the process is down at the checkpoint: the step NamesLast is about. *)
NamesKept ==
  \A i \in Ids : \A w \in LeadsTo(i) :
    \/ LeadsTo(i)' = {w}
    \/ LeadsTo(i)' = {} /\ (DiesRecovering(i) \/ \A j \in Ids : w \notin LeadsTo(j)')

LEMMA UpNames ==
  ASSUME NEW i \in Ids
  PROVE  /\ proc # "down" => LeadsTo(i) = IF SlotOf(i) = None THEN {} ELSE {slot[SlotOf(i)].cwd}
         /\ proc' # "down" =>
              LeadsTo(i)' = IF SlotOf(i)' = None THEN {} ELSE {slot'[SlotOf(i)'].cwd}
BY DEF LeadsTo

(* No two sessions live in one workspace. *)
LEMMA SameHome ==
  ASSUME IInv, SlotsInv, WorkspaceOwned, NEW i \in Ids, NEW j \in Ids,
         SlotOf(i) # None, SlotOf(j) # None, slot[SlotOf(i)].cwd = slot[SlotOf(j)].cwd
  PROVE  Canonical(i) = Canonical(j)
<1>1. /\ SlotOf(i) \in Registered /\ SlotOf(j) \in Registered
      /\ slot[SlotOf(i)].sid = Canonical(i) /\ slot[SlotOf(j)].sid = Canonical(j)
  BY SlotOfFacts DEF Registered
<1> QED BY <1>1 DEF WorkspaceOwned

(* Sessions G go, and every other is behind its ids as before. *)
LEMMA NamesMove ==
  ASSUME IInv, SlotsInv, WorkspaceOwned, proc # "down", proc' # "down", NEW G,
         \A j \in Ids : SlotOf(j) = None \/ Canonical(j) \in G => SlotOf(j)' = None,
         \A j \in Ids : SlotOf(j) # None /\ Canonical(j) \notin G =>
           SlotOf(j)' # None /\ slot'[SlotOf(j)'].cwd = slot[SlotOf(j)].cwd
  PROVE  NamesKept
<1> SUFFICES ASSUME NEW i \in Ids, NEW w \in LeadsTo(i), LeadsTo(i)' # {w}
             PROVE  LeadsTo(i)' = {} /\ \A j \in Ids : w \notin LeadsTo(j)'
  BY DEF NamesKept
<1>1. SlotOf(i) # None /\ slot[SlotOf(i)].cwd = w BY UpNames
<1>2. Canonical(i) \in G BY <1>1, UpNames
<1>3. LeadsTo(i)' = {} BY <1>2, UpNames
<1>4. ASSUME NEW j \in Ids, w \in LeadsTo(j)' PROVE FALSE
  <2>1. SlotOf(j)' # None /\ slot'[SlotOf(j)'].cwd = w BY <1>4, UpNames
  <2>2. SlotOf(j) # None /\ Canonical(j) \notin G /\ slot[SlotOf(j)].cwd = w BY <2>1
  <2> QED BY <1>1, <1>2, <2>2, SameHome
<1> QED BY <1>3, <1>4

(* Every session stays behind its ids. *)
LEMMA NamesAllStay ==
  ASSUME proc # "down", proc' # "down",
         \A j \in Ids : SlotOf(j) # None =>
           SlotOf(j)' # None /\ slot'[SlotOf(j)'].cwd = slot[SlotOf(j)].cwd
  PROVE  NamesKept
<1> SUFFICES ASSUME NEW i \in Ids, NEW w \in LeadsTo(i) PROVE LeadsTo(i)' = {w}
  BY DEF NamesKept
<1>1. SlotOf(i) # None /\ slot[SlotOf(i)].cwd = w BY UpNames
<1> QED BY <1>1, UpNames

(* A registered slot that stays keeps its workspace. *)
HomesKept == \A o \in Registered : slot'[o] # None => slot'[o].cwd = slot[o].cwd

LEMMA PlainHomes == ASSUME IInv, SlotsInv, IInv', PlainStep PROVE HomesKept
<1>1. PICK f \in [Objs -> SlotRec \cup {None}] : Commit(f, reg) /\ OneStepOn(f)
  BY DEF PlainStep, OneStepOn
<1> QED BY <1>1, CommitFacts, OneStepFacts, RegisteredFacts DEF HomesKept

LEMMA DropsHomes ==
  ASSUME IInv, SlotsInv, IInv', NEW c \in Ids, Drops(c)
  PROVE  HomesKept /\ \A y \in Ids : reg'[y] = IF y = c THEN None ELSE reg[y]
<1>1. PICK f \in [Objs -> SlotRec \cup {None}], r \in [Ids -> Objs \cup {None}] :
        /\ Commit(f, r) /\ OneStepOn(f)
        /\ \A y \in Ids : r[y] = IF y = c THEN None ELSE reg[y]
  BY DEF Drops, SameRows
<1>2. HomesKept BY <1>1, CommitFacts, OneStepFacts, RegisteredFacts DEF HomesKept
<1> QED BY <1>1, <1>2 DEF Commit

LEMMA AddsHomes ==
  ASSUME IInv, SlotsInv, IInv', NEW c \in Ids, NEW x \in Ids, NEW n \in Objs, NEW s,
         Adds(c, x, n, s)
  PROVE  /\ HomesKept /\ slot'[n].cwd = s.cwd /\ (x # c => reg[x] = None)
         /\ \A y \in Ids : reg'[y] = IF y = x THEN n ELSE IF y = c THEN None ELSE reg[y]
<1>1. PICK f \in [Objs -> SlotRec \cup {None}], g \in [Objs -> SlotRec \cup {None}],
           r \in [Ids -> Objs \cup {None}] :
        /\ Commit(f, r) /\ OneStepOn(g) /\ ~Live(n) /\ (x # c => reg[x] = None)
        /\ \A p \in Objs : f[p] = IF p = n THEN s ELSE g[p]
        /\ \A y \in Ids : r[y] = IF y = x THEN n ELSE IF y = c THEN None ELSE reg[y]
  BY DEF Adds, SameRows
<1>2. HomesKept
  <2>1. \A o \in Registered : o # n BY <1>1, RegisteredFacts
  <2> QED BY <1>1, <2>1, CommitFacts, OneStepFacts, RegisteredFacts DEF HomesKept
<1>3. r[x] = n /\ n # None /\ f[n] = s BY <1>1, ConstantsAssumption
<1>4. slot'[n].cwd = s.cwd BY <1>1, <1>3, CommitFacts
<1> QED BY <1>1, <1>2, <1>4 DEF Commit

LEMMA ReplacesHomes ==
  ASSUME IInv, SlotsInv, IInv', NEW i \in Ids, NEW s, Replaces(i, s)
  PROVE  HomesKept /\ reg' = reg
<1> DEFINE f == [slot EXCEPT ![reg[i]] = s]
<1>1. /\ f \in [Objs -> SlotRec \cup {None}] /\ Commit(f, reg)
      /\ \A p \in Objs : f[p] = IF p = reg[i] THEN s ELSE slot[p]
      /\ s.cwd = i /\ slot[reg[i]].cwd = i
  BY DEF Replaces, Update, IInv, TypeOK
<1> HIDE DEF f
<1> QED BY <1>1, CommitFacts, RegisteredFacts DEF HomesKept, Commit

(* Where the ids of every session lead when the registry and the aliases stay,
   when session c leaves, and when it moves to id x and slot n. *)
LEMMA NamesStay ==
  ASSUME IInv, SlotsInv, IInv', WorkspaceOwned, HomesKept, proc # "down", proc' # "down",
         reg' = reg, alias' = alias
  PROVE  NamesKept
<1>1. \A j \in Ids : SlotOf(j)' = SlotOf(j) BY DEF SlotOf, Canonical
<1>2. \A j \in Ids : SlotOf(j) # None =>
        slot'[SlotOf(j)] # None /\ SlotOf(j) \in Registered
  <2>1. ASSUME NEW j \in Ids, SlotOf(j) # None
        PROVE  slot'[SlotOf(j)] # None /\ SlotOf(j) \in Registered
    <3>1. /\ Canonical(j) \in Ids /\ reg[Canonical(j)] = SlotOf(j) /\ SlotOf(j) \in Objs
      BY <2>1, SlotOfFacts
    <3> QED BY <2>1, <3>1 DEF IInv, RegistryConsistent, Live, Registered
  <2> QED BY <2>1
<1> QED BY <1>1, <1>2, NamesAllStay DEF HomesKept

LEMMA NamesDropped ==
  ASSUME IInv, SlotsInv, IInv', WorkspaceOwned, HomesKept, proc # "down", proc' # "down",
         NEW c \in Ids, \A y \in Ids : reg'[y] = IF y = c THEN None ELSE reg[y],
         \/ alias' = alias
         \/ alias' = DropAliases(c)
         \/ reg[c] # None /\ \E x \in ResumableIds(c) \ {c} : alias' = Rekeyed(c, x)
  PROVE  NamesKept
<1>1. ASSUME NEW j \in Ids, SlotOf(j) # None, Canonical(j) # c
      PROVE  SlotOf(j)' = SlotOf(j)
  <2>1. Canonical(j) \in Ids /\ reg[Canonical(j)] = SlotOf(j) BY <1>1, SlotOfFacts
  <2>2. alias'[j] = alias[j]
    <3>1. CASE alias' = DropAliases(c)
      BY <1>1, <3>1, ConstantsAssumption DEF DropAliases, Canonical
    <3>2. ASSUME NEW x \in ResumableIds(c) \ {c}, alias' = Rekeyed(c, x)
          PROVE  alias'[j] = alias[j]
      <4>1. x \in Ids /\ alias[x] = c BY <3>2 DEF ResumableIds, AliasesOf
      <4>2. j # c /\ alias[j] # c /\ j # x
        BY <1>1, <2>1, <4>1, ConstantsAssumption DEF Canonical, IInv, AliasesFlat
      <4> QED BY <3>2, <4>1, <4>2 DEF Rekeyed
    <3> QED BY <3>1, <3>2
  <2> QED BY <1>1, <2>1, <2>2 DEF SlotOf, Canonical
<1>2. ASSUME NEW j \in Ids, SlotOf(j) # None, Canonical(j) = c
      PROVE  SlotOf(j)' = None
  <2>1. reg[c] # None /\ alias[c] = None BY <1>2, SlotOfFacts
  <2>2. j = c \/ alias[j] = c BY <1>2 DEF Canonical
  <2>3. j # c => reg[j] = None
    BY <2>2, ConstantsAssumption DEF IInv, AliasesFlat
  <2>4. CASE alias' = alias BY <1>2, <2>4 DEF SlotOf, Canonical
  <2>5. CASE alias' = DropAliases(c)
    <3>1. alias'[j] = None BY <2>1, <2>2, <2>5 DEF DropAliases
    <3> QED BY <2>3, <3>1 DEF SlotOf, Canonical
  <2>6. ASSUME NEW x \in ResumableIds(c) \ {c}, alias' = Rekeyed(c, x)
        PROVE  SlotOf(j)' = None
    <3>1. x \in Ids /\ x # c /\ alias[x] = c BY <2>6 DEF ResumableIds, AliasesOf
    <3>2. reg[x] = None BY <3>1, ConstantsAssumption DEF IInv, AliasesFlat
    <3>3. Canonical(j)' = x
      BY <2>2, <2>6, <3>1, ConstantsAssumption DEF Rekeyed, Canonical
    <3> QED BY <3>1, <3>2, <3>3 DEF SlotOf
  <2> QED BY <2>4, <2>5, <2>6
<1>3. ASSUME NEW j \in Ids, SlotOf(j) # None, Canonical(j) # c
      PROVE  SlotOf(j)' # None /\ slot'[SlotOf(j)'].cwd = slot[SlotOf(j)].cwd
  <2>1. /\ Canonical(j) \in Ids /\ reg[Canonical(j)] = SlotOf(j)
        /\ SlotOf(j) \in Objs /\ SlotOf(j) \in Registered
    BY <1>3, SlotOfFacts DEF Registered
  <2>2. reg'[Canonical(j)] = SlotOf(j) BY <1>3, <2>1
  <2>3. slot'[SlotOf(j)] # None
    BY <1>3, <2>1, <2>2 DEF IInv, RegistryConsistent, Live
  <2> QED BY <1>1, <1>3, <2>1, <2>3 DEF HomesKept
<1>4. ASSUME NEW j \in Ids, SlotOf(j) = None PROVE SlotOf(j)' = None
  <2>1. Canonical(j) \in Ids /\ reg[Canonical(j)] = None BY <1>4 DEF SlotOf, Canonical, IInv, TypeOK
  <2>2. alias[j] # None => reg[j] = None BY DEF IInv, AliasesFlat
  <2>3. CASE alias' = alias BY <2>1, <2>3 DEF SlotOf, Canonical
  <2>4. CASE alias' = DropAliases(c)
    <3>1. alias'[j] = IF alias[j] = c THEN None ELSE alias[j] BY <2>4 DEF DropAliases
    <3> QED BY <2>1, <2>2, <3>1, ConstantsAssumption DEF SlotOf, Canonical
  <2>5. ASSUME reg[c] # None, NEW x \in ResumableIds(c) \ {c}, alias' = Rekeyed(c, x)
        PROVE  SlotOf(j)' = None
    <3>1. x \in Ids /\ x # c /\ alias[x] = c BY <2>5 DEF ResumableIds, AliasesOf
    <3>2. Canonical(j) # c BY <2>1, <2>5
    <3>3. j # c /\ alias[j] # c /\ j # x
      BY <2>5, <3>1, <3>2, ConstantsAssumption DEF Canonical, IInv, AliasesFlat
    <3>4. alias'[j] = alias[j] BY <2>5, <3>1, <3>3 DEF Rekeyed
    <3> QED BY <2>1, <3>4 DEF SlotOf, Canonical
  <2> QED BY <2>3, <2>4, <2>5
<1> QED BY <1>2, <1>3, <1>4, NamesMove

LEMMA NamesMoved ==
  ASSUME IInv, SlotsInv, IInv', WorkspaceOwned, HomesKept, proc # "down", proc' # "down",
         NEW c \in Ids, NEW x \in Ids, NEW n \in Objs,
         \A y \in Ids : reg'[y] = IF y = x THEN n ELSE IF y = c THEN None ELSE reg[y],
         x # c => reg[x] = None,
         reg[c] # None => slot'[n].cwd = slot[reg[c]].cwd,
         \A j \in Ids : SlotOf(j) # None =>
           Canonical(j)' = IF Canonical(j) = c THEN x ELSE Canonical(j)
  PROVE  NamesKept
<1>1. ASSUME NEW j \in Ids, SlotOf(j) # None
      PROVE  SlotOf(j)' # None /\ slot'[SlotOf(j)'].cwd = slot[SlotOf(j)].cwd
  <2>1. /\ Canonical(j) \in Ids /\ reg[Canonical(j)] = SlotOf(j)
        /\ SlotOf(j) \in Objs /\ SlotOf(j) \in Registered
    BY <1>1, SlotOfFacts DEF Registered
  <2>2. CASE Canonical(j) = c
    <3>1. SlotOf(j)' = n BY <1>1, <2>2 DEF SlotOf
    <3> QED BY <1>1, <2>1, <2>2, <3>1, ConstantsAssumption
  <2>3. CASE Canonical(j) # c
    <3>1. Canonical(j) # x BY <1>1, <2>1, <2>3
    <3>2. SlotOf(j)' = SlotOf(j) /\ reg'[Canonical(j)] = SlotOf(j)
      BY <1>1, <2>1, <2>3, <3>1 DEF SlotOf
    <3>3. slot'[SlotOf(j)] # None
      BY <1>1, <2>1, <3>2 DEF IInv, RegistryConsistent, Live
    <3> QED BY <1>1, <2>1, <3>2, <3>3 DEF HomesKept
  <2> QED BY <2>2, <2>3
<1> QED BY <1>1, NamesAllStay

-----------------------------------------------------------------------------
(* A row of the checkpoint whose session left the registry for a revive the
   cap then refused: nothing that is registered answers to the ids in it, and
   no new session takes them. *)
Named(i) == alias[i] # None \/ AliasesOf(i) # {} \/ ckpt[i] # None

StaleApart ==
  proc # "down" =>
    \A c, j \in Ids :
      reg[c] = None /\ ckpt[c] # None /\ (j = c \/ j \in ckpt[c].aliases) =>
        SlotOf(j) = None /\ Named(j)

(* What the row of a registered session says. *)
LEMMA RowOf ==
  ASSUME IInv, AgreesInv, proc # "down", NEW c \in Ids, reg[c] # None
  PROVE  /\ ckpt[c] # None => ckpt[c].cwd = slot[reg[c]].cwd /\ ckpt[c].aliases = AliasesOf(c)
         /\ alias[c] = None
         /\ Saved(reg, slot, alias)[c] # None =>
              /\ Saved(reg, slot, alias)[c].cwd = slot[reg[c]].cwd
              /\ Saved(reg, slot, alias)[c].aliases = AliasesOf(c)
<1>1. Saved(reg, slot, alias)[c] # None =>
        /\ Saved(reg, slot, alias)[c].cwd = slot[reg[c]].cwd
        /\ Saved(reg, slot, alias)[c].aliases = AliasesOf(c)
  <2>1. Saved(reg, slot, alias)[c] = SavedRow(reg, slot, alias, c) BY SavedRows
  <2>2. CASE slot[reg[c]].status = "provisioning" BY <2>1, <2>2 DEF SavedRow
  <2>3. CASE slot[reg[c]].status # "provisioning"
    <3>1. SavedRow(reg, slot, alias, c) =
            [cwd |-> slot[reg[c]].cwd, burn |-> slot[reg[c]].burn, aliases |-> AliasesOf(c)]
      BY <2>3 DEF SavedRow, AliasesOf
    <3> QED BY <2>1, <3>1
  <2> QED BY <2>2, <2>3
<1>2. alias[c] = None BY DEF IInv, AliasesFlat
<1>3. ckpt[c] # None => ckpt[c] = Saved(reg, slot, alias)[c]
  BY <1>1, SavedRows DEF AgreesInv, RowsAgree, Row
<1> QED BY <1>1, <1>2, <1>3

(* A session that is not registered has none to save. *)
LEMMA NoRow ==
  ASSUME NEW c \in Ids, reg[c] = None
  PROVE  Row(c) = None /\ Saved(reg, slot, alias)[c] = None
BY DEF Row, Saved

(* The steps that leave such rows alone, or make one. *)
LEMMA StaleSaved == ASSUME Save PROVE StaleApart'
<1>1. \A c \in Ids : ckpt'[c] = SavedRow(reg', slot', alias', c) BY SavedRows DEF Save
<1> QED BY <1>1 DEF StaleApart, SavedRow

LEMMA StaleStill ==
  ASSUME StaleApart, proc # "down", reg' = reg, alias' = alias, ckpt' = ckpt
  PROVE  StaleApart'
BY DEF StaleApart, SlotOf, Canonical, Named, AliasesOf

LEMMA StaleDropped ==
  ASSUME IInv, AgreesInv, StaleApart, proc # "down", ckpt' = ckpt, alias' = alias,
         NEW d \in Ids, \A y \in Ids : reg'[y] = IF y = d THEN None ELSE reg[y]
  PROVE  StaleApart'
<1>1. \A j \in Ids : Canonical(j) \in Ids /\ Canonical(j)' = Canonical(j)
                     /\ Named(j)' = Named(j)
  BY DEF Canonical, Named, AliasesOf, IInv, TypeOK
<1>2. \A j \in Ids : SlotOf(j) = None \/ Canonical(j) = d => SlotOf(j)' = None
  BY <1>1 DEF SlotOf
<1> SUFFICES ASSUME NEW c \in Ids, NEW j \in Ids, reg'[c] = None, ckpt[c] # None,
                    j = c \/ j \in ckpt[c].aliases
             PROVE  SlotOf(j)' = None /\ Named(j)'
  BY DEF StaleApart
<1>3. CASE reg[c] = None BY <1>1, <1>2, <1>3 DEF StaleApart
<1>4. CASE reg[c] # None
  <2>1. c = d /\ alias[c] = None /\ ckpt[c].aliases = AliasesOf(c) BY <1>4, RowOf
  <2>2. Canonical(j) = c BY <2>1, ConstantsAssumption DEF Canonical, AliasesOf
  <2>3. Named(j) BY <2>1, ConstantsAssumption DEF Named, AliasesOf
  <2> QED BY <1>1, <1>2, <2>1, <2>2, <2>3
<1> QED BY <1>3, <1>4

LEMMA StaleNew ==
  ASSUME IInv, StaleApart, proc # "down", ckpt' = ckpt, alias' = alias,
         NEW i \in Ids, NEW n, n # None, Unused(i),
         \A y \in Ids : reg'[y] = IF y = i THEN n ELSE reg[y]
  PROVE  StaleApart'
<1>1. \A j \in Ids : Canonical(j) \in Ids /\ Canonical(j)' = Canonical(j)
                     /\ Named(j)' = Named(j)
  BY DEF Canonical, Named, AliasesOf, IInv, TypeOK
<1>2. \A j \in Ids : Canonical(j) = i => j = i
  BY DEF Canonical, Unused, AliasesOf
<1>3. ~Named(i) BY DEF Named, Unused
<1> SUFFICES ASSUME NEW c \in Ids, NEW j \in Ids, reg'[c] = None, ckpt[c] # None,
                    j = c \/ j \in ckpt[c].aliases
             PROVE  SlotOf(j)' = None /\ Named(j)'
  BY DEF StaleApart
<1>4. reg[c] = None
  BY DEF Unused
<1>5. SlotOf(j) = None /\ Named(j) BY <1>4 DEF StaleApart
<1>6. Canonical(j) # i BY <1>2, <1>3, <1>5
<1> QED BY <1>1, <1>5, <1>6 DEF SlotOf

LEMMA StaleRekeyed ==
  ASSUME IInv, AgreesInv, StaleApart, proc # "down", ckpt' = ckpt,
         NEW d \in Ids, reg[d] # None, NEW x \in Ids, x # d, alias[x] = d,
         alias' = Rekeyed(d, x),
         \A y \in Ids : reg'[y] = IF y = d THEN None ELSE reg[y]
  PROVE  StaleApart'
<1>1. alias[d] = None /\ reg[x] = None
  BY ConstantsAssumption DEF IInv, AliasesFlat
<1>2. \A y \in Ids : alias'[y] = IF y = x THEN None
                                 ELSE IF y = d \/ alias[y] = d THEN x ELSE alias[y]
  BY DEF Rekeyed
<1> SUFFICES ASSUME NEW c \in Ids, NEW j \in Ids, reg'[c] = None, ckpt[c] # None,
                    j = c \/ j \in ckpt[c].aliases
             PROVE  SlotOf(j)' = None /\ Named(j)'
  BY DEF StaleApart
<1>3. ASSUME j = d \/ alias[j] = d PROVE SlotOf(j)' = None /\ Named(j)'
  <2>1. CASE j = x
    <3>1. Canonical(j)' = x BY <1>2, <2>1 DEF Canonical
    <3>2. d \in AliasesOf(j)' BY <1>2, <2>1 DEF AliasesOf
    <3> QED BY <1>1, <3>1, <3>2 DEF SlotOf, Named
  <2>2. CASE j # x
    <3>1. alias'[j] = x /\ x # None BY <1>2, <1>3, <2>2, ConstantsAssumption
    <3> QED BY <1>1, <3>1 DEF SlotOf, Canonical, Named
  <2> QED BY <2>1, <2>2
<1>4. ASSUME reg[c] # None PROVE j = d \/ alias[j] = d
  <2>1. c = d /\ ckpt[c].aliases = AliasesOf(c) BY <1>4, RowOf
  <2> QED BY <2>1 DEF AliasesOf
<1>5. ASSUME reg[c] = None, j # d, alias[j] # d PROVE SlotOf(j)' = None /\ Named(j)'
  <2>1. SlotOf(j) = None /\ Named(j) BY <1>5 DEF StaleApart
  <2>2. j # x /\ alias'[j] = alias[j] BY <1>2, <1>5
  <2>3. Canonical(j)' = Canonical(j) /\ Canonical(j) \in Ids
    BY <2>2 DEF Canonical, IInv, TypeOK
  <2>4. SlotOf(j)' = None BY <2>1, <2>3 DEF SlotOf
  <2>5. \A z \in Ids : alias[z] = j => alias'[z] = j
    BY <1>1, <1>2, <1>5, ConstantsAssumption DEF IInv, AliasesFlat
  <2>6. Named(j)' BY <2>1, <2>2, <2>5 DEF Named, AliasesOf
  <2> QED BY <2>4, <2>6
<1> QED BY <1>3, <1>4, <1>5

LEMMA StaleGone == ASSUME proc' = "down" PROVE StaleApart'
BY DEF StaleApart

LEMMA InitStale == Init => StaleApart
BY DEF Init, StaleApart

LEMMA NextStale ==
  ASSUME Guarded, IInv, SlotsInv, WorkInv, AgreesInv, StaleApart, [Next]_vars
  PROVE  StaleApart'
<1>0. IInv' BY NextInv
<1>1. CASE UNCHANGED vars BY <1>1 DEF vars, StaleApart, SlotOf, Canonical, Named, AliasesOf
<1>2. CASE Next
  <2>1. CASE Save BY <2>1, StaleSaved
  <2>2. CASE PlainStep
    <3>1. /\ proc # "down" /\ alias' = alias /\ reg' = reg /\ (Save \/ ckpt' = ckpt)
      BY <2>2 DEF PlainStep, Commit
    <3> QED BY <3>1, StaleSaved, StaleStill
  <2>3. ASSUME NEW i \in Ids, NEW b \in BOOLEAN, RegisterProvisioning(i, b) PROVE StaleApart'
    <3>1. /\ Unused(i) /\ proc # "down" /\ alias' = alias /\ ckpt' = ckpt
      BY <2>3 DEF RegisterProvisioning, Up
    <3>2. PICK n \in Objs : Adds(i, i, n, NewSlot(i, i, "provisioning", "none", b))
      BY <2>3, RegisterProvisioningAdds
    <3>3. \A y \in Ids : reg'[y] = IF y = i THEN n ELSE reg[y]
      BY <3>2, <1>0, AddsHomes
    <3> QED BY <3>1, <3>3, StaleNew, ConstantsAssumption
  <2>4. ASSUME NEW i \in Ids, CloneDone(i) \/ CloneFailed(i) PROVE StaleApart'
    <3>1. proc # "down" /\ alias' = alias BY <2>4 DEF CloneDone, CloneFailed, Runs
    <3>2. CASE CloneFailed(i)
      <4>1. ckpt' = ckpt /\ reg' = reg BY <1>0, <3>2, CloneFailedReplaces, ReplacesHomes
      <4> QED BY <3>1, <4>1, StaleStill
    <3>3. CASE Drops(i) /\ ckpt' = ckpt
      <4>1. \A y \in Ids : reg'[y] = IF y = i THEN None ELSE reg[y]
        BY <1>0, <3>3, DropsHomes
      <4> QED BY <3>1, <3>3, <4>1, StaleDropped
    <3> QED BY <2>1, <2>4, <3>2, <3>3, CloneDoneCases
  <2>5. ASSUME NEW i \in Ids, MessageAtCap(i) PROVE StaleApart'
    <3> DEFINE c == slot[SlotOf(i)].sid
    <3>1. /\ Wakeable(i) /\ ckpt' = ckpt /\ Commit(slot, [reg EXCEPT ![c] = None])
          /\ \E x \in ResumableIds(c) \ {c} : alias' = Rekeyed(c, x)
      BY <2>5 DEF MessageAtCap
    <3>2. /\ c \in Ids /\ reg[c] = SlotOf(i) /\ reg[c] # None /\ proc # "down"
      BY <3>1, WakeFree DEF Wakeable, Writable
    <3> HIDE DEF c
    <3>3. PICK x \in Ids : x # c /\ alias[x] = c /\ alias' = Rekeyed(c, x)
      BY <3>1, <3>2 DEF ResumableIds, AliasesOf
    <3>4. \A y \in Ids : reg'[y] = IF y = c THEN None ELSE reg[y]
      BY <3>1 DEF Commit, IInv, TypeOK
    <3> QED BY <3>1, <3>2, <3>3, <3>4, StaleRekeyed
  <2>6. ASSUME NEW o \in Objs, Recover(o) PROVE StaleApart'
    <3> DEFINE c == slot[o].sid
    <3>1. c \in Ids /\ proc # "down" BY Zenon, <2>6, SlotFacts DEF Recover
    <3>2. CASE Drops(c) /\ alias' = alias /\ ckpt' = ckpt
      <4> HIDE DEF c
      <4>1. \A y \in Ids : reg'[y] = IF y = c THEN None ELSE reg[y]
        BY <1>0, <3>1, <3>2, DropsHomes
      <4> QED BY <3>1, <3>2, <4>1, StaleDropped
    <3> QED BY <2>1, <2>6, <3>2, RecoverCases
  <2>7. CASE Boot
    <3>1. \A c \in Ids : reg'[c] = None => ckpt'[c] = None BY <1>0, <2>7, BootFacts
    <3> QED BY <3>1 DEF StaleApart
  <2>8. CASE Exit \/ Crash \/ BootDies \/ \E o \in Objs : RecoverDies(o) \/ DestroyDies(o)
    BY <2>8, Deaths, StaleGone DEF Dead, BootDies
  <2>9. CASE Shutdown \/ \E i \in Ids : DestroyUnregistered(i)
    BY <2>9, StaleStill DEF Shutdown, DestroyUnregistered, Up
  <2>10. ASSUME NEW i \in Ids,
                \/ \E b \in BOOLEAN : StartNewConversation(i, b)
                \/ MessagePrunes(i) \/ MessageRevives(i)
         PROVE  Save
    BY Zenon, <2>10 DEF StartNewConversation, MessagePrunes, MessageRevives
  <2>11. ASSUME NEW o \in Objs, EndFinishes(o) \/ DestroyFinishes(o) PROVE Save
    BY <2>11 DEF EndFinishes, DestroyFinishes
  <2>12. ASSUME NEW o \in Objs, NEW new \in Ids, FrameSwapsId(o, new) PROVE Save
    BY <2>12 DEF FrameSwapsId
  <2> QED BY <1>2, <2>1, <2>2, <2>3, <2>4, <2>5, <2>6, <2>7, <2>8, <2>9, <2>10, <2>11,
             <2>12, StepKinds
<1> QED BY <1>1, <1>2

(* Nor does a registered session live in the workspace of such a row. *)
StaleHomes ==
  proc # "down" =>
    \A c \in Ids : \A p \in Registered :
      reg[c] = None /\ ckpt[c] # None => slot[p].cwd # ckpt[c].cwd

LEMMA HomesSaved == ASSUME Save PROVE StaleHomes'
<1>1. \A c \in Ids : ckpt'[c] = SavedRow(reg', slot', alias', c) BY SavedRows DEF Save
<1> QED BY <1>1 DEF StaleHomes, SavedRow

LEMMA InitHomes == Init => StaleHomes
BY DEF Init, StaleHomes

LEMMA HomesStill ==
  ASSUME IInv, SlotsInv, WorkInv, AgreesInv, StaleHomes, IInv', proc # "down", ckpt' = ckpt,
         HomesKept, \A y \in Ids : reg'[y] \in {None, reg[y]}
  PROVE  StaleHomes'
<1> SUFFICES ASSUME NEW c \in Ids, NEW p \in Registered', reg'[c] = None, ckpt[c] # None
             PROVE  slot'[p].cwd # ckpt[c].cwd
  BY DEF StaleHomes
<1>1. PICK y \in Ids : reg'[y] = p BY DEF Registered
<1>2. p # None /\ reg[y] = p BY <1>1, ConstantsAssumption DEF Registered
<1>3. p \in Registered /\ slot'[p] # None
  BY <1>1, <1>2 DEF Registered, IInv, RegistryConsistent, Live
<1>4. slot'[p].cwd = slot[p].cwd BY <1>3 DEF HomesKept
<1>5. CASE reg[c] = None BY <1>3, <1>4, <1>5 DEF StaleHomes
<1>6. CASE reg[c] # None
  <2>1. ckpt[c].cwd = slot[reg[c]].cwd BY <1>6, RowOf
  <2>2. reg[c] # p /\ reg[c] \in Registered
    <3>1. reg[c] \in Objs BY <1>6 DEF IInv, TypeOK
    <3>2. c # y BY <1>1, <1>2
    <3> QED BY <1>2, <1>6, <3>1, <3>2, RegFacts DEF Registered
  <2> QED BY <1>3, <1>4, <2>1, <2>2 DEF WorkInv, WorkspaceOwned
<1> QED BY <1>5, <1>6

LEMMA NextHomes ==
  ASSUME Guarded, IInv, SlotsInv, WorkInv, AgreesInv, StaleHomes, [Next]_vars
  PROVE  StaleHomes'
<1>0. IInv' BY NextInv
<1>1. CASE UNCHANGED vars BY <1>1 DEF vars, StaleHomes, Registered
<1>2. CASE Next
  <2>1. CASE Save BY <2>1, HomesSaved
  <2>2. CASE PlainStep
    <3>1. /\ proc # "down" /\ reg' = reg /\ (Save \/ ckpt' = ckpt) /\ HomesKept
      BY <1>0, <2>2, PlainHomes DEF PlainStep, Commit
    <3> QED BY <1>0, <3>1, HomesSaved, HomesStill
  <2>3. ASSUME NEW i \in Ids, NEW b \in BOOLEAN, RegisterProvisioning(i, b) PROVE StaleHomes'
    <3>1. /\ Unused(i) /\ proc # "down" /\ ckpt' = ckpt
      BY <2>3 DEF RegisterProvisioning, Up
    <3>2. PICK n \in Objs : Adds(i, i, n, NewSlot(i, i, "provisioning", "none", b))
      BY <2>3, RegisterProvisioningAdds
    <3>3. /\ HomesKept /\ slot'[n].cwd = i
          /\ \A y \in Ids : reg'[y] = IF y = i THEN n ELSE reg[y]
      BY <3>2, <1>0, AddsHomes DEF NewSlot
    <3>4. ASSUME NEW c \in Ids, reg'[c] = None, ckpt[c] # None
          PROVE  reg[c] = None /\ ckpt[c].cwd # i
      <4>1. reg[c] = None BY <3>1, <3>3, <3>4 DEF Unused
      <4>3. Row(c) = None BY <4>1, NoRow
      <4>2. ws[ckpt[c].cwd] BY <3>1, <3>4, <4>1, <4>3 DEF AgreesInv, RowsAgree
      <4> QED BY <3>1, <4>1, <4>2 DEF Unused
    <3>5. ASSUME NEW p \in Registered', p # n
          PROVE  p \in Registered /\ slot'[p].cwd = slot[p].cwd
      <4>1. PICK y \in Ids : reg'[y] = p /\ p \in Objs BY DEF Registered
      <4>2. reg[y] = p /\ slot'[p] # None
        BY <1>0, <3>3, <3>5, <4>1, ConstantsAssumption DEF IInv, RegistryConsistent, Live
      <4>3. p \in Registered BY <4>1, <4>2 DEF Registered
      <4> QED BY <3>3, <4>2, <4>3 DEF HomesKept
    <3> SUFFICES ASSUME NEW c \in Ids, NEW p \in Registered', reg'[c] = None, ckpt[c] # None
                 PROVE  slot'[p].cwd # ckpt[c].cwd
      BY <3>1 DEF StaleHomes
    <3>6. reg[c] = None /\ ckpt[c].cwd # i BY <3>4
    <3>7. CASE p = n BY <3>3, <3>6, <3>7
    <3>8. CASE p # n
      <4>1. p \in Registered /\ slot'[p].cwd = slot[p].cwd BY <3>5, <3>8
      <4> QED BY <3>1, <3>6, <4>1 DEF StaleHomes
    <3> QED BY <3>7, <3>8
  <2>4. ASSUME NEW i \in Ids, CloneDone(i) \/ CloneFailed(i) PROVE StaleHomes'
    <3>1. proc # "down" BY <2>4 DEF CloneDone, CloneFailed, Runs
    <3>2. CASE CloneFailed(i)
      <4>1. ckpt' = ckpt /\ reg' = reg /\ HomesKept
        BY <1>0, <3>2, CloneFailedReplaces, ReplacesHomes
      <4> QED BY <1>0, <3>1, <4>1, HomesStill
    <3>3. CASE Drops(i) /\ ckpt' = ckpt BY <1>0, <3>1, <3>3, DropsHomes, HomesStill
    <3> QED BY <2>1, <2>4, <3>2, <3>3, CloneDoneCases
  <2>5. ASSUME NEW i \in Ids, MessageAtCap(i) PROVE StaleHomes'
    <3> DEFINE c == slot[SlotOf(i)].sid
    <3>1. /\ Wakeable(i) /\ ckpt' = ckpt /\ Commit(slot, [reg EXCEPT ![c] = None])
      BY <2>5 DEF MessageAtCap
    <3>2. c \in Ids /\ reg[c] # None /\ proc # "down"
      BY <3>1, WakeFree DEF Wakeable, Writable
    <3>3. Drops(c) BY <3>1, <3>2, PlainDrops
    <3> HIDE DEF c
    <3> QED BY <1>0, <3>1, <3>2, <3>3, DropsHomes, HomesStill
  <2>6. ASSUME NEW o \in Objs, Recover(o) PROVE StaleHomes'
    <3> DEFINE c == slot[o].sid
    <3>1. c \in Ids /\ proc # "down" BY Zenon, <2>6, SlotFacts DEF Recover
    <3>2. CASE Drops(c) /\ ckpt' = ckpt
      <4> HIDE DEF c
      <4> QED BY <1>0, <3>1, <3>2, DropsHomes, HomesStill
    <3> QED BY <2>1, <2>6, <3>2, RecoverCases
  <2>7. CASE Boot
    <3>1. \A c \in Ids : reg'[c] = None => ckpt'[c] = None BY <1>0, <2>7, BootFacts
    <3> QED BY <3>1 DEF StaleHomes
  <2>8. CASE Exit \/ Crash \/ BootDies \/ \E o \in Objs : RecoverDies(o) \/ DestroyDies(o)
    <3>1. proc' = "down" BY <2>8, Deaths DEF Dead, BootDies
    <3> QED BY <3>1 DEF StaleHomes
  <2>9. CASE Shutdown \/ \E i \in Ids : DestroyUnregistered(i)
    <3>1. reg' = reg /\ slot' = slot /\ ckpt' = ckpt /\ proc # "down"
      BY <2>9 DEF Shutdown, DestroyUnregistered, Up
    <3> QED BY <3>1 DEF StaleHomes, Registered
  <2>10. ASSUME NEW i \in Ids,
                \/ \E b \in BOOLEAN : StartNewConversation(i, b)
                \/ MessagePrunes(i) \/ MessageRevives(i)
         PROVE  Save
    BY Zenon, <2>10 DEF StartNewConversation, MessagePrunes, MessageRevives
  <2>11. ASSUME NEW o \in Objs, EndFinishes(o) \/ DestroyFinishes(o) PROVE Save
    BY <2>11 DEF EndFinishes, DestroyFinishes
  <2>12. ASSUME NEW o \in Objs, NEW new \in Ids, FrameSwapsId(o, new) PROVE Save
    BY <2>12 DEF FrameSwapsId
  <2> QED BY <1>2, <2>1, <2>2, <2>3, <2>4, <2>5, <2>6, <2>7, <2>8, <2>9, <2>10, <2>11,
             <2>12, StepKinds
<1> QED BY <1>1, <1>2

-----------------------------------------------------------------------------
(* Where an id leads, step by step *)

(* The process ends: an id leads to the row of the session it led to, but for
   the sessions G, that come back under a new id only. *)
LEMMA DownNames ==
  ASSUME IInv, SlotsInv, WorkInv, AgreesInv, StaleApart, StaleHomes, proc # "down",
         proc' = "down", ws' = ws, NEW G \in SUBSET Ids,
         \A d \in Ids : ckpt'[d] # None =>
           \/ ckpt'[d] = ckpt[d]
           \/ ckpt'[d] = Saved(reg, slot, alias)[d]
           \/ /\ Unused(d) /\ ckpt'[d].aliases = {}
              /\ \E g \in G : reg[g] # None /\ ckpt'[d].cwd = slot[reg[g]].cwd,
         \A i \in Ids : Canonical(i) \in G => DiesRecovering(i)
  PROVE  NamesKept
<1>1. ASSUME NEW c \in Ids, reg[c] # None, ckpt'[c] # None
      PROVE  /\ ckpt'[c].cwd = slot[reg[c]].cwd /\ ckpt'[c].aliases = AliasesOf(c)
             /\ alias[c] = None
  <2>1. ckpt'[c] \in {ckpt[c], Saved(reg, slot, alias)[c]} BY <1>1 DEF Unused
  <2> QED BY <1>1, <2>1, RowOf
<1>2. ASSUME NEW c \in Ids, NEW j \in Ids, ckpt'[c] # None, reg[c] = None,
             j = c \/ j \in ckpt'[c].aliases
      PROVE  SlotOf(j) = None
  <2>1. CASE ckpt'[c] = ckpt[c] BY <1>2, <2>1 DEF StaleApart
  <2>2. CASE ckpt'[c] = Saved(reg, slot, alias)[c]
    BY <1>2, <2>2, NoRow
  <2>3. CASE Unused(c) /\ ckpt'[c].aliases = {}
    BY <1>2, <2>3 DEF Unused, SlotOf, Canonical
  <2> QED BY <1>2, <2>1, <2>2, <2>3
<1>3. ASSUME NEW j \in Ids, SlotOf(j) # None, NEW d \in Restored(j)'
      PROVE  d = Canonical(j) /\ ckpt'[d] # None /\ ckpt'[d].cwd = slot[SlotOf(j)].cwd
             /\ ws[slot[SlotOf(j)].cwd]
  <2>1. /\ d \in Ids /\ ckpt'[d] # None /\ ws[ckpt'[d].cwd]
        /\ j = d \/ j \in ckpt'[d].aliases
    BY <1>3 DEF Restored, Restorable
  <2>2. reg[d] # None BY <1>2, <1>3, <2>1
  <2>3. ckpt'[d].cwd = slot[reg[d]].cwd /\ ckpt'[d].aliases = AliasesOf(d) /\ alias[d] = None
    BY <1>1, <2>1, <2>2
  <2>4. d = Canonical(j) BY <2>1, <2>3, ConstantsAssumption DEF Canonical, AliasesOf
  <2> QED BY <2>1, <2>3, <2>4 DEF SlotOf
<1>4. ASSUME NEW j \in Ids, SlotOf(j) # None, ckpt'[Canonical(j)] # None,
             ws[slot[SlotOf(j)].cwd]
      PROVE  Canonical(j) \in Restored(j)'
  <2>1. Canonical(j) \in Ids /\ reg[Canonical(j)] = SlotOf(j) BY <1>4, SlotOfFacts
  <2>2. /\ ckpt'[Canonical(j)].cwd = slot[SlotOf(j)].cwd
        /\ ckpt'[Canonical(j)].aliases = AliasesOf(Canonical(j))
    BY <1>1, <1>4, <2>1
  <2>3. j = Canonical(j) \/ j \in AliasesOf(Canonical(j)) BY DEF Canonical, AliasesOf
  <2> QED BY <1>4, <2>1, <2>2, <2>3 DEF Restored, Restorable
<1> SUFFICES ASSUME NEW i \in Ids, NEW w \in LeadsTo(i), LeadsTo(i)' # {w}
             PROVE  /\ LeadsTo(i)' = {}
                    /\ DiesRecovering(i) \/ \A j \in Ids : w \notin LeadsTo(j)'
  BY DEF NamesKept
<1>5. \A k \in Ids : LeadsTo(k)' = {ckpt'[c].cwd : c \in Restored(k)'} BY DEF LeadsTo
<1>6. SlotOf(i) # None /\ slot[SlotOf(i)].cwd = w BY UpNames
<1>7. Restored(i)' = {}
  <2> SUFFICES ASSUME NEW d \in Restored(i)' PROVE FALSE
    OBVIOUS
  <2>1. \A e \in Restored(i)' : ckpt'[e].cwd = w BY <1>3, <1>6
  <2> QED BY <1>5, <2>1
<1>8. ckpt'[Canonical(i)] = None \/ ~ws[w] BY <1>4, <1>6, <1>7
<1>9. ASSUME ~DiesRecovering(i), NEW j \in Ids, w \in LeadsTo(j)' PROVE FALSE
  <2>1. Canonical(i) \notin G BY <1>9
  <2>2. PICK d \in Restored(j)' : ckpt'[d].cwd = w BY <1>5, <1>9
  <2>3. d \in Ids /\ ckpt'[d] # None /\ ws[w] BY <2>2 DEF Restored, Restorable
  <2>4. SlotOf(i) \in Registered /\ reg[Canonical(i)] = SlotOf(i) /\ Canonical(i) \in Ids
    BY <1>6, SlotOfFacts DEF Registered
  <2>5. ASSUME NEW g \in Ids, reg[g] # None, slot[reg[g]].cwd = w PROVE g = Canonical(i)
    <3>1. reg[g] \in Registered BY <2>5 DEF Registered, IInv, TypeOK
    <3>2. reg[g] = SlotOf(i) BY <1>6, <2>4, <2>5, <3>1 DEF WorkInv, WorkspaceOwned
    <3> QED BY <2>4, <2>5, <3>2, RegFacts
  <2>6. d # Canonical(i) BY <1>8, <2>3
  <2>7. CASE reg[d] # None BY <1>1, <2>2, <2>3, <2>5, <2>6, <2>7
  <2>8. CASE reg[d] = None
    <3>1. CASE ckpt'[d] = ckpt[d]
      BY <1>6, <2>2, <2>3, <2>4, <2>8, <3>1 DEF StaleHomes
    <3>2. CASE ckpt'[d] = Saved(reg, slot, alias)[d]
      BY <2>3, <2>8, <3>2, NoRow
    <3>3. CASE \E g \in G : reg[g] # None /\ ckpt'[d].cwd = slot[reg[g]].cwd
      BY <2>1, <2>2, <2>5, <3>3
    <3> QED BY <2>3, <3>1, <3>2, <3>3
  <2> QED BY <2>7, <2>8
<1> QED BY <1>5, <1>7, <1>9

(* What is in the checkpoint after the death of a teardown, and of a recovery. *)
LEMMA DestroyDiesRows ==
  ASSUME IInv, NEW o \in Objs, DestroyDies(o), NEW d \in Ids, ckpt'[d] # None
  PROVE  ckpt'[d] = Saved(reg, slot, alias)[d]
<1> DEFINE c == slot[o].sid
           r == [reg EXCEPT ![c] = None]
<1>1. ckpt'[d] = SavedRow(r, slot, DropAliases(c), d) BY SavedRows DEF DestroyDies
<1>2. r[d] # None BY <1>1 DEF SavedRow
<1>3. d # c /\ r[d] = reg[d] BY <1>2 DEF IInv, TypeOK
<1> HIDE DEF r, c
<1>4. {x \in Ids : DropAliases(c)[x] = d} = {x \in Ids : alias[x] = d}
  BY <1>3, ConstantsAssumption DEF DropAliases
<1>5. SavedRow(r, slot, DropAliases(c), d) = SavedRow(reg, slot, alias, d)
  BY <1>3, <1>4 DEF SavedRow
<1> QED BY <1>1, <1>5, SavedRows

LEMMA RecoverDiesRows ==
  ASSUME IInv, NEW o \in Objs, RecoverDies(o), NEW d \in Ids, ckpt'[d] # None
  PROVE  \/ ckpt'[d] = Saved(reg, slot, alias)[d]
         \/ /\ Unused(d) /\ ckpt'[d].aliases = {} /\ reg[slot[o].sid] # None
            /\ ckpt'[d].cwd = slot[reg[slot[o].sid]].cwd
<1> DEFINE c == slot[o].sid
           r == [reg EXCEPT ![c] = None]
<1>1. PICK x \in Ids :
        /\ Unused(x) /\ reg[c] # None
        /\ ckpt' = [Saved(r, slot, alias) EXCEPT ![x] =
                      [cwd |-> slot[reg[c]].cwd, burn |-> slot[reg[c]].burn, aliases |-> {}]]
  BY DEF RecoverDies
<1>2. CASE d = x
  <2>1. ckpt'[d] = [cwd |-> slot[reg[c]].cwd, burn |-> slot[reg[c]].burn, aliases |-> {}]
    <3> HIDE DEF r, c
    <3>1. DOMAIN Saved(r, slot, alias) = Ids BY DEF Saved
    <3> QED BY <1>1, <1>2, <3>1
  <2>2. ckpt'[d].cwd = slot[reg[c]].cwd /\ ckpt'[d].aliases = {} BY <2>1
  <2>3. Unused(d) /\ reg[c] # None BY <1>1, <1>2
  <2> QED BY <2>2, <2>3
<1>3. CASE d # x
  <2>1. ckpt'[d] = SavedRow(r, slot, alias, d)
    <3>1. ckpt'[d] = Saved(r, slot, alias)[d] BY <1>1, <1>3 DEF Saved
    <3> QED BY <3>1, SavedRows
  <2>2. r[d] # None BY <2>1 DEF SavedRow
  <2>3. r[d] = reg[d] BY <2>2 DEF IInv, TypeOK
  <2> HIDE DEF r, c
  <2>4. SavedRow(r, slot, alias, d) = SavedRow(reg, slot, alias, d) BY <2>3 DEF SavedRow
  <2> QED BY <2>1, <2>4, SavedRows
<1> QED BY <1>2, <1>3

LEMMA RowsDown ==
  ASSUME IInv, SlotsInv, WorkInv, AgreesInv, StaleApart, StaleHomes, proc # "down",
         proc' = "down", ws' = ws,
         \A d \in Ids : ckpt'[d] # None => ckpt'[d] \in {ckpt[d], Saved(reg, slot, alias)[d]}
  PROVE  NamesKept
<1> DEFINE G == {}
<1>1. G \in SUBSET Ids /\ \A i \in Ids : Canonical(i) \notin G OBVIOUS
<1>2. \A d \in Ids : ckpt'[d] # None =>
           \/ ckpt'[d] = ckpt[d]
           \/ ckpt'[d] = Saved(reg, slot, alias)[d]
           \/ /\ Unused(d) /\ ckpt'[d].aliases = {}
              /\ \E g \in G : reg[g] # None /\ ckpt'[d].cwd = slot[reg[g]].cwd
  OBVIOUS
<1> HIDE DEF G
<1> QED BY <1>1, <1>2, DownNames

LEMMA DeathsNames ==
  ASSUME IInv, SlotsInv, WorkInv, AgreesInv, StaleApart, StaleHomes,
         Exit \/ Crash \/ \E o \in Objs : RecoverDies(o) \/ DestroyDies(o)
  PROVE  NamesKept
<1>1. Dead("down") BY Deaths
<1>2. proc # "down" BY DEF Exit, Crash, RecoverDies, DestroyDies
<1>3. proc' = "down" /\ ws' = ws BY <1>1 DEF Dead
<1>4. CASE Exit \/ Crash
  <2>1. \A d \in Ids : ckpt'[d] \in {ckpt[d], Saved(reg, slot, alias)[d]}
    BY <1>4 DEF Exit, Crash
  <2> QED BY <1>2, <1>3, <2>1, RowsDown
<1>5. ASSUME NEW o \in Objs, DestroyDies(o) PROVE NamesKept
  <2>1. \A d \in Ids : ckpt'[d] # None => ckpt'[d] = Saved(reg, slot, alias)[d]
    BY <1>5, DestroyDiesRows
  <2> QED BY <1>2, <1>3, <2>1, RowsDown
<1>6. ASSUME NEW o \in Objs, RecoverDies(o) PROVE NamesKept
  <2> DEFINE G == {slot[o].sid}
  <2>1. Live(o) /\ slot[o].writer = "failed" BY <1>6 DEF RecoverDies
  <2>2. G \in SUBSET Ids BY <2>1, SlotFacts
  <2>3. \A i \in Ids : Canonical(i) \in G => DiesRecovering(i)
    BY <1>3, <2>1 DEF DiesRecovering
  <2>4. \A d \in Ids : ckpt'[d] # None =>
           \/ ckpt'[d] = Saved(reg, slot, alias)[d]
           \/ /\ Unused(d) /\ ckpt'[d].aliases = {}
              /\ \E g \in G : reg[g] # None /\ ckpt'[d].cwd = slot[reg[g]].cwd
    BY <1>6, RecoverDiesRows
  <2> HIDE DEF G
  <2> QED BY <1>2, <1>3, <2>2, <2>3, <2>4, DownNames
<1> QED BY <1>4, <1>5, <1>6

(* A boot: at most one row answers to an id, and the boot keeps it with all
   its ids or destroys its session under all of them. *)
LEMMA RestoredOnce ==
  ASSUME IInv, AgreesInv, NEW j \in Ids, NEW c \in Restored(j), NEW d \in Restored(j)
  PROVE  c = d
<1>1. /\ c \in Ids /\ ckpt[c] # None /\ (j = c \/ j \in ckpt[c].aliases)
      /\ d \in Ids /\ ckpt[d] # None /\ (j = d \/ j \in ckpt[d].aliases)
  BY DEF Restored, Restorable
<1> QED BY <1>1 DEF IInv, CkptFlat, AgreesInv, CkptAliasesApart

LEMMA BootNames ==
  ASSUME IInv, SlotsInv, WorkInv, AgreesInv, IInv', Boot
  PROVE  NamesKept
<1>1. proc = "down" /\ proc' # "down" BY DEF Boot
<1>2. ASSUME NEW i \in Ids, NEW c \in Restored(i), ~ckpt[c].burn
      PROVE  LeadsTo(i)' = {ckpt[c].cwd}
  <2>1. c \in Ids /\ Restorable(c) /\ (i = c \/ i \in ckpt[c].aliases) BY DEF Restored
  <2>2. /\ ckpt'[c] # None /\ reg'[c] # None /\ slot'[reg'[c]].cwd = ckpt[c].cwd
    BY <1>2, <2>1, BootFacts
  <2>3. {x \in Ids : alias'[x] = c} = ckpt[c].aliases
    BY <2>1, <2>2, BootAliases DEF AgreesInv
  <2>4. Canonical(i)' = c
    <3>1. CASE i = c
      <4>1. alias'[c] = None BY <2>1, <2>2 DEF IInv, AliasesFlat
      <4> QED BY <3>1, <4>1 DEF Canonical
    <3>2. CASE i \in ckpt[c].aliases
      <4>1. alias'[i] = c /\ c # None BY <2>1, <2>3, <3>2, ConstantsAssumption
      <4> QED BY <4>1 DEF Canonical
    <3> QED BY <2>1, <3>1, <3>2
  <2>5. SlotOf(i)' = reg'[c] BY <2>4 DEF SlotOf
  <2> QED BY <1>1, <2>2, <2>5, UpNames
<1>3. ASSUME NEW j \in Ids, SlotOf(j)' # None
      PROVE  \E k \in Restored(j) : ~ckpt[k].burn
  <2> DEFINE k == Canonical(j)'
  <2>1. k \in Ids /\ reg'[k] # None BY <1>3 DEF SlotOf, Canonical, IInv, TypeOK
  <2>2. ckpt'[k] # None /\ Restorable(k) /\ ~ckpt[k].burn BY <2>1, BootFacts
  <2>3. j = k \/ alias'[j] = k BY DEF Canonical
  <2> HIDE DEF k
  <2>4. {x \in Ids : alias'[x] = k} = ckpt[k].aliases
    BY <2>1, <2>2, BootAliases DEF AgreesInv
  <2> QED BY <2>1, <2>2, <2>3, <2>4 DEF Restored
<1> SUFFICES ASSUME NEW i \in Ids, NEW w \in LeadsTo(i), LeadsTo(i)' # {w}
             PROVE  LeadsTo(i)' = {} /\ \A j \in Ids : w \notin LeadsTo(j)'
  BY DEF NamesKept
<1>4. PICK c \in Restored(i) : ckpt[c].cwd = w BY <1>1 DEF LeadsTo
<1>5. ckpt[c].burn BY <1>2, <1>4
<1>6. SlotOf(i)' = None BY <1>3, <1>5, RestoredOnce
<1>7. ASSUME NEW j \in Ids, w \in LeadsTo(j)' PROVE FALSE
  <2> DEFINE k == Canonical(j)'
  <2>1. SlotOf(j)' # None /\ slot'[SlotOf(j)'].cwd = w BY <1>1, <1>7, UpNames
  <2>2. k \in Ids /\ reg'[k] # None /\ slot'[reg'[k]].cwd = w
    BY <2>1 DEF SlotOf, Canonical, IInv, TypeOK
  <2> HIDE DEF k
  <2>3. ckpt[k].cwd = w /\ Restorable(k) /\ ~ckpt[k].burn BY <2>2, BootFacts
  <2>4. c = k BY <1>4, <2>2, <2>3 DEF Restored, Restorable, WorkInv, CkptApart
  <2> QED BY <1>5, <2>3, <2>4
<1> QED BY <1>1, <1>6, <1>7, UpNames

(* A boot that the process does not survive: the sessions gone by then are gone
   under every id they had. *)
LEMMA BootDiesNames ==
  ASSUME IInv, WorkInv, AgreesInv, BootDies
  PROVE  NamesKept
<1>1. PICK gone \in SUBSET {i \in Ids : BurnsAtBoot(i)}, half \in SUBSET Ids :
        /\ ckpt' = [i \in Ids |-> IF Restorable(i) /\ i \notin gone THEN ckpt[i] ELSE None]
        /\ ws' = [i \in Ids |-> ws[i] /\ \A b \in gone \ half : ckpt[b].cwd # i]
  BY DEF BootDies
<1>2. proc = "down" /\ proc' = "down" BY DEF BootDies
<1>3. \A k \in Ids : /\ LeadsTo(k) = {ckpt[c].cwd : c \in Restored(k)}
                     /\ LeadsTo(k)' = {ckpt'[c].cwd : c \in Restored(k)'}
  BY <1>2 DEF LeadsTo
<1>4. ASSUME NEW j \in Ids, NEW d \in Restored(j)'
      PROVE  d \in Restored(j) /\ ckpt'[d] = ckpt[d] /\ d \notin gone
  <2>1. d \in Ids /\ ckpt'[d] # None /\ (j = d \/ j \in ckpt'[d].aliases)
    BY DEF Restored, Restorable
  <2> QED BY <1>1, <2>1 DEF Restored
<1> SUFFICES ASSUME NEW i \in Ids, NEW w \in LeadsTo(i), LeadsTo(i)' # {w}
             PROVE  LeadsTo(i)' = {} /\ \A j \in Ids : w \notin LeadsTo(j)'
  BY DEF NamesKept
<1>5. PICK c \in Restored(i) : ckpt[c].cwd = w BY <1>3
<1>6. c \in Ids /\ Restorable(c) /\ ckpt[c] # None /\ ws[w] /\ w \in Ids
      /\ (i = c \/ i \in ckpt[c].aliases)
  BY <1>5 DEF Restored, Restorable, IInv, TypeOK, CkptRec
<1>7. c \in gone
  <2> SUFFICES ASSUME c \notin gone PROVE FALSE
    OBVIOUS
  <2>1. ckpt'[c] = ckpt[c] BY <1>1, <1>6
  <2>2. \A b \in gone : ckpt[b].cwd # w
    BY <1>5, <1>6 DEF BurnsAtBoot, Restorable, WorkInv, CkptApart
  <2>3. ws'[w] BY <1>1, <1>6, <2>2
  <2>4. c \in Restored(i)' BY <1>5, <1>6, <2>1, <2>3 DEF Restored, Restorable
  <2>5. Restored(i)' = {c} BY <1>4, <2>4, RestoredOnce
  <2> QED BY <1>3, <1>5, <2>1, <2>5
<1>8. Restored(i)' = {} BY <1>4, <1>5, <1>7, RestoredOnce
<1>9. ASSUME NEW j \in Ids, w \in LeadsTo(j)' PROVE FALSE
  <2>1. PICK d \in Restored(j)' : ckpt'[d].cwd = w BY <1>3, <1>9
  <2>2. d \in Ids /\ ckpt[d] # None /\ ckpt[d].cwd = w /\ d \notin gone
    BY <1>4, <2>1 DEF Restored, Restorable
  <2>3. d = c BY <1>5, <1>6, <2>2 DEF WorkInv, CkptApart
  <2> QED BY <1>7, <2>2, <2>3
<1> QED BY <1>3, <1>8, <1>9

(* A session moves to another id with all the ids it has. *)
LEMMA RekeyedNames ==
  ASSUME IInv, NEW c \in Ids, reg[c] # None, NEW x \in ResumableIds(c),
         alias' = Rekeyed(c, x), NEW j \in Ids
  PROVE  Canonical(j)' = IF Canonical(j) = c THEN x ELSE Canonical(j)
<1>1. alias[c] = None BY DEF IInv, AliasesFlat
<1>2. CASE x = c
  <2>1. alias'[j] = alias[j] BY <1>2 DEF Rekeyed
  <2> QED BY <1>2, <2>1 DEF Canonical
<1>3. CASE x # c
  <2>1. x \in Ids /\ alias[x] = c BY <1>3 DEF ResumableIds, AliasesOf
  <2>2. alias'[j] = IF j = x THEN None ELSE IF j = c \/ alias[j] = c THEN x ELSE alias[j]
    BY <1>3 DEF Rekeyed
  <2> QED BY <1>1, <2>1, <2>2, ConstantsAssumption DEF Canonical
<1> QED BY <1>2, <1>3

LEMMA MovedNames ==
  ASSUME IInv, NEW c \in Ids, reg[c] # None, NEW x \in Ids, Unused(x),
         alias' = Moved(c, x), NEW j \in Ids
  PROVE  Canonical(j)' = IF Canonical(j) = c THEN x ELSE Canonical(j)
<1>1. alias[c] = None BY DEF IInv, AliasesFlat
<1>2. alias'[j] = IF j = c \/ alias[j] = c THEN x ELSE alias[j] BY DEF Moved
<1>3. x # None /\ c # None BY ConstantsAssumption
<1> QED BY <1>1, <1>2, <1>3 DEF Canonical

LEMMA NextNames ==
  ASSUME Guarded, IInv, SlotsInv, WorkInv, AgreesInv, StaleApart, StaleHomes, [Next]_vars
  PROVE  [NamesKept]_vars
<1> SUFFICES ASSUME Next PROVE NamesKept
  OBVIOUS
<1>0. IInv' /\ WorkspaceOwned BY NextInv DEF WorkInv
<1>1. CASE PlainStep
  <2>1. proc # "down" /\ proc' # "down" /\ alias' = alias /\ reg' = reg
    BY <1>1 DEF PlainStep, Commit
  <2> QED BY <1>0, <1>1, <2>1, PlainHomes, NamesStay
<1>2. ASSUME NEW i \in Ids, NEW b \in BOOLEAN,
             StartNewConversation(i, b) \/ RegisterProvisioning(i, b)
      PROVE  NamesKept
  <2>1. /\ proc # "down" /\ proc' # "down" /\ alias' = alias /\ reg[i] = None
    BY <1>2 DEF StartNewConversation, RegisterProvisioning, Up, Unused
  <2>2. PICK n \in Objs : \E s : Adds(i, i, n, s)
    BY <1>2, StartNewConversationAdds, RegisterProvisioningAdds
  <2>3. /\ HomesKept
        /\ \A y \in Ids : reg'[y] = IF y = i THEN n ELSE IF y = i THEN None ELSE reg[y]
    BY <1>0, <2>2, AddsHomes
  <2>4. \A j \in Ids : Canonical(j)' = IF Canonical(j) = i THEN i ELSE Canonical(j)
    BY <2>1 DEF Canonical
  <2> QED BY <1>0, <2>1, <2>3, <2>4, NamesMoved
<1>3. ASSUME NEW i \in Ids, MessagePrunes(i) \/ MessageAtCap(i) PROVE NamesKept
  <2> DEFINE c == slot[SlotOf(i)].sid
  <2>1. /\ Wakeable(i) /\ Commit(slot, [reg EXCEPT ![c] = None]) /\ proc' = proc
        /\ alias' = DropAliases(c) \/ \E x \in ResumableIds(c) \ {c} : alias' = Rekeyed(c, x)
    BY <1>3 DEF MessagePrunes, MessageAtCap
  <2>2. c \in Ids /\ reg[c] = SlotOf(i) /\ reg[c] # None /\ proc # "down"
    BY <2>1, WakeFree DEF Wakeable, Writable
  <2>3. Drops(c) BY <2>1, <2>2, PlainDrops
  <2> HIDE DEF c
  <2>4. HomesKept /\ \A y \in Ids : reg'[y] = IF y = c THEN None ELSE reg[y]
    BY <1>0, <2>2, <2>3, DropsHomes
  <2> QED BY <1>0, <2>1, <2>2, <2>4, NamesDropped
<1>4. ASSUME NEW i \in Ids, MessageRevives(i) PROVE NamesKept
  <2> DEFINE c == slot[SlotOf(i)].sid
  <2>1. Wakeable(i) /\ proc' = proc BY <1>4 DEF MessageRevives
  <2>2. c \in Ids /\ reg[c] = SlotOf(i) /\ reg[c] # None /\ proc # "down"
    BY <2>1, WakeFree DEF Wakeable, Writable
  <2>3. PICK x \in Ids, n \in Objs : \E s :
          /\ Adds(c, x, n, s) /\ s.cwd = slot[SlotOf(i)].cwd
          /\ x \in ResumableIds(c) /\ alias' = Rekeyed(c, x)
    BY <1>4, MessageRevivesAdds
  <2> HIDE DEF c
  <2>4. /\ HomesKept /\ slot'[n].cwd = slot[reg[c]].cwd /\ (x # c => reg[x] = None)
        /\ \A y \in Ids : reg'[y] = IF y = x THEN n ELSE IF y = c THEN None ELSE reg[y]
    BY <1>0, <2>2, <2>3, AddsHomes
  <2>5. \A j \in Ids : Canonical(j)' = IF Canonical(j) = c THEN x ELSE Canonical(j)
    BY <2>2, <2>3, RekeyedNames
  <2> QED BY <1>0, <2>1, <2>2, <2>4, <2>5, NamesMoved
<1>5. ASSUME NEW i \in Ids, CloneDone(i) \/ CloneFailed(i) PROVE NamesKept
  <2>1. proc # "down" /\ proc' # "down" /\ alias' = alias
    BY <1>5 DEF CloneDone, CloneFailed, Runs
  <2>2. CASE \E s : Replaces(i, s) BY <1>0, <2>1, <2>2, ReplacesHomes, NamesStay
  <2>3. CASE Drops(i)
    <3>1. HomesKept /\ \A y \in Ids : reg'[y] = IF y = i THEN None ELSE reg[y]
      BY <1>0, <2>3, DropsHomes
    <3> QED BY <1>0, <2>1, <3>1, NamesDropped
  <2> QED BY <1>5, <2>2, <2>3, CloneDoneCases, CloneFailedReplaces
<1>6. ASSUME NEW o \in Objs, Recover(o) PROVE NamesKept
  <2> DEFINE c == slot[o].sid
  <2>1. c \in Ids /\ proc # "down" /\ proc' = proc BY Zenon, <1>6, SlotFacts DEF Recover
  <2>2. CASE Drops(c) /\ alias' = alias
    <3> HIDE DEF c
    <3>1. HomesKept /\ \A y \in Ids : reg'[y] = IF y = c THEN None ELSE reg[y]
      BY <1>0, <2>1, <2>2, DropsHomes
    <3> QED BY <1>0, <2>1, <2>2, <3>1, NamesDropped
  <2>3. ASSUME reg[c] # None, NEW x \in Ids, NEW n \in Objs, NEW s,
               Adds(c, x, n, s), s.cwd = slot[reg[c]].cwd, Unused(x), alias' = Moved(c, x)
        PROVE  NamesKept
    <3> HIDE DEF c
    <3>1. /\ HomesKept /\ slot'[n].cwd = slot[reg[c]].cwd /\ (x # c => reg[x] = None)
          /\ \A y \in Ids : reg'[y] = IF y = x THEN n ELSE IF y = c THEN None ELSE reg[y]
      BY <1>0, <2>1, <2>3, AddsHomes
    <3>2. \A j \in Ids : Canonical(j)' = IF Canonical(j) = c THEN x ELSE Canonical(j)
      BY <2>1, <2>3, MovedNames
    <3> QED BY <1>0, <2>1, <2>3, <3>1, <3>2, NamesMoved
  <2> HIDE DEF c
  <2> QED BY <1>6, <2>2, <2>3, RecoverCases DEF c
<1>7. ASSUME NEW o \in Objs, EndFinishes(o) \/ DestroyFinishes(o) PROVE NamesKept
  <2> DEFINE c == slot[o].sid
  <2>1. /\ Live(o) /\ c \in Ids /\ proc # "down" /\ proc' = proc /\ alias' = DropAliases(c)
    BY <1>7, SlotFacts DEF EndFinishes, DestroyFinishes
  <2>2. Drops(c)
    BY <1>7, <2>1, StopsWaiting, TeardownDrops DEF EndFinishes, DestroyFinishes
  <2> HIDE DEF c
  <2>3. HomesKept /\ \A y \in Ids : reg'[y] = IF y = c THEN None ELSE reg[y]
    BY <1>0, <2>1, <2>2, DropsHomes
  <2> QED BY <1>0, <2>1, <2>3, NamesDropped
<1>8. CASE Shutdown \/ \E i \in Ids : DestroyUnregistered(i)
  <2>1. reg' = reg /\ slot' = slot /\ alias' = alias /\ proc # "down" /\ proc' # "down"
    BY <1>8 DEF Shutdown, DestroyUnregistered, Up
  <2> QED BY <1>0, <2>1, NamesStay DEF HomesKept
<1>9. CASE Exit \/ Crash \/ \E o \in Objs : RecoverDies(o) \/ DestroyDies(o)
  BY <1>9, DeathsNames
<1>10. CASE Boot \/ BootDies BY <1>0, <1>10, BootNames, BootDiesNames
<1>11. ASSUME NEW o \in Objs, NEW new \in Ids, FrameSwapsId(o, new) PROVE NamesKept
  <2> DEFINE c == slot[o].sid
  <2>1. PICK s, f, q : Swaps(o, c, new, s, f, q) BY <1>11, SwapFacts
  <2> HIDE DEF c
  <2>2. /\ c \in Ids /\ reg[c] = o /\ o # None /\ Unused(new) /\ alias' = Moved(c, new)
        /\ proc # "down" /\ proc' = proc
        /\ f \in [Objs -> SlotRec \cup {None}] /\ Commit(f, q)
        /\ \A p \in Objs : f[p] # None => f[p].cwd = slot[p].cwd
        /\ \A y \in Ids : q[y] = IF y = new THEN o ELSE IF y = c THEN None ELSE reg[y]
    BY <2>1, ConstantsAssumption DEF Swaps
  <2>3. reg' = q /\ HomesKept
    BY <1>0, <2>2, CommitFacts, RegisteredFacts DEF HomesKept
  <2>4. slot'[o] # None /\ o \in Registered
    BY <1>0, <2>2, <2>3 DEF IInv, RegistryConsistent, Live, Registered
  <2>5. slot'[o].cwd = slot[reg[c]].cwd BY <2>2, <2>3, <2>4 DEF HomesKept
  <2>6. \A j \in Ids : Canonical(j)' = IF Canonical(j) = c THEN new ELSE Canonical(j)
    BY <2>2, MovedNames
  <2>7. new # c => reg[new] = None BY <2>2 DEF Unused
  <2> QED BY <1>0, <2>2, <2>3, <2>5, <2>6, <2>7, NamesMoved
<1> QED BY <1>1, <1>2, <1>3, <1>4, <1>5, <1>6, <1>7, <1>8, <1>9, <1>10, <1>11, StepKinds

(* Whatever id a client holds, it keeps leading to the session it was given
   for: re-keyed by a wake, swapped by the child, taken over by a recovery, read
   back by a boot, the session answers under it until it is gone under every id
   it has, or the process dies between the two saves of a recovery. *)
THEOREM NamesStayTheirs == Guarded => (Spec => NamesLast)
<1> SUFFICES ASSUME Guarded PROVE Spec => NamesLast
  OBVIOUS
<1>1. Init => IInv /\ SlotsInv /\ WorkInv /\ AgreesInv /\ StaleApart /\ StaleHomes
  BY InitInv, InitSlots, InitWork, InitAgrees, InitStale, InitHomes
<1>2. IInv /\ SlotsInv /\ WorkInv /\ AgreesInv /\ StaleApart /\ StaleHomes /\ [Next]_vars =>
        (IInv /\ SlotsInv /\ WorkInv /\ AgreesInv /\ StaleApart /\ StaleHomes)'
  BY NextInv, NextSlots, NextWork, NextAgrees, NextStale, NextHomes
<1>3. IInv /\ SlotsInv /\ WorkInv /\ AgreesInv /\ StaleApart /\ StaleHomes /\ [Next]_vars => [NamesKept]_vars
  BY NextNames
<1> QED BY <1>1, <1>2, <1>3, PTL DEF Spec, NamesLast, NamesKept

=============================================================================
