--------------------------- MODULE DeviceTrustProofs ---------------------------
(***************************************************************************)
(* Proofs about DeviceTrust, for any number of handlers, devices, offers   *)
(* and restarts.                                                           *)
(***************************************************************************)
EXTENDS DeviceTrust, FiniteSetTheorems, TLAPS

-----------------------------------------------------------------------------
(* The inductive invariant *)

\* Devices, owner and numbers up to n: tokens belong to one device each and
\* the owner is the flagged device.
DevicesOK(devs, own, n) ==
    /\ DOMAIN devs \subseteq 1 .. n
    /\ devs \in [DOMAIN devs -> DeviceRecords]
    /\ \A d \in DOMAIN devs :
          devs[d].token <= n /\ devs[d].access <= n /\ devs[d].offer <= n
    /\ \A d, e \in DOMAIN devs : devs[d].token = devs[e].token => d = e
    /\ \A d, e \in DOMAIN devs : devs[d].access = devs[e].access => d = e
    /\ own \in DOMAIN devs \cup {None}
    /\ \A d \in DOMAIN devs : devs[d].owner <=> d = own

OffersOK(offs, n) ==
    /\ DOMAIN offs \subseteq 1 .. n
    /\ offs \in [DOMAIN offs -> Nat]
    /\ IsFiniteSet(DOMAIN offs)
    /\ Cardinality(DOMAIN offs) <= MaxOffers

\* No offer is open whose device is trusted, and none was used twice.
UsedOnce(devs, open) ==
    \A d \in DOMAIN devs : devs[d].offer # None =>
        /\ devs[d].offer \notin open
        /\ \A e \in DOMAIN devs : devs[e].offer = devs[d].offer => e = d

\* What holds of the registry and of every copy of it that may be restored.
Sound(reg, n) ==
    /\ DOMAIN reg = {"devices", "owner", "offers"}
    /\ DevicesOK(reg.devices, reg.owner, n)
    /\ OffersOK(reg.offers, n)
    /\ UsedOnce(reg.devices, DOMAIN reg.offers)

\* The index leads from the tokens tok[d] of the devices to the devices.
TokenIndexOK(index, devs) ==
    /\ DOMAIN index = {devs[d].token : d \in DOMAIN devs}
    /\ \A n \in DOMAIN index : index[n] \in DOMAIN devs /\ devs[index[n]].token = n

AccessIndexOK(index, devs) ==
    /\ DOMAIN index = {devs[d].access : d \in DOMAIN devs}
    /\ \A n \in DOMAIN index : index[n] \in DOMAIN devs /\ devs[index[n]].access = n

CopiesSound ==
    /\ Sound(disk, minted)
    /\ \A t \in Tasks : tasks[t].pc = "write" => Sound(tasks[t].copy, minted)

IInv ==
    /\ TypeOK
    /\ Sound(registry, minted)
    /\ TokenIndexOK(tokenIndex, registry.devices)
    /\ AccessIndexOK(accessIndex, registry.devices)
    /\ CopiesSound

-----------------------------------------------------------------------------
(* What the operations do to devices and offers *)

\* A sound registry is well typed.
LEMMA SoundType ==
    ASSUME NEW reg, NEW n \in Nat, Sound(reg, n)
    PROVE  IsRegistry(reg)
  BY DEF Sound, DevicesOK, OffersOK, IsRegistry, None

\* It stays sound when more numbers are minted.
LEMMA SoundGrows ==
    ASSUME NEW reg, NEW n \in Nat, NEW m \in Nat, n <= m, Sound(reg, n)
    PROVE  Sound(reg, m)
  <1>1. DevicesOK(reg.devices, reg.owner, m)
    <2>1. DOMAIN reg.devices \subseteq 1 .. m
      BY DEF Sound, DevicesOK
    <2>2. ASSUME NEW d \in DOMAIN reg.devices
          PROVE  /\ reg.devices[d].token <= m /\ reg.devices[d].access <= m
                 /\ reg.devices[d].offer <= m
      BY <2>2 DEF Sound, DevicesOK, DeviceRecords
    <2>3. QED
      BY <2>1, <2>2 DEF Sound, DevicesOK
  <1>2. OffersOK(reg.offers, m)
    BY DEF Sound, OffersOK
  <1>3. QED
    BY <1>1, <1>2 DEF Sound

\* A device with fresh tokens is added; it becomes the owner only if there is
\* none.
LEMMA InsertDevice ==
    ASSUME NEW devs, NEW own, NEW n \in Nat, DevicesOK(devs, own, n),
           NEW v \in DeviceRecords, NEW own2,
           v.token = n + 1, v.access = n + 2, v.offer <= n,
           \/ v.owner = FALSE /\ own2 = own
           \/ v.owner = TRUE /\ own = None /\ own2 = n + 1
    PROVE  DevicesOK(Insert(devs, n + 1, v), own2, n + 2)
  <1> DEFINE more == Insert(devs, n + 1, v)
  <1>1. /\ DOMAIN more = DOMAIN devs \cup {n + 1}
        /\ more[n + 1] = v
        /\ \A d \in DOMAIN devs : d # n + 1 /\ more[d] = devs[d]
    BY DEF Insert, DevicesOK
  <1>2. \A d \in DOMAIN devs :
           /\ d \in 1 .. n /\ devs[d] \in DeviceRecords
           /\ devs[d].token \in Nat /\ devs[d].access \in Nat /\ devs[d].offer \in Nat
           /\ devs[d].token <= n /\ devs[d].access <= n /\ devs[d].offer <= n
    BY DEF DevicesOK, DeviceRecords
  <1>3. more \in [DOMAIN more -> DeviceRecords] /\ DOMAIN more \subseteq 1 .. n + 2
    BY <1>1, <1>2 DEF Insert, DevicesOK
  <1> HIDE DEF more
  <1>4. \A d \in DOMAIN more :
           more[d].token <= n + 2 /\ more[d].access <= n + 2 /\ more[d].offer <= n + 2
    BY <1>1, <1>2 DEF DeviceRecords
  <1>5. /\ \A d, e \in DOMAIN more : more[d].token = more[e].token => d = e
        /\ \A d, e \in DOMAIN more : more[d].access = more[e].access => d = e
    BY <1>1, <1>2 DEF DevicesOK
  <1>6. /\ own2 \in DOMAIN more \cup {None}
        /\ \A d \in DOMAIN more : more[d].owner <=> d = own2
    <2>1. CASE v.owner = FALSE /\ own2 = own
      <3>1. own \in DOMAIN devs \cup {None} /\ own # n + 1
        BY <1>1 DEF DevicesOK, None
      <3>2. QED
        BY <1>1, <2>1, <3>1 DEF DevicesOK
    <2>2. CASE v.owner = TRUE /\ own = None /\ own2 = n + 1
      <3>1. \A d \in DOMAIN devs : d # None /\ d # n + 1
        BY <1>2 DEF None
      <3>2. \A d \in DOMAIN devs : ~devs[d].owner
        BY <2>2, <3>1 DEF DevicesOK
      <3>3. QED
        BY <1>1, <2>2, <3>1, <3>2
    <2>3. QED
      BY <2>1, <2>2
  <1>7. QED
    BY <1>3, <1>4, <1>5, <1>6 DEF DevicesOK, more

\* A device is removed, and the ownership with it.
LEMMA RemoveDevice ==
    ASSUME NEW devs, NEW own, NEW n \in Nat, DevicesOK(devs, own, n),
           NEW d \in DOMAIN devs
    PROVE  DevicesOK(Without(devs, {d}), IF devs[d].owner THEN None ELSE own, n)
  <1> DEFINE less == Without(devs, {d})
  <1>1. /\ DOMAIN less = DOMAIN devs \ {d}
        /\ \A e \in DOMAIN less : less[e] = devs[e]
        /\ less \in [DOMAIN less -> DeviceRecords]
    BY DEF Without, DevicesOK
  <1> HIDE DEF less
  <1>2. CASE devs[d].owner
    <2>1. d = own /\ None \notin DOMAIN less
      BY <1>1, <1>2 DEF DevicesOK, None
    <2>2. \A e \in DOMAIN less : ~less[e].owner
      BY <1>1, <2>1 DEF DevicesOK
    <2>3. \A e \in DOMAIN less : less[e].owner <=> e = None
      BY <2>1, <2>2
    <2>4. DevicesOK(less, None, n)
      BY <1>1, <2>3 DEF DevicesOK
    <2>5. QED
      BY <1>2, <2>4 DEF less
  <1>3. CASE ~devs[d].owner
    <2>1. d # own
      BY <1>3 DEF DevicesOK
    <2>2. DevicesOK(less, own, n)
      BY <1>1, <2>1 DEF DevicesOK
    <2>3. QED
      BY <1>3, <2>2 DEF less
  <1>4. QED
    BY <1>2, <1>3

\* A device gets a fresh pair of tokens.
LEMMA RotateDevice ==
    ASSUME NEW devs, NEW own, NEW n \in Nat, DevicesOK(devs, own, n),
           NEW d \in DOMAIN devs, NEW v \in DeviceRecords,
           v.owner = devs[d].owner, v.offer = devs[d].offer,
           v.token = n + 1, v.access = n + 2
    PROVE  DevicesOK([devs EXCEPT ![d] = v], own, n + 2)
  <1> DEFINE other == [devs EXCEPT ![d] = v]
  <1>1. /\ DOMAIN other = DOMAIN devs /\ other[d] = v
        /\ \A e \in DOMAIN devs : e # d => other[e] = devs[e]
        /\ other \in [DOMAIN other -> DeviceRecords]
    BY DEF DevicesOK
  <1>2. \A e \in DOMAIN devs :
           /\ e \in 1 .. n
           /\ devs[e].token \in Nat /\ devs[e].access \in Nat /\ devs[e].offer \in Nat
           /\ devs[e].token <= n /\ devs[e].access <= n /\ devs[e].offer <= n
    BY DEF DevicesOK, DeviceRecords
  <1> HIDE DEF other
  <1>3. /\ DOMAIN other \subseteq 1 .. n + 2
        /\ \A e \in DOMAIN other :
              other[e].token <= n + 2 /\ other[e].access <= n + 2 /\ other[e].offer <= n + 2
    BY <1>1, <1>2
  <1>4. /\ \A e, f \in DOMAIN other : other[e].token = other[f].token => e = f
        /\ \A e, f \in DOMAIN other : other[e].access = other[f].access => e = f
    BY <1>1, <1>2 DEF DevicesOK
  <1>5. \A e \in DOMAIN other : other[e].owner <=> e = own
    BY <1>1 DEF DevicesOK
  <1>6. QED
    BY <1>1, <1>3, <1>4, <1>5 DEF DevicesOK, other

\* The record of a device after a rotation.
LEMMA RotatedRecord ==
    ASSUME NEW r \in DeviceRecords, NEW n \in Nat, NEW token \in Nat, now \in Nat
    PROVE  LET v == Rotated(r, token, n + 1, n + 2)
           IN  /\ v \in DeviceRecords /\ v.token = n + 1 /\ v.access = n + 2
               /\ v.owner = r.owner /\ v.offer = r.offer
  <1>1. n + 1 \in Nat /\ n + 2 \in Nat /\ now + AccessTtl \in Nat
    BY DeviceAssumption
  <1>2. QED
    BY <1>1 DEF Rotated, DeviceRecords

\* Fewer open offers are still in order.
LEMMA FewerOffers ==
    ASSUME NEW offs, NEW n \in Nat, OffersOK(offs, n), NEW S \in SUBSET DOMAIN offs
    PROVE  OffersOK([o \in S |-> offs[o]], n)
  <1>1. IsFiniteSet(S) /\ Cardinality(S) <= Cardinality(DOMAIN offs)
    BY FS_Subset DEF OffersOK
  <1>2. Cardinality(S) \in Nat /\ Cardinality(DOMAIN offs) \in Nat
    BY <1>1, FS_CardinalityType DEF OffersOK
  <1>3. QED
    BY <1>1, <1>2, DeviceAssumption DEF OffersOK

-----------------------------------------------------------------------------
(* The indices *)

LEMMA IndexInsert ==
    ASSUME NEW devs, NEW tix, NEW aix, TokenIndexOK(tix, devs), AccessIndexOK(aix, devs),
           NEW d, d \notin DOMAIN devs, NEW v,
           \A e \in DOMAIN devs : devs[e].token # v.token /\ devs[e].access # v.access
    PROVE  /\ TokenIndexOK(Insert(tix, v.token, d), Insert(devs, d, v))
           /\ AccessIndexOK(Insert(aix, v.access, d), Insert(devs, d, v))
  <1> DEFINE more == Insert(devs, d, v)
             t2 == Insert(tix, v.token, d)
             a2 == Insert(aix, v.access, d)
  <1>1. /\ DOMAIN more = DOMAIN devs \cup {d} /\ more[d] = v
        /\ \A e \in DOMAIN devs : more[e] = devs[e]
    BY DEF Insert
  <1>2. /\ DOMAIN t2 = DOMAIN tix \cup {v.token} /\ t2[v.token] = d
        /\ \A n \in DOMAIN tix : n # v.token /\ t2[n] = tix[n]
    BY DEF Insert, TokenIndexOK
  <1>3. /\ DOMAIN a2 = DOMAIN aix \cup {v.access} /\ a2[v.access] = d
        /\ \A n \in DOMAIN aix : n # v.access /\ a2[n] = aix[n]
    BY DEF Insert, AccessIndexOK
  <1> HIDE DEF more, t2, a2
  <1>4. TokenIndexOK(t2, more)
    <2>1. DOMAIN t2 = {more[e].token : e \in DOMAIN more}
      BY <1>1, <1>2 DEF TokenIndexOK
    <2>2. \A n \in DOMAIN t2 : t2[n] \in DOMAIN more /\ more[t2[n]].token = n
      BY <1>1, <1>2 DEF TokenIndexOK
    <2>3. QED
      BY <2>1, <2>2 DEF TokenIndexOK
  <1>5. AccessIndexOK(a2, more)
    <2>1. DOMAIN a2 = {more[e].access : e \in DOMAIN more}
      BY <1>1, <1>3 DEF AccessIndexOK
    <2>2. \A n \in DOMAIN a2 : a2[n] \in DOMAIN more /\ more[a2[n]].access = n
      BY <1>1, <1>3 DEF AccessIndexOK
    <2>3. QED
      BY <2>1, <2>2 DEF AccessIndexOK
  <1>6. QED
    BY <1>4, <1>5 DEF more, t2, a2

LEMMA IndexRemove ==
    ASSUME NEW devs, NEW own, NEW m, DevicesOK(devs, own, m),
           NEW tix, NEW aix, TokenIndexOK(tix, devs), AccessIndexOK(aix, devs),
           NEW d \in DOMAIN devs
    PROVE  /\ TokenIndexOK(Without(tix, {devs[d].token}), Without(devs, {d}))
           /\ AccessIndexOK(Without(aix, {devs[d].access}), Without(devs, {d}))
  <1> DEFINE less == Without(devs, {d})
             t2 == Without(tix, {devs[d].token})
             a2 == Without(aix, {devs[d].access})
  <1>1. /\ DOMAIN less = DOMAIN devs \ {d}
        /\ \A e \in DOMAIN less : less[e] = devs[e]
    BY DEF Without
  <1>2. /\ DOMAIN t2 = DOMAIN tix \ {devs[d].token}
        /\ \A n \in DOMAIN t2 : t2[n] = tix[n]
    BY DEF Without
  <1>3. /\ DOMAIN a2 = DOMAIN aix \ {devs[d].access}
        /\ \A n \in DOMAIN a2 : a2[n] = aix[n]
    BY DEF Without
  <1>4. \A e \in DOMAIN less :
           devs[e].token # devs[d].token /\ devs[e].access # devs[d].access
    BY <1>1 DEF DevicesOK
  <1> HIDE DEF less, t2, a2
  <1>5. TokenIndexOK(t2, less)
    <2>1. DOMAIN t2 = {less[e].token : e \in DOMAIN less}
      BY <1>1, <1>2, <1>4 DEF TokenIndexOK
    <2>2. \A n \in DOMAIN t2 : t2[n] \in DOMAIN less /\ less[t2[n]].token = n
      BY <1>1, <1>2 DEF TokenIndexOK
    <2>3. QED
      BY <2>1, <2>2 DEF TokenIndexOK
  <1>6. AccessIndexOK(a2, less)
    <2>1. DOMAIN a2 = {less[e].access : e \in DOMAIN less}
      BY <1>1, <1>3, <1>4 DEF AccessIndexOK
    <2>2. \A n \in DOMAIN a2 : a2[n] \in DOMAIN less /\ less[a2[n]].access = n
      BY <1>1, <1>3 DEF AccessIndexOK
    <2>3. QED
      BY <2>1, <2>2 DEF AccessIndexOK
  <1>7. QED
    BY <1>5, <1>6 DEF less, t2, a2

\* A rotation is a removal followed by an insertion of the same device.
LEMMA IndexRotate ==
    ASSUME NEW devs, NEW own, NEW m, DevicesOK(devs, own, m),
           NEW tix, NEW aix, TokenIndexOK(tix, devs), AccessIndexOK(aix, devs),
           NEW d \in DOMAIN devs, NEW v,
           \A e \in DOMAIN devs : devs[e].token # v.token /\ devs[e].access # v.access
    PROVE  /\ TokenIndexOK(Insert(Without(tix, {devs[d].token}), v.token, d),
                           [devs EXCEPT ![d] = v])
           /\ AccessIndexOK(Insert(Without(aix, {devs[d].access}), v.access, d),
                            [devs EXCEPT ![d] = v])
  <1>1. [devs EXCEPT ![d] = v] = Insert(Without(devs, {d}), d, v)
    BY DEF Insert, Without, DevicesOK
  <1> DEFINE less == Without(devs, {d})
             t2 == Without(tix, {devs[d].token})
             a2 == Without(aix, {devs[d].access})
  <1>2. TokenIndexOK(t2, less) /\ AccessIndexOK(a2, less)
    BY IndexRemove
  <1>3. /\ d \notin DOMAIN less
        /\ \A e \in DOMAIN less : less[e].token # v.token /\ less[e].access # v.access
    BY DEF Without
  <1> HIDE DEF less, t2, a2
  <1>4. /\ TokenIndexOK(Insert(t2, v.token, d), Insert(less, d, v))
        /\ AccessIndexOK(Insert(a2, v.access, d), Insert(less, d, v))
    BY <1>2, <1>3, IndexInsert
  <1>5. QED
    BY <1>1, <1>4 DEF less, t2, a2

\* The indices of a restored registry are built from its devices.
LEMMA IndexRebuild ==
    ASSUME NEW reg, rebuild_token_hash_index(reg)
    PROVE  /\ TokenIndexOK(tokenIndex', reg.devices)
           /\ AccessIndexOK(accessIndex', reg.devices)
  <1>1. TokenIndexOK(tokenIndex', reg.devices)
    BY DEF rebuild_token_hash_index, TokenIndexOK
  <1>2. AccessIndexOK(accessIndex', reg.devices)
    BY DEF rebuild_token_hash_index, AccessIndexOK
  <1>3. QED
    BY <1>1, <1>2

-----------------------------------------------------------------------------
(* The parts of the invariant, by the variables they read *)

RegistryPart ==
    /\ minted \in Nat
    /\ Sound(registry, minted)
    /\ TokenIndexOK(tokenIndex, registry.devices)
    /\ AccessIndexOK(accessIndex, registry.devices)
    /\ DOMAIN tokenIndex \subseteq Nat /\ tokenIndex \in [DOMAIN tokenIndex -> Nat]
    /\ DOMAIN accessIndex \subseteq Nat /\ accessIndex \in [DOMAIN accessIndex -> Nat]

DiskPart == Sound(disk, minted)

TasksPart ==
    /\ DOMAIN tasks = Tasks
    /\ \A t \in Tasks : /\ IsTask(tasks[t])
                        /\ tasks[t].pc = "write" => Sound(tasks[t].copy, minted)

RestPart ==
    /\ DOMAIN clients \subseteq Nat \ {None}
    /\ clients \in [DOMAIN clients -> [refresh : Nat, access : Nat]]
    /\ handed \subseteq Nat
    /\ history \in Histories
    /\ now \in Nat /\ restarts \in Nat

LEMMA Parts == IInv <=> RegistryPart /\ DiskPart /\ TasksPart /\ RestPart
  <1>1. ASSUME RegistryPart, DiskPart, TasksPart, RestPart PROVE IInv
    <2>1. IsRegistry(registry) /\ IsRegistry(disk)
      BY <1>1, SoundType DEF RegistryPart, DiskPart
    <2>2. Cardinality(DOMAIN registry.offers) <= MaxOffers
      BY <1>1 DEF RegistryPart, Sound, OffersOK
    <2>3. QED
      BY <1>1, <2>1, <2>2
      DEF IInv, TypeOK, CopiesSound, RegistryPart, DiskPart, TasksPart, RestPart
  <1>2. ASSUME IInv PROVE RegistryPart /\ DiskPart /\ TasksPart /\ RestPart
    BY <1>2 DEF IInv, TypeOK, CopiesSound, RegistryPart, DiskPart, TasksPart, RestPart
  <1>3. QED
    BY <1>1, <1>2

LEMMA PartsNext ==
    ASSUME RegistryPart', DiskPart', TasksPart', RestPart'
    PROVE  IInv'
  <1>1. IsRegistry(registry') /\ IsRegistry(disk')
    BY SoundType DEF RegistryPart, DiskPart
  <1>2. Cardinality(DOMAIN registry'.offers) <= MaxOffers
    BY DEF RegistryPart, Sound, OffersOK
  <1>3. IsRegistry(registry)' /\ IsRegistry(disk)'
    BY <1>1 DEF IsRegistry
  <1>4. QED
    BY <1>2, <1>3
    DEF IInv, TypeOK, CopiesSound, RegistryPart, DiskPart, TasksPart, RestPart

\* The copy on the disk, and those of the handlers that do not move, stay
\* sound when numbers are minted.
LEMMA DiskKept ==
    ASSUME IInv, minted' \in Nat, minted <= minted', disk' = disk
    PROVE  DiskPart'
  <1>1. Sound(disk, minted')
    BY Parts, SoundGrows DEF DiskPart, RegistryPart
  <1>2. QED
    BY <1>1 DEF DiskPart

LEMMA TasksAfter ==
    ASSUME IInv, minted' \in Nat, minted <= minted', NEW t \in Tasks, NEW rec,
           IsTask(rec), rec.pc = "write" => Sound(rec.copy, minted'), Become(t, rec)
    PROVE  TasksPart'
  <1>1. DOMAIN tasks' = Tasks /\ tasks'[t] = rec
        /\ \A u \in Tasks : u # t => tasks'[u] = tasks[u]
    BY Parts DEF Become, TasksPart
  <1>2. ASSUME NEW u \in Tasks
        PROVE  IsTask(tasks'[u]) /\ (tasks'[u].pc = "write" => Sound(tasks'[u].copy, minted'))
    <2>1. CASE u = t
      BY <1>1, <2>1
    <2>2. CASE u # t
      <3>1. IsTask(tasks[u]) /\ (tasks[u].pc = "write" => Sound(tasks[u].copy, minted))
        BY Parts DEF TasksPart
      <3>2. tasks[u].pc = "write" => Sound(tasks[u].copy, minted')
        BY <3>1, Parts, SoundGrows DEF RegistryPart
      <3>3. QED
        BY <1>1, <2>2, <3>1, <3>2
    <2>3. QED
      BY <2>1, <2>2
  <1>3. \A u \in Tasks : IsTask(tasks[u])'
    BY <1>2 DEF IsTask, IsRegistry
  <1>4. QED
    BY <1>1, <1>2, <1>3 DEF TasksPart

LEMMA RestKept ==
    ASSUME IInv, UNCHANGED <<clients, handed, history>>, now' \in Nat, restarts' \in Nat
    PROVE  RestPart'
  BY Parts DEF RestPart

LEMMA IdleTask == IsTask(Idle) /\ Idle.pc # "write"
  BY DEF IsTask, Idle

LEMMA CaptureTask ==
    ASSUME NEW a \in Answers
    PROVE  /\ IsTask([pc |-> "capture", answer |-> a])
           /\ [pc |-> "capture", answer |-> a].pc # "write"
  BY DEF IsTask

-----------------------------------------------------------------------------
(* Steps that change the registry *)

LEMMA EnrolInv ==
    ASSUME IInv, NEW t \in Tasks, NEW owner \in BOOLEAN, NEW offers, NEW offer \in Nat,
           OffersOK(offers, minted), DOMAIN offers \subseteq DOMAIN registry.offers,
           offer # None => offer \in DOMAIN registry.offers \ DOMAIN offers,
           owner => registry.owner = None,
           Enrol(t, owner, offers, offer),
           UNCHANGED <<disk, clients, handed, history, now, restarts>>
    PROVE  IInv'
  <1> DEFINE v == [owner |-> owner, token |-> minted + 1, access |-> minted + 2,
                   expires |-> now + AccessTtl, previous |-> None, offer |-> offer]
             own2 == IF owner THEN minted + 1 ELSE registry.owner
             devs == registry.devices
  <1>1. /\ minted \in Nat /\ minted' = minted + 2 /\ now \in Nat
        /\ DevicesOK(devs, registry.owner, minted)
        /\ OffersOK(registry.offers, minted)
        /\ UsedOnce(devs, DOMAIN registry.offers)
        /\ TokenIndexOK(tokenIndex, devs) /\ AccessIndexOK(accessIndex, devs)
    BY Parts DEF RegistryPart, Sound, Enrol, RestPart
  <1>2. /\ registry' = [devices |-> Insert(devs, minted + 1, v), owner |-> own2,
                        offers |-> offers]
        /\ tokenIndex' = Insert(tokenIndex, minted + 1, minted + 1)
        /\ accessIndex' = Insert(accessIndex, minted + 2, minted + 1)
        /\ Become(t, [pc |-> "capture", answer |->
              [kind |-> "tokens", device |-> minted + 1, refresh |-> minted + 1,
               access |-> minted + 2]])
    BY DEF Enrol, devices
  <1>3. offer <= minted
    BY <1>1 DEF OffersOK, None
  <1>4. v \in DeviceRecords
    BY <1>1, DeviceAssumption DEF DeviceRecords, None
  <1>5. DevicesOK(Insert(devs, minted + 1, v), own2, minted + 2)
    <2>1. v.token = minted + 1 /\ v.access = minted + 2 /\ v.offer <= minted
      BY <1>3
    <2>2. \/ v.owner = FALSE /\ own2 = registry.owner
          \/ v.owner = TRUE /\ registry.owner = None /\ own2 = minted + 1
      OBVIOUS
    <2> HIDE DEF v, own2, devs
    <2>3. QED
      BY <1>1, <1>4, <2>1, <2>2, InsertDevice
  <1>6. OffersOK(offers, minted + 2)
    BY <1>1 DEF OffersOK
  <1>7. UsedOnce(Insert(devs, minted + 1, v), DOMAIN offers)
    <2>1. /\ DOMAIN Insert(devs, minted + 1, v) = DOMAIN devs \cup {minted + 1}
          /\ Insert(devs, minted + 1, v)[minted + 1].offer = offer
          /\ minted + 1 \notin DOMAIN devs
          /\ \A d \in DOMAIN devs : Insert(devs, minted + 1, v)[d] = devs[d]
      BY <1>1 DEF Insert, DevicesOK
    <2> HIDE DEF v
    <2>2. QED
      BY <1>1, <2>1 DEF UsedOnce
  <1>8. Sound(registry', minted')
    BY <1>1, <1>2, <1>5, <1>6, <1>7 DEF Sound
  <1>9. /\ TokenIndexOK(tokenIndex', registry'.devices)
        /\ AccessIndexOK(accessIndex', registry'.devices)
    <2>1. /\ minted + 1 \notin DOMAIN devs
          /\ \A e \in DOMAIN devs : devs[e].token # v.token /\ devs[e].access # v.access
      BY <1>1 DEF DevicesOK, DeviceRecords
    <2>2. v.token = minted + 1 /\ v.access = minted + 2
      OBVIOUS
    <2> HIDE DEF v, devs
    <2>3. /\ TokenIndexOK(Insert(tokenIndex, v.token, minted + 1), Insert(devs, minted + 1, v))
          /\ AccessIndexOK(Insert(accessIndex, v.access, minted + 1), Insert(devs, minted + 1, v))
      BY <1>1, <2>1, IndexInsert
    <2>4. QED
      BY <1>2, <2>2, <2>3
  <1>10. RegistryPart'
    <2>1. /\ DOMAIN tokenIndex' \subseteq Nat /\ tokenIndex' \in [DOMAIN tokenIndex' -> Nat]
          /\ DOMAIN accessIndex' \subseteq Nat /\ accessIndex' \in [DOMAIN accessIndex' -> Nat]
      BY <1>1, <1>2, Parts DEF RegistryPart, Insert
    <2>2. QED
      BY <1>1, <1>8, <1>9, <2>1 DEF RegistryPart
  <1>11. minted' \in Nat /\ minted <= minted'
    BY <1>1
  <1>12. TasksPart'
    <2> DEFINE a == [kind |-> "tokens", device |-> minted + 1, refresh |-> minted + 1,
                     access |-> minted + 2]
    <2>1. a \in Answers
      BY <1>1 DEF Answers, None
    <2> HIDE DEF a
    <2>2. Become(t, [pc |-> "capture", answer |-> a])
      BY <1>2 DEF a
    <2>3. QED
      BY <1>11, <2>1, <2>2, CaptureTask, TasksAfter
  <1>13. QED
    BY <1>10, <1>11, <1>12, DiskKept, RestKept, PartsNext, Parts DEF RestPart

LEMMA ClaimInv ==
    ASSUME IInv, NEW t \in Tasks, bootstrap_claim(t)
    PROVE  IInv'
  <1>1. OffersOK(registry.offers, minted)
    BY Parts DEF RegistryPart, Sound
  <1>2. /\ registry.owner = None /\ Enrol(t, TRUE, registry.offers, None)
        /\ UNCHANGED <<disk, clients, handed, history, now, restarts>>
    BY DEF bootstrap_claim
  <1>3. None \in Nat /\ TRUE \in BOOLEAN
    BY DEF None
  <1>4. QED
    BY <1>1, <1>2, <1>3, EnrolInv

LEMMA AcceptInv ==
    ASSUME IInv, NEW t \in Tasks, NEW o, accept_pairing_offer(t, o)
    PROVE  IInv'
  <1>1. minted \in Nat /\ OffersOK(registry.offers, minted)
    BY Parts DEF RegistryPart, Sound
  <1>2. o \in LiveOffers /\ LiveOffers \subseteq DOMAIN registry.offers
    BY DEF accept_pairing_offer, LiveOffers
  <1>3. o \in Nat
    BY <1>1, <1>2 DEF OffersOK
  <1>4. /\ OffersOK(OffersWithout(o), minted)
        /\ DOMAIN OffersWithout(o) = LiveOffers \ {o}
    BY <1>1, <1>2, FewerOffers DEF OffersWithout
  <1>5. QED
    BY <1>2, <1>3, <1>4, EnrolInv DEF accept_pairing_offer

\* A step that only changes the open offers.
LEMMA OffersInv ==
    ASSUME IInv, NEW offs, OffersOK(offs, minted'), minted' \in Nat, minted <= minted',
           registry' = [registry EXCEPT !.offers = offs],
           \A o \in DOMAIN offs : o \in DOMAIN registry.offers \/ o > minted,
           UNCHANGED <<tokenIndex, accessIndex>>
    PROVE  RegistryPart'
  <1>1. /\ minted \in Nat /\ Sound(registry, minted) /\ Sound(registry, minted')
    BY Parts, SoundGrows DEF RegistryPart
  <1>2. /\ DOMAIN registry' = {"devices", "owner", "offers"}
        /\ registry'.devices = registry.devices /\ registry'.owner = registry.owner
        /\ registry'.offers = offs
    BY <1>1 DEF Sound
  <1>3. UsedOnce(registry.devices, DOMAIN offs)
    <2>1. \A d \in DOMAIN registry.devices :
             registry.devices[d].offer \in Nat /\ registry.devices[d].offer <= minted
      BY <1>1 DEF Sound, DevicesOK, DeviceRecords
    <2>2. QED
      BY <1>1, <2>1 DEF Sound, UsedOnce
  <1>4. Sound(registry', minted')
    BY <1>1, <1>2, <1>3 DEF Sound
  <1>5. QED
    BY <1>2, <1>4, Parts DEF RegistryPart

LEMMA RefuseInv ==
    ASSUME IInv, NEW t \in Tasks, NEW o, refuse_pairing_offer(t, o)
    PROVE  IInv'
  <1>1. minted \in Nat /\ OffersOK(registry.offers, minted)
    BY Parts DEF RegistryPart, Sound
  <1>2. LiveOffers \ {o} \subseteq DOMAIN registry.offers
    BY DEF LiveOffers
  <1>3. OffersOK(OffersWithout(o), minted) /\ DOMAIN OffersWithout(o) = LiveOffers \ {o}
    BY <1>1, <1>2, FewerOffers DEF OffersWithout
  <1>4. RegistryPart'
    BY <1>1, <1>2, <1>3, OffersInv DEF refuse_pairing_offer
  <1>5. DiskPart' /\ RestPart' /\ TasksPart'
    BY Parts DEF refuse_pairing_offer, DiskPart, RestPart, TasksPart, IsTask, IsRegistry
  <1>6. QED
    BY <1>4, <1>5, PartsNext

LEMMA CreateOfferInv ==
    ASSUME IInv, NEW t \in Tasks, create_pairing_offer(t)
    PROVE  IInv'
  <1>1. minted \in Nat /\ OffersOK(registry.offers, minted) /\ now \in Nat
    BY Parts DEF RegistryPart, Sound, RestPart
  <1>2. CASE registry.owner = None
    <2>1. Become(t, Idle) /\ UNCHANGED <<registry, minted>>
      BY <1>2 DEF create_pairing_offer
    <2>2. RegistryPart' /\ DiskPart' /\ RestPart'
      BY <2>1, Parts DEF create_pairing_offer, RegistryPart, DiskPart, RestPart
    <2>3. TasksPart'
      BY <1>1, <2>1, IdleTask, TasksAfter
    <2>4. QED
      BY <2>2, <2>3, PartsNext
  <1>3. CASE registry.owner # None
    <2>1. PICK kept \in SUBSET LiveOffers :
             /\ MakesRoom(kept)
             /\ registry' = [registry EXCEPT !.offers =
                   [o \in kept \cup {minted + 1} |->
                       IF o \in kept THEN registry.offers[o] ELSE now + tasks[t].ttl]]
      BY <1>3 DEF create_pairing_offer
    <2>2. /\ minted' = minted + 1
          /\ Become(t, [pc |-> "capture",
                        answer |-> [kind |-> "offer", subject |-> minted + 1]])
      BY <1>3 DEF create_pairing_offer
    <2> DEFINE offs == [o \in kept \cup {minted + 1} |->
                          IF o \in kept THEN registry.offers[o] ELSE now + tasks[t].ttl]
    <2>3. kept \subseteq DOMAIN registry.offers
      BY DEF LiveOffers
    <2>4. tasks[t].ttl \in Nat
      <3>1. IsTask(tasks[t]) /\ tasks[t].pc = "offer"
        BY Parts DEF TasksPart, create_pairing_offer
      <3>2. QED
        <4>1. tasks[t] \in [pc : {"offer"}, ttl : OfferTtls]
          BY <3>1 DEF IsTask, Idle
        <4>2. QED
          BY <4>1, DeviceAssumption
    <2>5. OffersOK(offs, minted + 1)
      <3>1. DOMAIN offs \subseteq 1 .. minted + 1 /\ offs \in [DOMAIN offs -> Nat]
        BY <1>1, <2>3, <2>4 DEF OffersOK
      <3>2. IsFiniteSet(kept)
        BY <1>1, <2>3, FS_Subset DEF OffersOK
      <3>3. minted + 1 \notin kept
        BY <1>1, <2>3 DEF OffersOK
      <3>4. /\ IsFiniteSet(kept \cup {minted + 1})
            /\ Cardinality(kept \cup {minted + 1}) = Cardinality(kept) + 1
        BY <3>2, <3>3, FS_AddElement
      <3>5. Cardinality(kept) \in Nat /\ Cardinality(kept) < MaxOffers
        BY <2>1, <3>2, FS_CardinalityType DEF MakesRoom
      <3>6. QED
        BY <3>1, <3>4, <3>5, DeviceAssumption DEF OffersOK
    <2>6. \A o \in DOMAIN offs : o \in DOMAIN registry.offers \/ o > minted
      BY <1>1, <2>3
    <2>7. registry' = [registry EXCEPT !.offers = offs]
      BY <2>1
    <2> HIDE DEF offs
    <2>8. RegistryPart'
      BY <1>1, <2>2, <2>5, <2>6, <2>7, OffersInv DEF create_pairing_offer
    <2>9. TasksPart'
      <3>1. [kind |-> "offer", subject |-> minted + 1] \in Answers
        BY <1>1 DEF Answers
      <3>2. QED
        BY <1>1, <2>2, <3>1, CaptureTask, TasksAfter
    <2>10. DiskPart' /\ RestPart'
      BY <1>1, <2>2, DiskKept, RestKept, Parts DEF create_pairing_offer, RestPart
    <2>11. QED
      BY <2>8, <2>9, <2>10, PartsNext
  <1>4. QED
    BY <1>2, <1>3

LEMMA RefuseOfferInv ==
    ASSUME IInv, NEW t \in Tasks, refuse_blank_offer(t)
    PROVE  IInv'
  <1>1. minted \in Nat /\ OffersOK(registry.offers, minted)
    BY Parts DEF RegistryPart, Sound
  <1>2. PICK kept \in SUBSET LiveOffers :
           registry' = [registry EXCEPT !.offers = [o \in kept |-> registry.offers[o]]]
    BY DEF refuse_blank_offer
  <1> DEFINE offs == [o \in kept |-> registry.offers[o]]
  <1>3. kept \in SUBSET DOMAIN registry.offers
    BY DEF LiveOffers
  <1>4. OffersOK(offs, minted) /\ DOMAIN offs = kept
    BY <1>1, <1>3, FewerOffers
  <1>5. registry' = [registry EXCEPT !.offers = offs]
    BY <1>2
  <1> HIDE DEF offs
  <1>6. RegistryPart'
    BY <1>1, <1>3, <1>4, <1>5, OffersInv DEF refuse_blank_offer
  <1>7. TasksPart'
    BY <1>1, IdleTask, TasksAfter DEF refuse_blank_offer
  <1>8. DiskPart' /\ RestPart'
    BY Parts DEF refuse_blank_offer, DiskPart, RestPart
  <1>9. QED
    BY <1>6, <1>7, <1>8, PartsNext

\* A device goes, with its tokens and, if it is the owner's, the ownership.
LEMMA RemovedInv ==
    ASSUME IInv, NEW d \in DOMAIN devices, Removed(d), minted' = minted
    PROVE  RegistryPart'
  <1> DEFINE devs == registry.devices
             own2 == IF devs[d].owner THEN None ELSE registry.owner
  <1>1. /\ minted \in Nat /\ Sound(registry, minted)
        /\ DevicesOK(devs, registry.owner, minted)
        /\ TokenIndexOK(tokenIndex, devs) /\ AccessIndexOK(accessIndex, devs)
        /\ d \in DOMAIN devs
    BY Parts DEF RegistryPart, Sound, devices
  <1>2. /\ DOMAIN registry' = {"devices", "owner", "offers"}
        /\ registry'.devices = Without(devs, {d}) /\ registry'.owner = own2
        /\ registry'.offers = registry.offers
    BY <1>1 DEF Sound, Removed, OwnerWithout, devices
  <1>3. /\ tokenIndex' = Without(tokenIndex, {devs[d].token})
        /\ accessIndex' = Without(accessIndex, {devs[d].access})
    BY DEF Removed, WithoutAccess, devices
  <1>4. UsedOnce(Without(devs, {d}), DOMAIN registry.offers)
    BY <1>1 DEF Sound, UsedOnce, Without
  <1>5. DevicesOK(Without(devs, {d}), own2, minted)
    <2> HIDE DEF devs
    <2>1. QED
      BY <1>1, RemoveDevice
  <1>6. Sound(registry', minted')
    BY <1>1, <1>2, <1>4, <1>5 DEF Sound
  <1>7. /\ TokenIndexOK(tokenIndex', registry'.devices)
        /\ AccessIndexOK(accessIndex', registry'.devices)
    <2> HIDE DEF devs
    <2>1. QED
      BY <1>1, <1>2, <1>3, IndexRemove
  <1>8. /\ DOMAIN tokenIndex' \subseteq Nat /\ tokenIndex' \in [DOMAIN tokenIndex' -> Nat]
        /\ DOMAIN accessIndex' \subseteq Nat /\ accessIndex' \in [DOMAIN accessIndex' -> Nat]
    BY <1>3, Parts DEF RegistryPart, Without
  <1>9. QED
    BY <1>1, <1>6, <1>7, <1>8 DEF RegistryPart

LEMMA ReuseInv ==
    ASSUME IInv, NEW t \in Tasks, RejectReuse(t)
    PROVE  IInv'
  <1>1. PICK d \in DOMAIN devices : Removed(d)
    BY DEF RejectReuse
  <1>2. minted \in Nat /\ d \in Nat
    BY Parts DEF RegistryPart, Sound, DevicesOK, devices
  <1>3. RegistryPart'
    BY <1>1, RemovedInv DEF RejectReuse
  <1>4. TasksPart'
    BY <1>2, IdleTask, TasksAfter DEF RejectReuse
  <1>5. DiskPart' /\ RestPart'
    BY <1>1, <1>2, Parts DEF RejectReuse, DiskPart, RestPart, Histories
  <1>6. QED
    BY <1>3, <1>4, <1>5, PartsNext

LEMMA RevokeInv ==
    ASSUME IInv, NEW t \in Tasks, revoke_device(t)
    PROVE  IInv'
  <1>1. minted \in Nat /\ minted' = minted
    BY Parts DEF RegistryPart, revoke_device
  <1>2. DiskPart' /\ RestPart'
    BY Parts DEF revoke_device, DiskPart, RestPart
  <1>3. CASE tasks[t].device \in DOMAIN devices
    <2>1. RegistryPart'
      BY <1>1, <1>3, RemovedInv DEF revoke_device
    <2>2. [kind |-> "revoked", subject |-> tasks[t].device] \in Answers
      BY <1>3, Parts DEF Answers, RegistryPart, Sound, DevicesOK, devices
    <2>3. Become(t, [pc |-> "capture", answer |->
                       [kind |-> "revoked", subject |-> tasks[t].device]])
      BY <1>3 DEF revoke_device
    <2>4. TasksPart'
      BY <1>1, <2>2, <2>3, CaptureTask, TasksAfter
    <2>5. QED
      BY <1>2, <2>1, <2>4, PartsNext
  <1>4. CASE tasks[t].device \notin DOMAIN devices
    <2>1. Become(t, Idle) /\ UNCHANGED <<registry, tokenIndex, accessIndex>>
      BY <1>4 DEF revoke_device
    <2>2. RegistryPart'
      BY <1>1, <2>1, Parts DEF RegistryPart
    <2>3. TasksPart'
      BY <1>1, <2>1, IdleTask, TasksAfter
    <2>4. QED
      BY <1>2, <2>2, <2>3, PartsNext
  <1>5. QED
    BY <1>3, <1>4

\* Tokens are exchanged for a fresh pair.
LEMMA RefreshInv ==
    ASSUME IInv, NEW t \in Tasks, refresh_access_token(t)
    PROVE  IInv'
  <1> DEFINE token == tasks[t].token
             devs == registry.devices
  <1>1. /\ minted \in Nat /\ now \in Nat /\ Sound(registry, minted)
        /\ DevicesOK(devs, registry.owner, minted)
        /\ TokenIndexOK(tokenIndex, devs) /\ AccessIndexOK(accessIndex, devs)
    BY Parts DEF RegistryPart, Sound, RestPart
  <1>2. CASE RefreshHolder(token) = {}
    <2>1. Become(t, Idle) /\ UNCHANGED <<registry, tokenIndex, accessIndex, minted>>
      BY <1>2 DEF refresh_access_token
    <2>2. RegistryPart' /\ DiskPart' /\ RestPart'
      BY <2>1, Parts DEF refresh_access_token, RegistryPart, DiskPart, RestPart
    <2>3. TasksPart'
      BY <1>1, <2>1, IdleTask, TasksAfter
    <2>4. QED
      BY <2>2, <2>3, PartsNext
  <1>3. CASE RefreshHolder(token) # {}
    <2>1. PICK d \in RefreshHolder(token) :
             /\ registry' = [registry EXCEPT !.devices[d] =
                               Rotated(@, token, minted + 1, minted + 2)]
             /\ tokenIndex' = Insert(Without(tokenIndex, {token}), minted + 1, d)
             /\ accessIndex' = Insert(WithoutAccess(d), minted + 2, d)
             /\ Become(t, [pc |-> "capture", answer |->
                   [kind |-> "tokens", device |-> d, refresh |-> minted + 1,
                    access |-> minted + 2]])
      BY <1>3 DEF refresh_access_token
    <2>2. minted' = minted + 2
      BY <1>3 DEF refresh_access_token
    <2>3. d \in DOMAIN devs /\ devs[d].token = token
      BY DEF RefreshHolder, devices
    <2> DEFINE v == Rotated(devs[d], token, minted + 1, minted + 2)
    <2>4. devs[d] \in DeviceRecords /\ d \in Nat \ {None} /\ token \in Nat
      BY <1>1, <2>3 DEF DevicesOK, DeviceRecords, None
    <2>5. /\ v \in DeviceRecords /\ v.token = minted + 1 /\ v.access = minted + 2
          /\ v.owner = devs[d].owner /\ v.offer = devs[d].offer
      <3> HIDE DEF devs, token
      <3>1. QED
        BY <1>1, <2>4, RotatedRecord
    <2>6. /\ DOMAIN registry' = {"devices", "owner", "offers"}
          /\ registry'.devices = [devs EXCEPT ![d] = v]
          /\ registry'.owner = registry.owner /\ registry'.offers = registry.offers
      BY <1>1, <2>1, <2>3 DEF Sound
    <2> HIDE DEF v
    <2>7. UsedOnce([devs EXCEPT ![d] = v], DOMAIN registry.offers)
      <3>1. /\ DOMAIN [devs EXCEPT ![d] = v] = DOMAIN devs
            /\ \A e \in DOMAIN devs : [devs EXCEPT ![d] = v][e].offer = devs[e].offer
        BY <2>3, <2>5
      <3>2. UsedOnce(devs, DOMAIN registry.offers)
        BY <1>1 DEF Sound
      <3>3. QED
        BY <3>1, <3>2 DEF UsedOnce
    <2> HIDE DEF devs, token
    <2>8. DevicesOK([devs EXCEPT ![d] = v], registry.owner, minted + 2)
      BY <1>1, <2>3, <2>5, RotateDevice
    <2>9. OffersOK(registry.offers, minted + 2)
      BY <1>1 DEF Sound, OffersOK
    <2>10. Sound(registry', minted')
      BY <2>2, <2>6, <2>7, <2>8, <2>9 DEF Sound
    <2>11. /\ TokenIndexOK(tokenIndex', registry'.devices)
           /\ AccessIndexOK(accessIndex', registry'.devices)
      <3>1. \A e \in DOMAIN devs : devs[e].token # v.token /\ devs[e].access # v.access
        BY <1>1, <2>5 DEF DevicesOK, DeviceRecords
      <3>2. /\ tokenIndex' = Insert(Without(tokenIndex, {devs[d].token}), v.token, d)
            /\ accessIndex' = Insert(Without(accessIndex, {devs[d].access}), v.access, d)
        BY <2>1, <2>3, <2>5 DEF WithoutAccess, devices, devs
      <3>3. QED
        <4>1. /\ TokenIndexOK(Insert(Without(tokenIndex, {devs[d].token}), v.token, d),
                              [devs EXCEPT ![d] = v])
              /\ AccessIndexOK(Insert(Without(accessIndex, {devs[d].access}), v.access, d),
                               [devs EXCEPT ![d] = v])
          BY <1>1, <2>3, <3>1, IndexRotate
        <4>2. QED
          BY <2>6, <3>2, <4>1
    <2>12. RegistryPart'
      <3>1. /\ DOMAIN tokenIndex' \subseteq Nat /\ tokenIndex' \in [DOMAIN tokenIndex' -> Nat]
            /\ DOMAIN accessIndex' \subseteq Nat /\ accessIndex' \in [DOMAIN accessIndex' -> Nat]
        BY <1>1, <2>1, <2>4, Parts DEF RegistryPart, Insert, Without, WithoutAccess
      <3>2. QED
        BY <1>1, <2>2, <2>10, <2>11, <3>1 DEF RegistryPart
    <2>13. TasksPart'
      <3> DEFINE a == [kind |-> "tokens", device |-> d, refresh |-> minted + 1,
                       access |-> minted + 2]
      <3>1. a \in Answers
        BY <1>1, <2>4 DEF Answers
      <3> HIDE DEF a
      <3>2. Become(t, [pc |-> "capture", answer |-> a])
        BY <2>1 DEF a
      <3>3. QED
        BY <1>1, <2>2, <3>1, <3>2, CaptureTask, TasksAfter
    <2>14. DiskPart' /\ RestPart'
      BY <1>1, <2>2, DiskKept, RestKept, Parts DEF refresh_access_token, RestPart
    <2>15. QED
      BY <2>12, <2>13, <2>14, PartsNext
  <1>4. QED
    BY <1>2, <1>3

-----------------------------------------------------------------------------
(* Steps that leave the registry alone *)

\* The index knows every access token, so a scan never finds a missing one.
LEMMA NothingToHeal ==
    ASSUME IInv, NEW token
    PROVE  Healed(token) = accessIndex
  BY Parts DEF RegistryPart, AccessIndexOK, Healed, AccessByScan, devices

\* A handler moves on; nothing but its record and the history changes.
LEMMA MoveInv ==
    ASSUME IInv, NEW t \in Tasks, NEW rec, IsTask(rec),
           rec.pc = "write" => Sound(rec.copy, minted), Become(t, rec),
           history' \in Histories,
           UNCHANGED <<registry, tokenIndex, accessIndex, disk, clients, handed,
                       minted, now, restarts>>
    PROVE  IInv'
  <1>1. minted' \in Nat /\ minted <= minted' /\ minted' = minted
    BY Parts DEF RegistryPart
  <1>2. TasksPart'
    BY <1>1, TasksAfter
  <1>3. RegistryPart' /\ DiskPart' /\ RestPart'
    BY Parts DEF RegistryPart, DiskPart, RestPart
  <1>4. QED
    BY <1>2, <1>3, PartsNext

LEMMA AdmitInv ==
    ASSUME IInv, NEW t \in Tasks, NEW rec, IsTask(rec), rec.pc # "write", Admit(t, rec)
    PROVE  IInv'
  <1>1. accessIndex' = accessIndex
    BY NothingToHeal DEF Admit
  <1>2. history' \in Histories
    BY Parts DEF Admit, RestPart
  <1>3. QED
    BY <1>1, <1>2, MoveInv DEF Admit

LEMMA AdmitTasks ==
    /\ \A ttl \in OfferTtls :
          LET rec == [pc |-> "offer", ttl |-> ttl] IN IsTask(rec) /\ rec.pc # "write"
    /\ \A d \in Nat :
          LET rec == [pc |-> "revoke", device |-> d] IN IsTask(rec) /\ rec.pc # "write"
  BY DEF IsTask

LEMMA RequestRefreshInv ==
    ASSUME IInv, NEW t \in Tasks, NEW d \in DOMAIN clients, RequestRefresh(t, d)
    PROVE  IInv'
  <1> DEFINE rec == [pc |-> "refresh", device |-> d, token |-> clients[d].refresh]
  <1>1. d \in Nat \ {None} /\ clients[d].refresh \in Nat
    BY Parts DEF RestPart
  <1>2. IsTask(rec) /\ rec.pc # "write"
    BY <1>1 DEF IsTask
  <1>3. Become(t, rec)
    BY DEF RequestRefresh
  <1> HIDE DEF rec
  <1>4. history' \in Histories
    BY <1>1, Parts DEF RequestRefresh, RestPart, Histories
  <1>5. QED
    BY <1>2, <1>3, <1>4, MoveInv DEF RequestRefresh

LEMMA SaveForOthersInv ==
    ASSUME IInv, NEW t \in Tasks, SaveForOthers(t)
    PROVE  IInv'
  <1>1. [kind |-> "other"] \in Answers
    BY DEF Answers
  <1>2. history' \in Histories
    BY Parts DEF SaveForOthers, RestPart
  <1>3. QED
    BY <1>1, <1>2, CaptureTask, MoveInv DEF SaveForOthers

\* A handler that saves or answers carries an answer.
LEMMA SavingTask ==
    ASSUME IInv, NEW t \in Tasks, tasks[t].pc \in {"capture", "write", "answer"}
    PROVE  tasks[t].answer \in Answers
  <1>1. IsTask(tasks[t])
    BY Parts DEF TasksPart
  <1>2. QED
    BY <1>1 DEF IsTask, Idle

LEMMA CaptureInv ==
    ASSUME IInv, NEW t \in Tasks, Capture(t)
    PROVE  IInv'
  <1> DEFINE rec == [pc |-> "write", answer |-> tasks[t].answer, copy |-> registry]
  <1>1. tasks[t].answer \in Answers
    BY SavingTask DEF Capture
  <1>2. minted \in Nat /\ Sound(registry, minted)
    BY Parts DEF RegistryPart
  <1>3. IsRegistry(registry)
    BY <1>2, SoundType
  <1>4. IsTask(rec) /\ rec.copy = registry
    BY <1>1, <1>3 DEF IsTask
  <1>5. Become(t, rec)
    BY DEF Capture
  <1> HIDE DEF rec
  <1>6. history' \in Histories
    BY Parts DEF Capture, RestPart, Histories
  <1>7. QED
    BY <1>2, <1>4, <1>5, <1>6, MoveInv DEF Capture

LEMMA WriteInv ==
    ASSUME IInv, NEW t \in Tasks, WriteSnapshot(t)
    PROVE  IInv'
  <1> DEFINE rec == [pc |-> "answer", answer |-> tasks[t].answer]
  <1>1. tasks[t].answer \in Answers
    BY SavingTask DEF WriteSnapshot
  <1>2. IsTask(rec) /\ rec.pc # "write"
    BY <1>1 DEF IsTask
  <1>3. minted \in Nat /\ minted' = minted /\ Become(t, rec)
    BY Parts DEF RegistryPart, WriteSnapshot
  <1>4. disk' \in {tasks[t].copy, disk} /\ Sound(tasks[t].copy, minted) /\ Sound(disk, minted)
    BY Parts DEF WriteSnapshot, Written, TasksPart, DiskPart
  <1> HIDE DEF rec
  <1>5. TasksPart'
    BY <1>2, <1>3, TasksAfter
  <1>6. DiskPart'
    BY <1>3, <1>4 DEF DiskPart
  <1>7. RegistryPart' /\ RestPart'
    BY Parts DEF WriteSnapshot, RegistryPart, RestPart, Histories
  <1>8. QED
    BY <1>5, <1>6, <1>7, PartsNext

LEMMA AnswerInv ==
    ASSUME IInv, NEW t \in Tasks, Answer(t) \/ LoseAnswer(t)
    PROVE  IInv'
  <1>1. tasks[t].answer \in Answers
    BY SavingTask DEF Answer, LoseAnswer
  <1>2. /\ minted \in Nat /\ minted' = minted /\ Become(t, Idle)
        /\ UNCHANGED <<registry, tokenIndex, accessIndex, disk, now, restarts>>
    BY Parts DEF RegistryPart, Answer, LoseAnswer
  <1>3. TasksPart'
    BY <1>2, IdleTask, TasksAfter
  <1>4. RegistryPart' /\ DiskPart'
    BY <1>2, Parts DEF RegistryPart, DiskPart
  <1> DEFINE a == tasks[t].answer
  <1>5. /\ a.kind = "tokens" =>
             a.device \in Nat \ {None} /\ a.refresh \in Nat /\ a.access \in Nat
        /\ a.kind \in {"offer", "revoked"} => a.subject \in Nat
    BY <1>1 DEF Answers
  <1>6. CASE Answer(t)
    <2>1. /\ DOMAIN clients' \subseteq Nat \ {None}
          /\ clients' \in [DOMAIN clients' -> [refresh : Nat, access : Nat]]
      <3>1. CASE a.kind = "tokens"
        <4> DEFINE pair == [refresh |-> a.refresh, access |-> a.access]
        <4>1. pair \in [refresh : Nat, access : Nat]
          BY <1>5, <3>1
        <4>2. clients' = Insert(clients, a.device, pair)
          BY <1>6, <3>1 DEF Answer
        <4> HIDE DEF pair, a
        <4>3. QED
          BY <1>5, <3>1, <4>1, <4>2, Parts DEF RestPart, Insert
      <3>2. CASE a.kind # "tokens"
        BY <1>6, <3>2, Parts DEF Answer, RestPart
      <3>3. QED
        BY <3>1, <3>2
    <2>2. handed' \subseteq Nat
      BY <1>5, <1>6, Parts DEF Answer, RestPart
    <2>3. history' \in Histories
      BY <1>5, <1>6, Parts DEF Answer, RestPart, Histories
    <2>4. RestPart'
      BY <1>2, <2>1, <2>2, <2>3, Parts DEF RestPart
    <2>5. QED
      BY <1>3, <1>4, <2>4, PartsNext
  <1>7. CASE LoseAnswer(t)
    <2>1. RestPart'
      BY <1>2, <1>5, <1>7, Parts DEF LoseAnswer, RestPart, Histories
    <2>2. QED
      BY <1>3, <1>4, <2>1, PartsNext
  <1>8. QED
    BY <1>6, <1>7

\* A fresh registry is sound.
LEMMA EmptySound == ASSUME NEW n \in Nat PROVE Sound(EmptyRegistry, n)
  <1>1. /\ DOMAIN EmptyRegistry = {"devices", "owner", "offers"}
        /\ EmptyRegistry.devices = << >> /\ EmptyRegistry.owner = None
        /\ EmptyRegistry.offers = << >>
    BY DEF EmptyRegistry
  <1>2. DOMAIN << >> = {} /\ << >> \in [{} -> DeviceRecords] /\ << >> \in [{} -> Nat]
    OBVIOUS
  <1>3. IsFiniteSet({}) /\ Cardinality({}) = 0
    BY FS_EmptySet
  <1>4. OffersOK(<< >>, n)
    BY <1>2, <1>3, DeviceAssumption DEF OffersOK
  <1>5. DevicesOK(<< >>, None, n) /\ UsedOnce(<< >>, {})
    BY <1>2 DEF DevicesOK, UsedOnce
  <1>6. QED
    BY <1>1, <1>2, <1>4, <1>5 DEF Sound

LEMMA RestartInv ==
    ASSUME IInv, Restart
    PROVE  IInv'
  <1> DEFINE reg == registry'
  <1>1. /\ minted \in Nat /\ minted' = minted /\ Sound(disk, minted) /\ disk' = disk
        /\ Sound(reg, minted)
    <2>1. minted \in Nat /\ minted' = minted /\ Sound(disk, minted) /\ disk' = disk
      BY Parts DEF RegistryPart, DiskPart, Restart
    <2>2. reg = disk \/ reg = EmptyRegistry
      BY DEF Restart
    <2>3. QED
      BY <2>1, <2>2, EmptySound
  <1>2. TokenIndexOK(tokenIndex', reg.devices) /\ AccessIndexOK(accessIndex', reg.devices)
    BY IndexRebuild DEF Restart
  <1>3. /\ DOMAIN tokenIndex' \subseteq Nat /\ tokenIndex' \in [DOMAIN tokenIndex' -> Nat]
        /\ DOMAIN accessIndex' \subseteq Nat /\ accessIndex' \in [DOMAIN accessIndex' -> Nat]
    <2>1. DOMAIN reg.devices \subseteq Nat
          /\ \A d \in DOMAIN reg.devices :
                reg.devices[d].token \in Nat /\ reg.devices[d].access \in Nat
      BY <1>1 DEF Sound, DevicesOK, DeviceRecords
    <2>2. QED
      BY <1>2, <2>1 DEF TokenIndexOK, AccessIndexOK, Restart, rebuild_token_hash_index
  <1>4. RegistryPart'
    BY <1>1, <1>2, <1>3 DEF RegistryPart
  <1>5. DiskPart'
    BY <1>1 DEF DiskPart, Restart
  <1>6. TasksPart'
    <2>1. DOMAIN tasks' = Tasks /\ \A t \in Tasks : tasks'[t] = Idle
      BY DEF Restart
    <2>2. \A t \in Tasks : IsTask(tasks[t])' /\ tasks'[t].pc # "write"
      BY <2>1 DEF IsTask, Idle
    <2>3. QED
      BY <2>1, <2>2 DEF TasksPart
  <1>7. RestPart'
    BY Parts DEF RestPart, Restart, Histories
  <1>8. QED
    BY <1>4, <1>5, <1>6, <1>7, PartsNext

LEMMA TickInv ==
    ASSUME IInv, Tick
    PROVE  IInv'
  <1>1. RegistryPart' /\ DiskPart'
    BY Parts DEF Tick, RegistryPart, DiskPart
  <1>2. TasksPart'
    BY Parts DEF Tick, TasksPart, IsTask, IsRegistry
  <1>3. RestPart'
    BY Parts DEF Tick, RestPart
  <1>4. QED
    BY <1>1, <1>2, <1>3, PartsNext

-----------------------------------------------------------------------------
(* The theorems *)

LEMMA InitInv == Init => IInv
  <1> SUFFICES ASSUME Init PROVE IInv
    OBVIOUS
  <1>1. Sound(EmptyRegistry, 0)
    BY EmptySound
  <1>2. RegistryPart
    <2>1. TokenIndexOK(<< >>, << >>) /\ AccessIndexOK(<< >>, << >>)
      BY DEF TokenIndexOK, AccessIndexOK
    <2>2. QED
      BY <1>1, <2>1 DEF Init, RegistryPart, EmptyRegistry
  <1>3. DiskPart
    BY <1>1 DEF Init, DiskPart
  <1>4. TasksPart
    BY IdleTask DEF Init, TasksPart
  <1>5. RestPart
    BY DEF Init, RestPart, Histories
  <1>6. QED
    BY <1>2, <1>3, <1>4, <1>5, Parts

LEMMA NextInv == IInv /\ [Next]_vars => IInv'
  <1> SUFFICES ASSUME IInv, [Next]_vars PROVE IInv'
    OBVIOUS
  <1>1. CASE UNCHANGED vars
    <2>1. RegistryPart' /\ DiskPart' /\ RestPart'
      BY <1>1, Parts DEF vars, RegistryPart, DiskPart, RestPart
    <2>2. TasksPart'
      BY <1>1, Parts DEF vars, TasksPart, IsTask, IsRegistry
    <2>3. QED
      BY <2>1, <2>2, PartsNext
  <1>2. ASSUME NEW t \in Tasks, NEW ttl \in OfferTtls, Admit(t, [pc |-> "offer", ttl |-> ttl])
        PROVE  IInv'
    BY <1>2, AdmitInv, AdmitTasks
  <1>3. ASSUME NEW t \in Tasks, NEW d \in DOMAIN devices,
               Admit(t, [pc |-> "revoke", device |-> d])
        PROVE  IInv'
    <2>1. d \in Nat
      BY Parts DEF RegistryPart, Sound, DevicesOK, devices
    <2>2. QED
      BY <1>3, <2>1, AdmitInv, AdmitTasks
  <1>4. ASSUME NEW t \in Tasks,
               \/ bootstrap_claim(t)
               \/ create_pairing_offer(t) \/ refuse_blank_offer(t)
               \/ \E o \in handed : accept_pairing_offer(t, o) \/ refuse_pairing_offer(t, o)
               \/ \E d \in DOMAIN clients : RequestRefresh(t, d)
               \/ RejectReuse(t)
               \/ refresh_access_token(t)
               \/ revoke_device(t)
        PROVE  IInv'
    BY <1>4, ClaimInv, CreateOfferInv, RefuseOfferInv, AcceptInv, RefuseInv, RequestRefreshInv,
       ReuseInv, RefreshInv, RevokeInv
  <1>5. ASSUME NEW t \in Tasks,
               \/ SaveForOthers(t) \/ Capture(t) \/ WriteSnapshot(t)
               \/ Answer(t) \/ LoseAnswer(t)
        PROVE  IInv'
    BY <1>5, SaveForOthersInv, CaptureInv, WriteInv, AnswerInv
  <1>6. QED
    BY <1>1, <1>2, <1>3, <1>4, <1>5, RestartInv, TickInv DEF Next

\* The invariant holds for any number of handlers and restarts.
THEOREM Invariance == Spec => []IInv
  BY InitInv, NextInv, PTL DEF Spec

\* Every variable has its type and the open offers stay within
\* MAX_PAIRING_OFFERS.
THEOREM TypeCorrect == Spec => []TypeOK
  <1>1. IInv => TypeOK
    BY DEF IInv
  <1>2. QED
    BY <1>1, Invariance, PTL

\* The token indices lead from exactly the current tokens to their devices.
THEOREM IndicesCorrect == Spec => []IndicesMirrorDevices
  <1>1. IInv => IndicesMirrorDevices
    BY DEF IInv, TokenIndexOK, AccessIndexOK, IndicesMirrorDevices, devices
  <1>2. QED
    BY <1>1, Invariance, PTL

\* owner_device_id names the one device with the owner flag.
THEOREM OwnerCorrect == Spec => []OwnerIsTheFlagged
  <1>1. IInv => OwnerIsTheFlagged
    BY DEF IInv, Sound, DevicesOK, OwnerIsTheFlagged, devices
  <1>2. QED
    BY <1>1, Invariance, PTL

\* No offer brings in two devices or stays open once its device is trusted.
THEOREM OffersCorrect == Spec => []OfferUsedOnce
  <1>1. IInv => OfferUsedOnce
    BY DEF IInv, Sound, UsedOnce, OfferUsedOnce, devices
  <1>2. QED
    BY <1>1, Invariance, PTL

-----------------------------------------------------------------------------
(* Tokens, answers and the order of saves *)

\* The registry and every copy of it that may be restored.
Writing(t) == tasks[t].pc = "write"
Registries == {registry, disk} \cup {tasks[t].copy : t \in {u \in Tasks : Writing(u)}}

\* Handler t works on the token x of the client of d, has the tokens x for it,
\* or has revoked d.
Carrying(t) == tasks[t].pc \in {"capture", "write", "answer"}
Asks(t, d, x) == tasks[t].pc = "refresh" /\ tasks[t].device = d /\ tasks[t].token = x
Grants(t, d, x) ==
    /\ Carrying(t) /\ tasks[t].answer.kind = "tokens"
    /\ tasks[t].answer.device = d /\ tasks[t].answer.refresh = x
Revokes(t, d) ==
    Carrying(t) /\ tasks[t].answer.kind = "revoked" /\ tasks[t].answer.subject = d

Has(reg, d, x) == d \in DOMAIN reg.devices /\ reg.devices[d].token = x

\* x is a refresh token of d that somebody knows.
Issued(x, d) ==
    \/ \E reg \in Registries : Has(reg, d, x)
    \/ d \in DOMAIN clients /\ clients[d].refresh = x
    \/ \E t \in Tasks : Asks(t, d, x) \/ Grants(t, d, x)

\* A token is issued for one device, and a device's tokens grow.
TokensOwned ==
    /\ \A x, d : Issued(x, d) => x \in 1 .. minted /\ d \in 1 .. minted
    /\ \A x, d, e : Issued(x, d) /\ Issued(x, e) => d = e
    /\ \A reg \in Registries : \A d \in DOMAIN reg.devices :
          reg.devices[d].previous < reg.devices[d].token

\* Tokens that are still to be answered are with one handler only.
AnswersUnique ==
    \A t \in Tasks : \A d, x : Grants(t, d, x) =>
        /\ \A e \in DOMAIN clients : clients[e].refresh # x
        /\ \A u \in Tasks : \A e : ~Asks(u, e, x)
        /\ \A u \in Tasks : \A e : Grants(u, e, x) => u = t

\* No copy has a newer token of d than x.
Newest(d, x) == \A reg \in Registries : \A y : Has(reg, d, y) => y <= x

\* A client that is not unlucky has at most one handler, and no copy has a
\* newer token than that handler is to answer or, without one, the client has.
HonestServed(d) ==
    /\ \A t, u \in Tasks : \A x, y :
          (Asks(t, d, x) \/ Grants(t, d, x)) /\ (Asks(u, d, y) \/ Grants(u, d, y)) => t = u
    /\ \A t \in Tasks : \A x : Grants(t, d, x) => Newest(d, x)
    /\ d \in DOMAIN clients /\ (\A t \in Tasks : \A x : ~Grants(t, d, x)) =>
          Newest(d, clients[d].refresh)

\* What handler t is about to answer is true of a copy.
Shows(reg, t) ==
    /\ \A d, x : Grants(t, d, x) /\ d \in DOMAIN reg.devices => reg.devices[d].token = x
    /\ \A d : Revokes(t, d) => d \notin DOMAIN reg.devices

OneWriter == \A t, u \in Tasks : Writing(t) /\ Writing(u) => t = u

\* An answer is true of the registry at once, of the copy of its handler, and
\* of everything that can be restored when it is given.
AnswersSaved ==
    \A t \in Tasks :
        /\ Shows(registry, t)
        /\ Writing(t) => Shows(tasks[t].copy, t)
        /\ tasks[t].pc = "answer" => \A reg \in Registries : Shows(reg, t)

ClientsKnown ==
    \A reg \in Registries : \A d \in DOMAIN clients \cap DOMAIN reg.devices :
        clients[d].refresh \in {reg.devices[d].token, reg.devices[d].previous}

AskersKnown ==
    \A t \in Tasks : \A d, x : Asks(t, d, x) =>
        /\ d \in DOMAIN clients
        /\ d \in DOMAIN registry.devices => x <= clients[d].refresh

GoneStays == \A d \in history.gone : \A reg \in Registries : d \notin DOMAIN reg.devices

\* What holds while saves neither fail nor overlap.
SavesOrdered ==
    OneWriter /\ AnswersSaved /\ ClientsKnown /\ AskersKnown /\ GoneStays

\* Revoked devices are old ones.
RevokedPast ==
    /\ history.gone \subseteq 0 .. minted
    /\ \A t \in Tasks : \A d : Revokes(t, d) => d \in 0 .. minted

HonestAll == \A d \in Nat \ history.unlucky : HonestServed(d)

TokenInv == TokensOwned /\ AnswersUnique /\ HonestAll

TrustInv == TokenInv /\ RevokedPast /\ (~history.disordered => SavesOrdered)

-----------------------------------------------------------------------------
(* How a handler that moves on changes these *)

LEMMA OthersKeep ==
    ASSUME IInv, NEW t \in Tasks, NEW rec, Become(t, rec)
    PROVE  /\ tasks'[t] = rec
           /\ \A u \in Tasks \ {t} : tasks'[u] = tasks[u]
           /\ \A u \in Tasks \ {t} : \A d, x :
                 /\ Asks(u, d, x)' <=> Asks(u, d, x)
                 /\ Grants(u, d, x)' <=> Grants(u, d, x)
                 /\ Revokes(u, d)' <=> Revokes(u, d)
           /\ \A u \in Tasks \ {t} : Writing(u)' <=> Writing(u)
  <1>1. /\ tasks'[t] = rec
        /\ \A u \in Tasks \ {t} : tasks'[u] = tasks[u]
    BY Parts DEF Become, TasksPart
  <1>2. QED
    BY <1>1 DEF Asks, Grants, Revokes, Carrying, Writing

\* A handler that has ended, or has not got so far, carries nothing.
LEMMA Silent ==
    ASSUME NEW t, tasks[t].pc \notin {"refresh", "capture", "write", "answer"}
    PROVE  /\ ~Writing(t)
           /\ \A d, x : ~Asks(t, d, x) /\ ~Grants(t, d, x) /\ ~Revokes(t, d)
  BY DEF Asks, Grants, Revokes, Carrying, Writing

LEMMA SilentNext ==
    ASSUME NEW t, tasks'[t].pc \notin {"refresh", "capture", "write", "answer"}
    PROVE  /\ ~Writing(t)'
           /\ \A d, x : ~Asks(t, d, x)' /\ ~Grants(t, d, x)' /\ ~Revokes(t, d)'
  BY DEF Asks, Grants, Revokes, Carrying, Writing

\* One copy has no device or token that the other has not.
Below(new, old) ==
    \A d \in DOMAIN new.devices :
        /\ d \in DOMAIN old.devices
        /\ new.devices[d].token = old.devices[d].token
        /\ new.devices[d].previous = old.devices[d].previous

LEMMA BelowHas ==
    ASSUME NEW new, NEW old, Below(new, old), NEW d, NEW x, Has(new, d, x)
    PROVE  Has(old, d, x)
  BY DEF Below, Has

\* The copies after a step that writes none and captures none.
LEMMA RegistriesKept ==
    ASSUME disk' = disk,
           \A u \in Tasks : Writing(u)' => Writing(u) /\ tasks'[u].copy = tasks[u].copy
    PROVE  \A reg \in Registries' : reg = registry' \/ reg \in Registries
  BY DEF Registries

\* A step that issues no token and gives no answer.
LEMMA NothingIssued ==
    ASSUME IInv, TokenInv, minted' \in Nat, minted <= minted', clients' = clients,
           history.unlucky \subseteq history'.unlucky,
           \A reg \in Registries' : \E old \in Registries : Below(reg, old),
           \A u \in Tasks : \A d, x : Asks(u, d, x)' => Asks(u, d, x),
           \A u \in Tasks : \A d, x : Grants(u, d, x)' => Grants(u, d, x),
           \A u \in Tasks : \A d, x : Grants(u, d, x) =>
               Grants(u, d, x)' \/ d \in history'.unlucky \/ d \notin DOMAIN clients
    PROVE  TokenInv'
  <1>1. \A reg \in Registries' : \A d, x :
           Has(reg, d, x) => \E old \in Registries : Has(old, d, x)
    BY BelowHas
  <1>2. ASSUME NEW x, NEW d, Issued(x, d)' PROVE Issued(x, d)
    <2>1. CASE \E reg \in Registries' : Has(reg, d, x)
      BY <1>1, <2>1 DEF Issued
    <2>2. CASE d \in DOMAIN clients' /\ clients'[d].refresh = x
      BY <2>2 DEF Issued
    <2>3. CASE \E t \in Tasks : Asks(t, d, x)' \/ Grants(t, d, x)'
      BY <2>3 DEF Issued
    <2>4. QED
      BY <1>2, <2>1, <2>2, <2>3 DEF Issued, Has
  <1>3. TokensOwned'
    <2>1. ASSUME NEW x, NEW d, Issued(x, d)' PROVE x \in 1 .. minted' /\ d \in 1 .. minted'
      <3>1. x \in 1 .. minted /\ d \in 1 .. minted
        BY <1>2, <2>1 DEF TokenInv, TokensOwned
      <3>2. QED
        BY <3>1, Parts DEF RegistryPart
    <2>2. ASSUME NEW x, NEW d, NEW e, Issued(x, d)', Issued(x, e)' PROVE d = e
      BY <1>2, <2>2 DEF TokenInv, TokensOwned
    <2>3. ASSUME NEW reg \in Registries', NEW d \in DOMAIN reg.devices
          PROVE  reg.devices[d].previous < reg.devices[d].token
      BY <2>3 DEF TokenInv, TokensOwned, Below
    <2>4. QED
      BY <2>1, <2>2, <2>3 DEF TokensOwned
  <1>4. AnswersUnique'
    <2>1. ASSUME NEW t \in Tasks, NEW d, NEW x, Grants(t, d, x)'
          PROVE  /\ \A e \in DOMAIN clients' : clients'[e].refresh # x
                 /\ \A u \in Tasks : \A e : ~Asks(u, e, x)'
                 /\ \A u \in Tasks : \A e : Grants(u, e, x)' => u = t
      BY <2>1 DEF TokenInv, AnswersUnique
    <2>2. QED
      BY <2>1 DEF AnswersUnique
  <1>5. ASSUME NEW d \in Nat \ history'.unlucky PROVE HonestServed(d)'
    <2>1. HonestServed(d)
      BY DEF TokenInv, HonestAll
    <2>2. ASSUME NEW x, Newest(d, x) PROVE Newest(d, x)'
      BY <1>1, <2>2 DEF Newest, Has
    <2>3. ASSUME NEW t \in Tasks, NEW u \in Tasks, NEW x, NEW y,
                 Asks(t, d, x)' \/ Grants(t, d, x)', Asks(u, d, y)' \/ Grants(u, d, y)'
          PROVE  t = u
      BY <2>1, <2>3 DEF HonestServed
    <2>4. ASSUME NEW t \in Tasks, NEW x, Grants(t, d, x)' PROVE Newest(d, x)'
      BY <2>1, <2>2, <2>4 DEF HonestServed
    <2>5. ASSUME d \in DOMAIN clients', \A t \in Tasks : \A x : ~Grants(t, d, x)'
          PROVE  Newest(d, clients[d].refresh)'
      <3>1. Newest(d, clients[d].refresh)
        BY <2>1, <2>5 DEF HonestServed
      <3>2. QED
        BY <1>1, <3>1 DEF Newest, Has
    <2>6. QED
      BY <2>3, <2>4, <2>5 DEF HonestServed
  <1>6. QED
    BY <1>3, <1>4, <1>5 DEF TokenInv, HonestAll

\* A step that saves nothing and makes no promise but about a device it has
\* just removed.
LEMMA NothingSaved ==
    ASSUME IInv, SavesOrdered, disk' = disk, clients' = clients, history'.gone = history.gone,
           Below(registry', registry),
           \A u \in Tasks : Writing(u)' => Writing(u) /\ tasks'[u].copy = tasks[u].copy,
           \A u \in Tasks : \A d, x : Asks(u, d, x)' => Asks(u, d, x),
           \A u \in Tasks : \A d, x : Grants(u, d, x)' =>
               Grants(u, d, x) /\ tasks'[u].pc = tasks[u].pc,
           \A u \in Tasks : \A d : Revokes(u, d)' =>
               \/ Revokes(u, d) /\ tasks'[u].pc = tasks[u].pc
               \/ tasks'[u].pc = "capture" /\ d \notin DOMAIN registry'.devices
    PROVE  SavesOrdered'
  <1>1. \A reg \in Registries' : reg = registry' \/ reg \in Registries
    BY RegistriesKept
  <1>2. registry \in Registries
    BY DEF Registries
  <1>3. OneWriter'
    BY DEF SavesOrdered, OneWriter
  <1>4. AnswersSaved'
    <2>1. ASSUME NEW t \in Tasks, NEW reg, Shows(reg, t),
                 \A d : Revokes(t, d)' => Revokes(t, d)
          PROVE  Shows(reg, t)'
      BY <2>1 DEF Shows
    <2>2. ASSUME NEW t \in Tasks PROVE Shows(registry, t)'
      <3>1. Shows(registry, t)
        BY DEF SavesOrdered, AnswersSaved
      <3>2. QED
        BY <3>1 DEF Shows, Below
    <2>3. ASSUME NEW t \in Tasks, Writing(t)' PROVE Shows(tasks[t].copy, t)'
      <3>1. tasks'[t].pc # "capture"
        BY <2>3 DEF Writing
      <3>2. Writing(t) /\ tasks'[t].copy = tasks[t].copy
        BY <2>3
      <3>3. Shows(tasks[t].copy, t)
        BY <3>2 DEF SavesOrdered, AnswersSaved
      <3>4. QED
        BY <3>1, <3>2, <3>3 DEF Shows
    <2>4. ASSUME NEW t \in Tasks, tasks'[t].pc = "answer", NEW reg \in Registries'
          PROVE  Shows(reg, t)'
      <3>1. CASE reg = registry'
        BY <2>2, <3>1 DEF Shows
      <3>2. CASE reg \in Registries
        <4>1. CASE tasks[t].pc = "answer"
          <5>1. Shows(reg, t)
            BY <3>2, <4>1 DEF SavesOrdered, AnswersSaved
          <5>2. QED
            BY <2>4, <5>1 DEF Shows
        <4>2. CASE tasks[t].pc # "answer"
          BY <2>4, <4>2 DEF Shows
        <4>3. QED
          BY <4>1, <4>2
      <3>3. QED
        BY <1>1, <3>1, <3>2
    <2>5. QED
      BY <2>2, <2>3, <2>4 DEF AnswersSaved
  <1>5. ClientsKnown'
    BY <1>1, <1>2 DEF SavesOrdered, ClientsKnown, Below
  <1>6. AskersKnown'
    BY DEF SavesOrdered, AskersKnown, Below
  <1>7. GoneStays'
    BY <1>1, <1>2 DEF SavesOrdered, GoneStays, Below
  <1>8. QED
    BY <1>3, <1>4, <1>5, <1>6, <1>7 DEF SavesOrdered

\* Both at once, for a handler that gets no tokens and has none.
LEMMA QuietStep ==
    ASSUME IInv, TrustInv, NEW t \in Tasks, NEW rec, Become(t, rec),
           tasks[t].pc \notin {"capture", "write", "answer"},
           \/ rec.pc \notin {"refresh", "capture", "write", "answer"}
           \/ /\ rec.pc = "capture" /\ rec.answer.kind # "tokens"
              /\ rec.answer.kind = "revoked" =>
                    /\ rec.answer.subject \notin DOMAIN registry'.devices
                    /\ rec.answer.subject \in 0 .. minted,
           minted' \in Nat, minted <= minted', Below(registry', registry),
           UNCHANGED <<disk, clients, history>>
    PROVE  TrustInv'
  <1>1. /\ tasks'[t] = rec
        /\ \A u \in Tasks \ {t} : tasks'[u] = tasks[u]
        /\ \A u \in Tasks \ {t} : \A d, x :
              /\ Asks(u, d, x)' <=> Asks(u, d, x)
              /\ Grants(u, d, x)' <=> Grants(u, d, x)
              /\ Revokes(u, d)' <=> Revokes(u, d)
        /\ \A u \in Tasks \ {t} : Writing(u)' <=> Writing(u)
    BY OthersKeep
  <1>2. ~Writing(t)' /\ \A d, x : ~Asks(t, d, x)' /\ ~Grants(t, d, x)'
    BY <1>1 DEF Asks, Grants, Carrying, Writing
  <1>3. \A d : Revokes(t, d)' =>
           tasks'[t].pc = "capture" /\ d \notin DOMAIN registry'.devices /\ d \in 0 .. minted
    BY <1>1 DEF Revokes, Carrying
  <1>4. ~Writing(t) /\ \A d, x : ~Grants(t, d, x)
    BY DEF Grants, Carrying, Writing
  <1>5. \A u \in Tasks : Writing(u)' => Writing(u) /\ tasks'[u].copy = tasks[u].copy
    BY <1>1, <1>2
  <1>6. \A u \in Tasks : \A d, x : Asks(u, d, x)' => Asks(u, d, x)
    BY <1>1, <1>2
  <1>7. \A u \in Tasks : \A d, x :
           Grants(u, d, x)' => Grants(u, d, x) /\ tasks'[u].pc = tasks[u].pc
    BY <1>1, <1>2
  <1>8. \A u \in Tasks : \A d, x : Grants(u, d, x) => Grants(u, d, x)'
    BY <1>1, <1>4
  <1>9. \A u \in Tasks : \A d : Revokes(u, d)' =>
           \/ Revokes(u, d) /\ tasks'[u].pc = tasks[u].pc
           \/ tasks'[u].pc = "capture" /\ d \notin DOMAIN registry'.devices
    BY <1>1, <1>3
  <1>10. \A reg \in Registries' : \E old \in Registries : Below(reg, old)
    <2>1. \A reg \in Registries' : reg = registry' \/ reg \in Registries
      BY <1>5, RegistriesKept
    <2>2. registry \in Registries /\ \A reg : Below(reg, reg)
      BY DEF Registries, Below
    <2>3. QED
      BY <2>1, <2>2
  <1>11. TokenInv'
    BY <1>6, <1>7, <1>8, <1>10, NothingIssued DEF TrustInv
  <1>12. RevokedPast'
    <2>1. 0 .. minted \subseteq 0 .. minted'
      BY Parts DEF RegistryPart
    <2>2. QED
      BY <1>1, <1>3, <2>1 DEF TrustInv, RevokedPast
  <1>13. ~history'.disordered => SavesOrdered'
    BY <1>5, <1>6, <1>7, <1>9, NothingSaved DEF TrustInv
  <1>14. QED
    BY <1>11, <1>12, <1>13 DEF TrustInv

\* No handler moves.
LEMMA StillStep ==
    ASSUME IInv, TrustInv, Below(registry', registry),
           UNCHANGED <<disk, tasks, clients, history, minted>>
    PROVE  TrustInv'
  <1>1. \A u \in Tasks : Writing(u)' => Writing(u) /\ tasks'[u].copy = tasks[u].copy
    BY DEF Writing
  <1>2. \A u \in Tasks : \A d, x : /\ Asks(u, d, x)' <=> Asks(u, d, x)
                                   /\ Grants(u, d, x)' <=> Grants(u, d, x)
                                   /\ Revokes(u, d)' <=> Revokes(u, d)
    BY DEF Asks, Grants, Revokes, Carrying
  <1>3. minted' \in Nat /\ minted <= minted'
    BY Parts DEF RegistryPart
  <1>4. \A reg \in Registries' : \E old \in Registries : Below(reg, old)
    <2>1. \A reg \in Registries' : reg = registry' \/ reg \in Registries
      BY <1>1, RegistriesKept
    <2>2. registry \in Registries /\ \A reg : Below(reg, reg)
      BY DEF Registries, Below
    <2>3. QED
      BY <2>1, <2>2
  <1>5. TokenInv'
    BY <1>2, <1>3, <1>4, NothingIssued DEF TrustInv
  <1>6. RevokedPast'
    BY <1>2 DEF TrustInv, RevokedPast
  <1>7. ~history'.disordered => SavesOrdered'
    BY <1>1, <1>2, NothingSaved DEF TrustInv
  <1>8. QED
    BY <1>5, <1>6, <1>7 DEF TrustInv

-----------------------------------------------------------------------------
(* Steps that grant no tokens *)

\* Offers are not devices.
LEMMA OffersBelow ==
    ASSUME IInv, NEW offs, registry' = [registry EXCEPT !.offers = offs]
    PROVE  Below(registry', registry)
  BY Parts DEF RegistryPart, Sound, Below

LEMMA RemovedBelow ==
    ASSUME IInv, NEW d \in DOMAIN devices, Removed(d)
    PROVE  /\ Below(registry', registry)
           /\ d \notin DOMAIN registry'.devices
           /\ d \in 1 .. minted
  <1>1. registry'.devices = Without(registry.devices, {d})
    BY Parts DEF RegistryPart, Sound, Removed
  <1>2. d \in 1 .. minted
    BY Parts DEF RegistryPart, Sound, DevicesOK, devices
  <1>3. QED
    BY <1>1, <1>2 DEF Without, Below

LEMMA SameBelow ==
    ASSUME registry' = registry
    PROVE  Below(registry', registry)
  BY DEF Below

LEMMA IdleSilent == Idle.pc \notin {"refresh", "capture", "write", "answer"}
  BY DEF Idle

LEMMA AdmitTrust ==
    ASSUME IInv, TrustInv, NEW t \in Tasks, NEW rec, Admit(t, rec),
           rec.pc \notin {"refresh", "capture", "write", "answer"}
    PROVE  TrustInv'
  <1>1. minted' \in Nat /\ minted <= minted'
    BY Parts DEF RegistryPart, Admit
  <1>2. Below(registry', registry)
    BY SameBelow DEF Admit
  <1>3. tasks[t].pc \notin {"capture", "write", "answer"}
    BY IdleSilent DEF Admit
  <1>4. QED
    BY <1>1, <1>2, <1>3, QuietStep DEF Admit

LEMMA CreateOfferTrust ==
    ASSUME IInv, TrustInv, NEW t \in Tasks, create_pairing_offer(t)
    PROVE  TrustInv'
  <1>1. minted \in Nat /\ tasks[t].pc \notin {"capture", "write", "answer"}
    BY Parts DEF RegistryPart, create_pairing_offer
  <1>2. UNCHANGED <<disk, clients, history>>
    BY DEF create_pairing_offer
  <1>3. CASE registry.owner = None
    <2>1. Become(t, Idle) /\ registry' = registry /\ minted' = minted
      BY <1>3 DEF create_pairing_offer
    <2>2. QED
      BY <1>1, <1>2, <2>1, SameBelow, IdleSilent, QuietStep
  <1>4. CASE registry.owner # None
    <2> DEFINE rec == [pc |-> "capture", answer |-> [kind |-> "offer", subject |-> minted + 1]]
    <2>1. minted' = minted + 1 /\ Become(t, rec)
      BY <1>4 DEF create_pairing_offer
    <2>2. rec.pc = "capture" /\ rec.answer.kind = "offer"
      OBVIOUS
    <2>3. \E offs : registry' = [registry EXCEPT !.offers = offs]
      BY <1>4 DEF create_pairing_offer
    <2>4. Below(registry', registry)
      BY <2>3, OffersBelow
    <2> HIDE DEF rec
    <2>5. QED
      BY <1>1, <1>2, <2>1, <2>2, <2>4, QuietStep
  <1>5. QED
    BY <1>3, <1>4

LEMMA RefuseOfferTrust ==
    ASSUME IInv, TrustInv, NEW t \in Tasks, refuse_blank_offer(t)
    PROVE  TrustInv'
  <1>1. /\ minted \in Nat /\ tasks[t].pc \notin {"capture", "write", "answer"}
        /\ Become(t, Idle) /\ UNCHANGED <<disk, clients, history, minted>>
    BY Parts DEF RegistryPart, refuse_blank_offer
  <1>2. \E offs : registry' = [registry EXCEPT !.offers = offs]
    BY DEF refuse_blank_offer
  <1>3. QED
    BY <1>1, <1>2, OffersBelow, IdleSilent, QuietStep

LEMMA RefuseTrust ==
    ASSUME IInv, TrustInv, NEW t \in Tasks, NEW o, refuse_pairing_offer(t, o)
    PROVE  TrustInv'
  BY OffersBelow, StillStep DEF refuse_pairing_offer

LEMMA ReuseTrust ==
    ASSUME IInv, TrustInv, NEW t \in Tasks, RejectReuse(t)
    PROVE  TrustInv'
  <1>1. /\ minted \in Nat /\ tasks[t].pc \notin {"capture", "write", "answer"}
        /\ Become(t, Idle) /\ UNCHANGED <<disk, clients, history, minted>>
    BY Parts DEF RegistryPart, RejectReuse
  <1>2. Below(registry', registry)
    BY RemovedBelow DEF RejectReuse
  <1>3. QED
    BY <1>1, <1>2, IdleSilent, QuietStep

LEMMA RevokeTrust ==
    ASSUME IInv, TrustInv, NEW t \in Tasks, revoke_device(t)
    PROVE  TrustInv'
  <1>1. /\ minted \in Nat /\ tasks[t].pc \notin {"capture", "write", "answer"}
        /\ UNCHANGED <<disk, clients, history, minted>>
    BY Parts DEF RegistryPart, revoke_device
  <1>2. CASE tasks[t].device \in DOMAIN devices
    <2> DEFINE rec == [pc |-> "capture", answer |->
                         [kind |-> "revoked", subject |-> tasks[t].device]]
    <2>1. Removed(tasks[t].device) /\ Become(t, rec)
      BY <1>2 DEF revoke_device
    <2>2. /\ Below(registry', registry)
          /\ tasks[t].device \notin DOMAIN registry'.devices
          /\ tasks[t].device \in 1 .. minted
      BY <1>2, <2>1, RemovedBelow
    <2>3. /\ rec.pc = "capture" /\ rec.answer.kind = "revoked"
          /\ rec.answer.subject = tasks[t].device
      OBVIOUS
    <2>4. tasks[t].device \in 0 .. minted
      BY <2>2
    <2> HIDE DEF rec
    <2>5. QED
      BY <1>1, <2>1, <2>2, <2>3, <2>4, QuietStep
  <1>3. CASE tasks[t].device \notin DOMAIN devices
    <2>1. Become(t, Idle) /\ registry' = registry
      BY <1>3 DEF revoke_device
    <2>2. QED
      BY <1>1, <2>1, SameBelow, IdleSilent, QuietStep
  <1>4. QED
    BY <1>2, <1>3

LEMMA SaveForOthersTrust ==
    ASSUME IInv, TrustInv, NEW t \in Tasks, SaveForOthers(t)
    PROVE  TrustInv'
  <1> DEFINE rec == [pc |-> "capture", answer |-> [kind |-> "other"]]
  <1>1. /\ minted \in Nat /\ tasks[t].pc \notin {"capture", "write", "answer"}
        /\ UNCHANGED <<registry, disk, clients, history, minted>>
    BY Parts, IdleSilent DEF RegistryPart, SaveForOthers
  <1>2. Become(t, rec)
    BY DEF SaveForOthers
  <1>3. rec.pc = "capture" /\ rec.answer.kind = "other"
    OBVIOUS
  <1> HIDE DEF rec
  <1>4. QED
    BY <1>1, <1>2, <1>3, SameBelow, QuietStep

-----------------------------------------------------------------------------
(* Saving and restarting *)

\* A handler that goes on with the answer it carries, while the registry and
\* the clients stay.
LEMMA SameAnswer ==
    ASSUME IInv, TrustInv, NEW t \in Tasks, NEW rec, Become(t, rec), Carrying(t),
           rec.pc \in {"capture", "write", "answer"}, rec.answer = tasks[t].answer,
           UNCHANGED <<clients, minted>>,
           history.unlucky = history'.unlucky, history'.gone = history.gone,
           Registries' \subseteq Registries
    PROVE  /\ TokenInv' /\ RevokedPast'
           /\ \A u \in Tasks : \A d, x : /\ Asks(u, d, x)' <=> Asks(u, d, x)
                                         /\ Grants(u, d, x)' <=> Grants(u, d, x)
                                         /\ Revokes(u, d)' <=> Revokes(u, d)
           /\ tasks'[t] = rec
           /\ \A u \in Tasks \ {t} :
                 tasks'[u] = tasks[u] /\ (Writing(u)' <=> Writing(u))
  <1>1. /\ tasks'[t] = rec
        /\ \A u \in Tasks \ {t} : tasks'[u] = tasks[u]
        /\ \A u \in Tasks \ {t} : \A d, x :
              /\ Asks(u, d, x)' <=> Asks(u, d, x)
              /\ Grants(u, d, x)' <=> Grants(u, d, x)
              /\ Revokes(u, d)' <=> Revokes(u, d)
        /\ \A u \in Tasks \ {t} : Writing(u)' <=> Writing(u)
    BY OthersKeep
  <1>2. \A d, x : /\ Asks(t, d, x)' <=> Asks(t, d, x)
                  /\ Grants(t, d, x)' <=> Grants(t, d, x)
                  /\ Revokes(t, d)' <=> Revokes(t, d)
    BY <1>1 DEF Asks, Grants, Revokes, Carrying
  <1>3. \A u \in Tasks : \A d, x : /\ Asks(u, d, x)' <=> Asks(u, d, x)
                                   /\ Grants(u, d, x)' <=> Grants(u, d, x)
                                   /\ Revokes(u, d)' <=> Revokes(u, d)
    BY <1>1, <1>2
  <1>4. minted' \in Nat /\ minted <= minted'
    BY Parts DEF RegistryPart
  <1>5. \A reg \in Registries' : \E old \in Registries : Below(reg, old)
    BY DEF Below
  <1>6. TokenInv'
    BY <1>3, <1>4, <1>5, NothingIssued DEF TrustInv
  <1>7. RevokedPast'
    BY <1>3 DEF TrustInv, RevokedPast
  <1>8. QED
    BY <1>1, <1>3, <1>6, <1>7

LEMMA HistoryFields ==
    ASSUME IInv
    PROVE  /\ DOMAIN history = {"unlucky", "gone", "disordered"}
           /\ history.unlucky \subseteq Nat /\ history.gone \subseteq Nat
           /\ history.disordered \in BOOLEAN
  BY Parts DEF RestPart, Histories

LEMMA CaptureTrust ==
    ASSUME IInv, TrustInv, NEW t \in Tasks, Capture(t)
    PROVE  TrustInv'
  <1> DEFINE rec == [pc |-> "write", answer |-> tasks[t].answer, copy |-> registry]
  <1>1. Become(t, rec) /\ Carrying(t) /\ ~Writing(t)
    BY DEF Capture, Carrying, Writing
  <1>2. rec.pc = "write" /\ rec.answer = tasks[t].answer /\ rec.copy = registry
    OBVIOUS
  <1> HIDE DEF rec
  <1>3. UNCHANGED <<registry, disk, clients, minted>>
    BY DEF Capture
  <1>4. /\ history'.unlucky = history.unlucky /\ history'.gone = history.gone
        /\ ~history'.disordered =>
              ~history.disordered /\ \A u \in Tasks : ~Writing(u)
    BY HistoryFields DEF Capture, Writing
  <1>5. tasks'[t] = rec /\ \A u \in Tasks \ {t} : tasks'[u] = tasks[u]
    BY <1>1, OthersKeep
  <1>6. Registries' \subseteq Registries
    BY <1>2, <1>3, <1>5 DEF Registries, Writing
  <1>7. /\ TokenInv' /\ RevokedPast'
        /\ \A u \in Tasks : \A d, x : /\ Asks(u, d, x)' <=> Asks(u, d, x)
                                      /\ Grants(u, d, x)' <=> Grants(u, d, x)
                                      /\ Revokes(u, d)' <=> Revokes(u, d)
        /\ \A u \in Tasks \ {t} : Writing(u)' <=> Writing(u)
    BY <1>1, <1>2, <1>3, <1>4, <1>6, SameAnswer
  <1>8. ASSUME ~history'.disordered PROVE SavesOrdered'
    <2>1. SavesOrdered /\ \A u \in Tasks : ~Writing(u)
      BY <1>4, <1>8 DEF TrustInv
    <2>2. OneWriter'
      BY <1>7, <2>1 DEF OneWriter
    <2>3. \A u \in Tasks : \A reg : Shows(reg, u) => Shows(reg, u)'
      BY <1>7 DEF Shows
    <2>4. \A u \in Tasks : Shows(registry, u)
      BY <2>1 DEF SavesOrdered, AnswersSaved
    <2>5. ASSUME NEW u \in Tasks PROVE Shows(registry, u)'
      BY <1>3, <1>7, <2>4 DEF Shows
    <2>6. ASSUME NEW u \in Tasks, Writing(u)' PROVE Shows(tasks[u].copy, u)'
      <3>1. u = t
        BY <1>7, <2>1, <2>6
      <3>2. tasks'[u].copy = registry
        BY <1>2, <1>5, <3>1
      <3>3. QED
        BY <1>7, <2>4, <3>2 DEF Shows
    <2>7. ASSUME NEW u \in Tasks, tasks'[u].pc = "answer", NEW reg \in Registries'
          PROVE  Shows(reg, u)'
      <3>1. u # t /\ tasks[u].pc = "answer"
        BY <1>2, <1>5, <2>7
      <3>2. QED
        BY <1>6, <2>1, <2>3, <2>7, <3>1 DEF SavesOrdered, AnswersSaved
    <2>8. AnswersSaved'
      BY <2>5, <2>6, <2>7 DEF AnswersSaved
    <2>9. ClientsKnown' /\ GoneStays'
      BY <1>3, <1>4, <1>6, <2>1 DEF SavesOrdered, ClientsKnown, GoneStays
    <2>10. AskersKnown'
      BY <1>3, <1>7, <2>1 DEF SavesOrdered, AskersKnown
    <2>11. QED
      BY <2>2, <2>8, <2>9, <2>10 DEF SavesOrdered
  <1>9. QED
    BY <1>7, <1>8 DEF TrustInv

LEMMA WriteTrust ==
    ASSUME IInv, TrustInv, NEW t \in Tasks, WriteSnapshot(t)
    PROVE  TrustInv'
  <1> DEFINE rec == [pc |-> "answer", answer |-> tasks[t].answer]
  <1>1. Become(t, rec) /\ Carrying(t) /\ Writing(t)
    BY DEF WriteSnapshot, Carrying, Writing
  <1>2. rec.pc = "answer" /\ rec.answer = tasks[t].answer
    OBVIOUS
  <1> HIDE DEF rec
  <1>3. UNCHANGED <<registry, clients, minted>>
    BY DEF WriteSnapshot
  <1>4. /\ history'.unlucky = history.unlucky /\ history'.gone = history.gone
        /\ disk' \in {disk, tasks[t].copy}
        /\ ~history'.disordered => ~history.disordered /\ disk' = tasks[t].copy
    BY HistoryFields DEF WriteSnapshot, Written
  <1>5. tasks'[t] = rec /\ \A u \in Tasks \ {t} : tasks'[u] = tasks[u]
    BY <1>1, OthersKeep
  <1>6. Registries' \subseteq Registries
    BY <1>1, <1>2, <1>3, <1>4, <1>5 DEF Registries, Writing
  <1>7. /\ TokenInv' /\ RevokedPast'
        /\ \A u \in Tasks : \A d, x : /\ Asks(u, d, x)' <=> Asks(u, d, x)
                                      /\ Grants(u, d, x)' <=> Grants(u, d, x)
                                      /\ Revokes(u, d)' <=> Revokes(u, d)
        /\ \A u \in Tasks \ {t} : Writing(u)' <=> Writing(u)
    BY <1>1, <1>2, <1>3, <1>4, <1>6, SameAnswer
  <1>8. ASSUME ~history'.disordered PROVE SavesOrdered'
    <2>1. SavesOrdered /\ disk' = tasks[t].copy
      BY <1>4, <1>8 DEF TrustInv
    <2>2. \A u \in Tasks : ~Writing(u)'
      <3>1. ~Writing(t)'
        BY <1>2, <1>5 DEF Writing
      <3>2. QED
        BY <1>1, <1>7, <2>1, <3>1 DEF SavesOrdered, OneWriter
    <2>3. Registries' = {registry, tasks[t].copy}
      BY <1>3, <2>1, <2>2 DEF Registries
    <2>4. \A u \in Tasks : \A reg : Shows(reg, u) => Shows(reg, u)'
      BY <1>7 DEF Shows
    <2>5. ASSUME NEW u \in Tasks PROVE Shows(registry, u)'
      <3>1. Shows(registry, u)
        BY <2>1 DEF SavesOrdered, AnswersSaved
      <3>2. QED
        BY <1>3, <1>7, <3>1 DEF Shows
    <2>6. ASSUME NEW u \in Tasks, tasks'[u].pc = "answer", NEW reg \in Registries'
          PROVE  Shows(reg, u)'
      <3>1. CASE u = t
        <4>1. Shows(registry, t) /\ Shows(tasks[t].copy, t)
          BY <1>1, <2>1 DEF SavesOrdered, AnswersSaved
        <4>2. QED
          BY <2>3, <2>4, <2>6, <3>1, <4>1
      <3>2. CASE u # t
        <4>1. tasks[u].pc = "answer" /\ reg \in Registries
          BY <1>5, <1>6, <2>6, <3>2
        <4>2. QED
          BY <2>1, <2>4, <4>1 DEF SavesOrdered, AnswersSaved
      <3>3. QED
        BY <3>1, <3>2
    <2>7. AnswersSaved'
      BY <2>2, <2>5, <2>6 DEF AnswersSaved
    <2>8. OneWriter' /\ ClientsKnown' /\ GoneStays'
      BY <1>3, <1>4, <1>6, <2>1, <2>2 DEF SavesOrdered, OneWriter, ClientsKnown, GoneStays
    <2>9. AskersKnown'
      BY <1>3, <1>7, <2>1 DEF SavesOrdered, AskersKnown
    <2>10. QED
      BY <2>7, <2>8, <2>9 DEF SavesOrdered
  <1>9. QED
    BY <1>7, <1>8 DEF TrustInv

\* The answer of t is lost: if it has tokens, their client is unlucky.
LEMMA LoseTrust ==
    ASSUME IInv, TrustInv, NEW t \in Tasks, LoseAnswer(t)
    PROVE  TrustInv'
  <1>1. Become(t, Idle) /\ UNCHANGED <<registry, disk, clients, minted>>
    BY DEF LoseAnswer
  <1>2. /\ tasks'[t] = Idle
        /\ \A u \in Tasks \ {t} : tasks'[u] = tasks[u]
        /\ \A u \in Tasks \ {t} : \A d, x :
              /\ Asks(u, d, x)' <=> Asks(u, d, x)
              /\ Grants(u, d, x)' <=> Grants(u, d, x)
              /\ Revokes(u, d)' <=> Revokes(u, d)
        /\ \A u \in Tasks \ {t} : Writing(u)' <=> Writing(u)
    BY <1>1, OthersKeep
  <1>3. /\ ~Writing(t)'
        /\ \A d, x : ~Asks(t, d, x)' /\ ~Grants(t, d, x)' /\ ~Revokes(t, d)'
    BY <1>2, IdleSilent, SilentNext
  <1>4. \A u \in Tasks : Writing(u)' => Writing(u) /\ tasks'[u].copy = tasks[u].copy
    BY <1>2, <1>3
  <1>5. \A u \in Tasks : \A d, x :
           /\ Asks(u, d, x)' => Asks(u, d, x)
           /\ Grants(u, d, x)' => Grants(u, d, x) /\ tasks'[u].pc = tasks[u].pc
           /\ Revokes(u, d)' => Revokes(u, d) /\ tasks'[u].pc = tasks[u].pc
    BY <1>2, <1>3
  <1>6. /\ history.unlucky \subseteq history'.unlucky /\ history'.gone = history.gone
        /\ history'.disordered = history.disordered
        /\ \A d, x : Grants(t, d, x) => d \in history'.unlucky
    BY HistoryFields DEF LoseAnswer, Grants
  <1>7. \A u \in Tasks : \A d, x : Grants(u, d, x) =>
           Grants(u, d, x)' \/ d \in history'.unlucky \/ d \notin DOMAIN clients
    BY <1>2, <1>6
  <1>8. \A reg \in Registries' : \E old \in Registries : Below(reg, old)
    <2>1. \A reg \in Registries' : reg = registry' \/ reg \in Registries
      BY <1>1, <1>4, RegistriesKept
    <2>2. registry \in Registries /\ \A reg : Below(reg, reg)
      BY DEF Registries, Below
    <2>3. QED
      BY <1>1, <2>1, <2>2
  <1>9. TokenInv'
    <2>1. minted' \in Nat /\ minted <= minted'
      BY <1>1, Parts DEF RegistryPart
    <2>2. QED
      BY <1>1, <1>5, <1>6, <1>7, <1>8, <2>1, NothingIssued DEF TrustInv
  <1>10. RevokedPast'
    BY <1>1, <1>5, <1>6 DEF TrustInv, RevokedPast
  <1>11. ~history'.disordered => SavesOrdered'
    BY <1>1, <1>4, <1>5, <1>6, SameBelow, NothingSaved DEF TrustInv
  <1>12. QED
    BY <1>9, <1>10, <1>11 DEF TrustInv

\* The handlers that serve a client, in terms of what they carry.
LEMMA ServedBy ==
    ASSUME NEW d
    PROVE  \A t : t \in ServedFor(d) <=>
              t \in Tasks /\ \E x : Asks(t, d, x) \/ Grants(t, d, x)
  BY DEF ServedFor, Asks, Grants, Carrying

LEMMA RestartTrust ==
    ASSUME IInv, TrustInv, Restart
    PROVE  TrustInv'
  <1>1. \A u \in Tasks : tasks'[u] = Idle
    BY DEF Restart
  <1>2. \A u \in Tasks :
           /\ ~Writing(u)'
           /\ \A d, x : ~Asks(u, d, x)' /\ ~Grants(u, d, x)' /\ ~Revokes(u, d)'
    BY <1>1, IdleSilent, SilentNext
  <1>3. /\ registry' = disk \/ registry' = EmptyRegistry
        /\ UNCHANGED <<disk, clients, minted>>
    BY DEF Restart
  <1>4. /\ disk \in Registries /\ Registries' \subseteq {disk, EmptyRegistry}
        /\ DOMAIN EmptyRegistry.devices = {}
    BY <1>2, <1>3 DEF Registries, EmptyRegistry
  <1>5. /\ history.unlucky \subseteq history'.unlucky /\ history'.gone = history.gone
        /\ history'.disordered = history.disordered
        /\ \A d \in DOMAIN clients : ServedFor(d) # {} => d \in history'.unlucky
    BY HistoryFields DEF Restart
  <1>6. TokenInv'
    <2>1. minted' \in Nat /\ minted <= minted'
      BY <1>3, Parts DEF RegistryPart
    <2>2. \A reg \in Registries' : \E old \in Registries : Below(reg, old)
      BY <1>4 DEF Below
    <2>3. ASSUME NEW u \in Tasks, NEW d, NEW x, Grants(u, d, x)
          PROVE  d \in history'.unlucky \/ d \notin DOMAIN clients
      <3>1. u \in ServedFor(d)
        BY <2>3, ServedBy
      <3>2. QED
        BY <1>5, <3>1
    <2>4. QED
      BY <1>2, <1>3, <1>5, <2>1, <2>2, <2>3, NothingIssued DEF TrustInv
  <1>7. RevokedPast'
    BY <1>2, <1>3, <1>5 DEF TrustInv, RevokedPast
  <1>8. ASSUME ~history'.disordered PROVE SavesOrdered'
    <2>1. SavesOrdered
      BY <1>5, <1>8 DEF TrustInv
    <2>2. AnswersSaved'
      BY <1>1, <1>2 DEF AnswersSaved, Shows, Idle
    <2>3. OneWriter' /\ AskersKnown'
      BY <1>2 DEF OneWriter, AskersKnown
    <2>4. ClientsKnown' /\ GoneStays'
      BY <1>3, <1>4, <1>5, <2>1 DEF SavesOrdered, ClientsKnown, GoneStays
    <2>5. QED
      BY <2>2, <2>3, <2>4 DEF SavesOrdered
  <1>9. QED
    BY <1>6, <1>7, <1>8 DEF TrustInv

-----------------------------------------------------------------------------
(* Clients ask and are answered *)

LEMMA RequestTrust ==
    ASSUME IInv, TrustInv, NEW t \in Tasks, NEW d \in DOMAIN clients, RequestRefresh(t, d)
    PROVE  TrustInv'
  <1> DEFINE rec == [pc |-> "refresh", device |-> d, token |-> clients[d].refresh]
  <1>1. Become(t, rec) /\ UNCHANGED <<registry, disk, clients, minted>> /\ tasks[t] = Idle
    BY DEF RequestRefresh
  <1>2. rec.pc = "refresh" /\ rec.device = d /\ rec.token = clients[d].refresh
    OBVIOUS
  <1> HIDE DEF rec
  <1>3. /\ tasks'[t] = rec
        /\ \A u \in Tasks \ {t} : tasks'[u] = tasks[u]
        /\ \A u \in Tasks \ {t} : \A e, x :
              /\ Asks(u, e, x)' <=> Asks(u, e, x)
              /\ Grants(u, e, x)' <=> Grants(u, e, x)
              /\ Revokes(u, e)' <=> Revokes(u, e)
        /\ \A u \in Tasks \ {t} : Writing(u)' <=> Writing(u)
    BY <1>1, OthersKeep
  <1>4. /\ ~Writing(t)'
        /\ \A e, x : /\ Asks(t, e, x)' => e = d /\ x = clients[d].refresh
                     /\ ~Grants(t, e, x)' /\ ~Revokes(t, e)'
    BY <1>2, <1>3 DEF Asks, Grants, Revokes, Carrying, Writing
  <1>5. \A e, x : ~Asks(t, e, x) /\ ~Grants(t, e, x) /\ ~Revokes(t, e)
    BY <1>1, IdleSilent, Silent
  <1>6. /\ history.unlucky \subseteq history'.unlucky /\ history'.gone = history.gone
        /\ history'.disordered = history.disordered
        /\ d \notin history'.unlucky => ServedFor(d) = {}
    BY HistoryFields DEF RequestRefresh
  <1>7. Registries' = Registries
    <2>1. {u \in Tasks : Writing(u)}' = {u \in Tasks : Writing(u)}
      BY <1>3, <1>4, <1>1, IdleSilent, Silent
    <2>2. \A u \in Tasks : Writing(u) => tasks'[u] = tasks[u]
      BY <1>1, <1>3, IdleSilent, Silent
    <2>3. QED
      BY <1>1, <2>1, <2>2 DEF Registries
  <1>8. \A u \in Tasks : \A e, x : /\ Grants(u, e, x)' <=> Grants(u, e, x)
                                   /\ Revokes(u, e)' <=> Revokes(u, e)
    BY <1>3, <1>4, <1>5
  <1>9. ASSUME NEW x, NEW e, Issued(x, e)' PROVE Issued(x, e)
    <2>1. CASE \E reg \in Registries' : Has(reg, e, x)
      BY <1>7, <2>1 DEF Issued
    <2>2. CASE e \in DOMAIN clients' /\ clients'[e].refresh = x
      BY <1>1, <2>2 DEF Issued
    <2>3. CASE \E u \in Tasks : Asks(u, e, x)' \/ Grants(u, e, x)'
      BY <1>3, <1>4, <2>3 DEF Issued
    <2>4. QED
      BY <1>9, <2>1, <2>2, <2>3 DEF Issued, Has
  <1>10. TokensOwned'
    BY <1>1, <1>7, <1>9 DEF TrustInv, TokenInv, TokensOwned
  <1>11. AnswersUnique'
    <2>1. ASSUME NEW u \in Tasks, NEW e, NEW x, Grants(u, e, x)'
          PROVE  /\ \A f \in DOMAIN clients' : clients'[f].refresh # x
                 /\ \A w \in Tasks : \A f : ~Asks(w, f, x)'
                 /\ \A w \in Tasks : \A f : Grants(w, f, x)' => w = u
      BY <1>1, <1>3, <1>4, <1>8, <2>1 DEF TrustInv, TokenInv, AnswersUnique
    <2>2. QED
      BY <2>1 DEF AnswersUnique
  <1>12. ASSUME NEW e \in Nat \ history'.unlucky PROVE HonestServed(e)'
    <2>1. HonestServed(e)
      BY <1>6 DEF TrustInv, TokenInv, HonestAll
    <2>2. \A x : Newest(e, x)' <=> Newest(e, x)
      BY <1>7 DEF Newest, Has
    <2>3. ASSUME NEW w \in Tasks, NEW u \in Tasks, NEW x, NEW y,
                 Asks(w, e, x)' \/ Grants(w, e, x)', Asks(u, e, y)' \/ Grants(u, e, y)'
          PROVE  w = u
      <3>1. CASE e = d
        <4>1. \A v \in Tasks : \A z : ~Asks(v, d, z) /\ ~Grants(v, d, z)
          BY <1>6, <3>1, ServedBy
        <4>2. QED
          BY <1>3, <2>3, <3>1, <4>1
      <3>2. CASE e # d
        BY <1>3, <1>4, <2>1, <2>3, <3>2 DEF HonestServed
      <3>3. QED
        BY <3>1, <3>2
    <2>4. ASSUME NEW u \in Tasks, NEW x, Grants(u, e, x)' PROVE Newest(e, x)'
      BY <1>8, <2>1, <2>2, <2>4 DEF HonestServed
    <2>5. ASSUME e \in DOMAIN clients', \A u \in Tasks : \A x : ~Grants(u, e, x)'
          PROVE  Newest(e, clients[e].refresh)'
      <3>1. Newest(e, clients[e].refresh)
        BY <1>1, <1>8, <2>1, <2>5 DEF HonestServed
      <3>2. QED
        BY <1>1, <1>7, <3>1 DEF Newest, Has
    <2>6. QED
      BY <2>3, <2>4, <2>5 DEF HonestServed
  <1>13. RevokedPast'
    BY <1>1, <1>6, <1>8 DEF TrustInv, RevokedPast
  <1>14. ASSUME ~history'.disordered PROVE SavesOrdered'
    <2>1. SavesOrdered
      BY <1>6, <1>14 DEF TrustInv
    <2>2. \A u \in Tasks : \A reg : Shows(reg, u)' <=> Shows(reg, u)
      BY <1>8 DEF Shows
    <2>3. AnswersSaved'
      <3>1. ASSUME NEW u \in Tasks
            PROVE  /\ Shows(registry, u)'
                   /\ Writing(u)' => Shows(tasks[u].copy, u)'
                   /\ tasks'[u].pc = "answer" => \A reg \in Registries' : Shows(reg, u)'
        <4>1. Shows(registry, u)'
          BY <1>1, <1>8, <2>1 DEF SavesOrdered, AnswersSaved, Shows
        <4>2. ASSUME Writing(u)' PROVE Shows(tasks[u].copy, u)'
          <5>1. Writing(u) /\ tasks'[u] = tasks[u]
            BY <1>3, <1>4, <4>2
          <5>2. Shows(tasks[u].copy, u)
            BY <2>1, <5>1 DEF SavesOrdered, AnswersSaved
          <5>3. QED
            BY <1>8, <5>1, <5>2 DEF Shows
        <4>3. ASSUME tasks'[u].pc = "answer", NEW reg \in Registries' PROVE Shows(reg, u)'
          BY <1>2, <1>3, <1>7, <2>1, <2>2, <4>3 DEF SavesOrdered, AnswersSaved
        <4>4. QED
          BY <4>1, <4>2, <4>3
      <3>2. QED
        BY <3>1 DEF AnswersSaved
    <2>4. OneWriter'
      BY <1>3, <1>4, <2>1 DEF SavesOrdered, OneWriter
    <2>5. ClientsKnown' /\ GoneStays'
      BY <1>1, <1>6, <1>7, <2>1 DEF SavesOrdered, ClientsKnown, GoneStays
    <2>6. AskersKnown'
      <3>1. clients[d].refresh \in Nat
        BY Parts DEF RestPart
      <3>2. QED
        BY <1>1, <1>3, <1>4, <2>1, <3>1 DEF SavesOrdered, AskersKnown
    <2>7. QED
      BY <2>3, <2>4, <2>5, <2>6 DEF SavesOrdered
  <1>15. QED
    BY <1>10, <1>11, <1>12, <1>13, <1>14 DEF TrustInv, TokenInv, HonestAll

\* The client of d stores the tokens x it is answered.
LEMMA AnswerTokensTrust ==
    ASSUME IInv, TrustInv, NEW t \in Tasks, Answer(t), tasks[t].answer.kind = "tokens"
    PROVE  TrustInv'
  <1> DEFINE d == tasks[t].answer.device
             x == tasks[t].answer.refresh
             pair == [refresh |-> x, access |-> tasks[t].answer.access]
  <1>1. Become(t, Idle) /\ UNCHANGED <<registry, disk, history, minted>>
    BY DEF Answer
  <1>2. clients' = Insert(clients, d, pair) /\ pair.refresh = x
    BY DEF Answer
  <1>3. /\ DOMAIN clients' = DOMAIN clients \cup {d} /\ clients'[d].refresh = x
        /\ \A e \in DOMAIN clients : e # d => clients'[e] = clients[e]
    BY <1>2 DEF Insert
  <1>4. Grants(t, d, x) /\ tasks[t].pc = "answer"
    BY DEF Answer, Grants, Carrying
  <1>5. \A e, y : /\ ~Asks(t, e, y) /\ ~Revokes(t, e)
                  /\ Grants(t, e, y) => e = d /\ y = x
    BY <1>4 DEF Asks, Grants, Revokes
  <1> HIDE DEF d, x, pair
  <1>6. /\ tasks'[t] = Idle
        /\ \A u \in Tasks \ {t} : tasks'[u] = tasks[u]
        /\ \A u \in Tasks \ {t} : \A e, y :
              /\ Asks(u, e, y)' <=> Asks(u, e, y)
              /\ Grants(u, e, y)' <=> Grants(u, e, y)
              /\ Revokes(u, e)' <=> Revokes(u, e)
        /\ \A u \in Tasks \ {t} : Writing(u)' <=> Writing(u)
    BY <1>1, OthersKeep
  <1>7. /\ ~Writing(t)'
        /\ \A e, y : ~Asks(t, e, y)' /\ ~Grants(t, e, y)' /\ ~Revokes(t, e)'
    BY <1>6, IdleSilent, SilentNext
  <1>8. Registries' = Registries
    <2>1. ~Writing(t)
      BY <1>4 DEF Writing
    <2>2. {u \in Tasks : Writing(u)}' = {u \in Tasks : Writing(u)}
      BY <1>6, <1>7, <2>1
    <2>3. \A u \in Tasks : Writing(u) => tasks'[u] = tasks[u]
      BY <1>6, <2>1
    <2>4. QED
      BY <1>1, <2>2, <2>3 DEF Registries
  <1>9. ASSUME NEW y, NEW e, Issued(y, e)' PROVE Issued(y, e)
    <2>1. CASE \E reg \in Registries' : Has(reg, e, y)
      BY <1>8, <2>1 DEF Issued
    <2>2. CASE e \in DOMAIN clients' /\ clients'[e].refresh = y
      BY <1>3, <1>4, <2>2 DEF Issued
    <2>3. CASE \E u \in Tasks : Asks(u, e, y)' \/ Grants(u, e, y)'
      BY <1>6, <1>7, <2>3 DEF Issued
    <2>4. QED
      BY <1>9, <2>1, <2>2, <2>3 DEF Issued, Has
  <1>10. TokensOwned'
    BY <1>1, <1>8, <1>9 DEF TrustInv, TokenInv, TokensOwned
  <1>11. AnswersUnique'
    <2>1. ASSUME NEW u \in Tasks, NEW e, NEW y, Grants(u, e, y)'
          PROVE  /\ \A f \in DOMAIN clients' : clients'[f].refresh # y
                 /\ \A w \in Tasks : \A f : ~Asks(w, f, y)'
                 /\ \A w \in Tasks : \A f : Grants(w, f, y)' => w = u
      <3>1. u # t /\ Grants(u, e, y)
        BY <1>6, <1>7, <2>1
      <3>2. y # x
        BY <1>4, <3>1 DEF TrustInv, TokenInv, AnswersUnique
      <3>3. QED
        BY <1>3, <1>6, <1>7, <3>1, <3>2 DEF TrustInv, TokenInv, AnswersUnique
    <2>2. QED
      BY <2>1 DEF AnswersUnique
  <1>12. ASSUME NEW e \in Nat \ history'.unlucky PROVE HonestServed(e)'
    <2>1. HonestServed(e)
      BY <1>1 DEF TrustInv, TokenInv, HonestAll
    <2>2. \A y : Newest(e, y)' <=> Newest(e, y)
      BY <1>8 DEF Newest, Has
    <2>3. ASSUME NEW w \in Tasks, NEW u \in Tasks, NEW y, NEW z,
                 Asks(w, e, y)' \/ Grants(w, e, y)', Asks(u, e, z)' \/ Grants(u, e, z)'
          PROVE  w = u
      BY <1>6, <1>7, <2>1, <2>3 DEF HonestServed
    <2>4. ASSUME NEW u \in Tasks, NEW y, Grants(u, e, y)' PROVE Newest(e, y)'
      BY <1>6, <1>7, <2>1, <2>2, <2>4 DEF HonestServed
    <2>5. ASSUME e \in DOMAIN clients', \A u \in Tasks : \A y : ~Grants(u, e, y)'
          PROVE  Newest(e, clients[e].refresh)'
      <3>1. Newest(e, clients'[e].refresh)
        <4>1. CASE e = d
          BY <1>3, <1>4, <2>1, <4>1 DEF HonestServed
        <4>2. CASE e # d
          <5>1. e \in DOMAIN clients /\ clients'[e] = clients[e]
            BY <1>3, <2>5, <4>2
          <5>2. \A u \in Tasks : \A y : ~Grants(u, e, y)
            BY <1>5, <1>6, <2>5, <4>2
          <5>3. QED
            BY <2>1, <5>1, <5>2 DEF HonestServed
        <4>3. QED
          BY <4>1, <4>2
      <3>2. QED
        BY <1>8, <3>1 DEF Newest, Has
    <2>6. QED
      BY <2>3, <2>4, <2>5 DEF HonestServed
  <1>13. RevokedPast'
    BY <1>1, <1>6, <1>7 DEF TrustInv, RevokedPast
  <1>14. ASSUME ~history'.disordered PROVE SavesOrdered'
    <2>1. SavesOrdered
      BY <1>1, <1>14 DEF TrustInv
    <2>2. \A reg \in Registries : d \in DOMAIN reg.devices => reg.devices[d].token = x
      BY <1>4, <2>1 DEF SavesOrdered, AnswersSaved, Shows
    <2>3. AnswersSaved'
      <3>1. ASSUME NEW u \in Tasks
            PROVE  /\ Shows(registry, u)'
                   /\ Writing(u)' => Shows(tasks[u].copy, u)'
                   /\ tasks'[u].pc = "answer" => \A reg \in Registries' : Shows(reg, u)'
        <4>1. CASE u = t
          BY <1>6, <1>7, <4>1 DEF Shows, Idle
        <4>2. CASE u # t
          <5>1. \A reg : Shows(reg, u)' <=> Shows(reg, u)
            BY <1>6, <4>2 DEF Shows
          <5>2. Shows(registry, u)'
            BY <1>1, <1>6, <2>1, <4>2 DEF SavesOrdered, AnswersSaved, Shows
          <5>3. ASSUME Writing(u)' PROVE Shows(tasks[u].copy, u)'
            <6>1. Writing(u) /\ tasks'[u] = tasks[u]
              BY <1>6, <4>2, <5>3
            <6>2. Shows(tasks[u].copy, u)
              BY <2>1, <6>1 DEF SavesOrdered, AnswersSaved
            <6>3. QED
              BY <1>6, <4>2, <6>1, <6>2 DEF Shows
          <5>4. ASSUME tasks'[u].pc = "answer", NEW reg \in Registries' PROVE Shows(reg, u)'
            BY <1>6, <1>8, <2>1, <4>2, <5>1, <5>4 DEF SavesOrdered, AnswersSaved
          <5>5. QED
            BY <5>2, <5>3, <5>4
        <4>3. QED
          BY <4>1, <4>2
      <3>2. QED
        BY <3>1 DEF AnswersSaved
    <2>4. OneWriter'
      BY <1>6, <1>7, <2>1 DEF SavesOrdered, OneWriter
    <2>5. GoneStays'
      BY <1>1, <1>8, <2>1 DEF SavesOrdered, GoneStays
    <2>6. ClientsKnown'
      <3>1. ASSUME NEW reg \in Registries', NEW e \in DOMAIN clients' \cap DOMAIN reg.devices
            PROVE  clients'[e].refresh \in {reg.devices[e].token, reg.devices[e].previous}
        BY <1>3, <1>8, <2>1, <2>2, <3>1 DEF SavesOrdered, ClientsKnown
      <3>2. QED
        BY <3>1 DEF ClientsKnown
    <2>7. AskersKnown'
      <3>1. ASSUME NEW u \in Tasks, NEW e, NEW y, Asks(u, e, y)'
            PROVE  /\ e \in DOMAIN clients'
                   /\ e \in DOMAIN registry'.devices => y <= clients'[e].refresh
        <4>1. /\ e \in DOMAIN clients /\ Asks(u, e, y)
              /\ e \in DOMAIN registry.devices => y <= clients[e].refresh
          BY <1>6, <1>7, <2>1, <3>1 DEF SavesOrdered, AskersKnown
        <4>2. CASE e # d
          BY <1>1, <1>3, <4>1, <4>2
        <4>3. CASE e = d /\ d \in DOMAIN registry.devices
          <5>1. registry \in Registries
            BY DEF Registries
          <5>2. /\ clients[d].refresh \in {registry.devices[d].token, registry.devices[d].previous}
                /\ registry.devices[d].previous < registry.devices[d].token
                /\ registry.devices[d].token = x
            BY <2>1, <2>2, <4>1, <4>3, <5>1
            DEF SavesOrdered, ClientsKnown, TrustInv, TokenInv, TokensOwned
          <5>3. registry.devices[d].previous \in Nat /\ registry.devices[d].token \in Nat
            BY <4>3, Parts DEF RegistryPart, Sound, DevicesOK, DeviceRecords
          <5>4. y \in Nat
            <6>1. Issued(y, e)
              BY <4>1 DEF Issued
            <6>2. y \in 1 .. minted /\ minted \in Nat
              BY <6>1, Parts DEF TrustInv, TokenInv, TokensOwned, RegistryPart
            <6>3. QED
              BY <6>2
          <5>5. QED
            BY <1>3, <4>1, <4>3, <5>2, <5>3, <5>4
        <4>4. QED
          BY <1>1, <1>3, <4>1, <4>2, <4>3
      <3>2. QED
        BY <3>1 DEF AskersKnown
    <2>8. QED
      BY <2>3, <2>4, <2>5, <2>6, <2>7 DEF SavesOrdered
  <1>15. QED
    BY <1>10, <1>11, <1>12, <1>13, <1>14 DEF TrustInv, TokenInv, HonestAll

\* An answer without tokens; if it says that a device is revoked, every copy
\* shows that.
LEMMA AnswerOtherTrust ==
    ASSUME IInv, TrustInv, NEW t \in Tasks, Answer(t), tasks[t].answer.kind # "tokens"
    PROVE  TrustInv'
  <1>1. Become(t, Idle) /\ UNCHANGED <<registry, disk, clients, minted>>
    BY DEF Answer
  <1>2. /\ tasks'[t] = Idle
        /\ \A u \in Tasks \ {t} : tasks'[u] = tasks[u]
        /\ \A u \in Tasks \ {t} : \A d, x :
              /\ Asks(u, d, x)' <=> Asks(u, d, x)
              /\ Grants(u, d, x)' <=> Grants(u, d, x)
              /\ Revokes(u, d)' <=> Revokes(u, d)
        /\ \A u \in Tasks \ {t} : Writing(u)' <=> Writing(u)
    BY <1>1, OthersKeep
  <1>3. /\ ~Writing(t)'
        /\ \A d, x : ~Asks(t, d, x)' /\ ~Grants(t, d, x)' /\ ~Revokes(t, d)'
    BY <1>2, IdleSilent, SilentNext
  <1>4. \A u \in Tasks : Writing(u)' => Writing(u) /\ tasks'[u].copy = tasks[u].copy
    BY <1>2, <1>3
  <1>5. \A u \in Tasks : \A d, x :
           /\ Asks(u, d, x)' => Asks(u, d, x)
           /\ Grants(u, d, x)' => Grants(u, d, x) /\ tasks'[u].pc = tasks[u].pc
           /\ Revokes(u, d)' => Revokes(u, d) /\ tasks'[u].pc = tasks[u].pc
    BY <1>2, <1>3
  <1>6. \A u \in Tasks : \A d, x : Grants(u, d, x) => Grants(u, d, x)'
    <2>1. \A d, x : ~Grants(t, d, x)
      BY DEF Grants
    <2>2. QED
      BY <1>2, <2>1
  <1>7. /\ history'.unlucky = history.unlucky
        /\ history'.disordered = history.disordered
        /\ \A d \in history'.gone : d \in history.gone \/ Revokes(t, d)
    BY HistoryFields DEF Answer, Revokes, Carrying
  <1>8. \A reg \in Registries' : reg \in Registries
    <2>1. \A reg \in Registries' : reg = registry' \/ reg \in Registries
      BY <1>1, <1>4, RegistriesKept
    <2>2. QED
      BY <1>1, <2>1 DEF Registries
  <1>9. TokenInv'
    <2>1. minted' \in Nat /\ minted <= minted'
      BY <1>1, Parts DEF RegistryPart
    <2>2. \A reg \in Registries' : \E old \in Registries : Below(reg, old)
      BY <1>8 DEF Below
    <2>3. QED
      BY <1>1, <1>5, <1>6, <1>7, <2>1, <2>2, NothingIssued DEF TrustInv
  <1>10. RevokedPast'
    BY <1>1, <1>5, <1>7 DEF TrustInv, RevokedPast
  <1>11. ASSUME ~history'.disordered PROVE SavesOrdered'
    <2>1. SavesOrdered
      BY <1>7, <1>11 DEF TrustInv
    <2>2. OneWriter' /\ ClientsKnown' /\ AskersKnown'
      BY <1>1, <1>4, <1>5, <1>8, <2>1 DEF SavesOrdered, OneWriter, ClientsKnown, AskersKnown
    <2>3. ASSUME NEW u \in Tasks
          PROVE  /\ Shows(registry, u)'
                 /\ Writing(u)' => Shows(tasks[u].copy, u)'
                 /\ tasks'[u].pc = "answer" => \A reg \in Registries' : Shows(reg, u)'
      <3>1. Shows(registry, u)'
        BY <1>1, <1>5, <2>1 DEF SavesOrdered, AnswersSaved, Shows
      <3>2. ASSUME Writing(u)' PROVE Shows(tasks[u].copy, u)'
        BY <1>4, <1>5, <2>1, <3>2 DEF SavesOrdered, AnswersSaved, Shows
      <3>3. ASSUME tasks'[u].pc = "answer", NEW reg \in Registries' PROVE Shows(reg, u)'
        <4>1. tasks[u].pc = "answer" => Shows(reg, u)
          BY <1>8, <2>1, <3>3 DEF SavesOrdered, AnswersSaved
        <4>2. QED
          BY <1>5, <3>3, <4>1 DEF Shows
      <3>4. QED
        BY <3>1, <3>2, <3>3
    <2>4. GoneStays'
      <3>1. \A reg \in Registries : Shows(reg, t)
        BY <2>1 DEF SavesOrdered, AnswersSaved, Answer
      <3>2. QED
        BY <1>7, <1>8, <2>1, <3>1 DEF SavesOrdered, GoneStays, Shows
    <2>5. QED
      BY <2>2, <2>3, <2>4 DEF SavesOrdered, AnswersSaved
  <1>12. QED
    BY <1>9, <1>10, <1>11 DEF TrustInv

-----------------------------------------------------------------------------
(* Granting tokens *)

\* The registry gets the fresh token x for d and keeps everything else.
Granted(d, x) ==
    /\ DOMAIN registry'.devices = DOMAIN registry.devices \cup {d}
    /\ \A e \in DOMAIN registry.devices \ {d} : registry'.devices[e] = registry.devices[e]
    /\ registry'.devices[d].token = x
    /\ registry'.devices[d].previous < x

\* d is new, or t asked with the token d has, which is remembered.
GrantedFor(t, d, x) ==
    \/ d = x /\ tasks[t] = Idle
    \/ /\ d \in DOMAIN registry.devices
       /\ Asks(t, d, registry.devices[d].token)
       /\ registry'.devices[d].previous = registry.devices[d].token

LEMMA GrantTrust ==
    ASSUME IInv, TrustInv, NEW t \in Tasks, NEW d, NEW x, NEW rec, Become(t, rec),
           rec.pc = "capture", rec.answer.kind = "tokens",
           rec.answer.device = d, rec.answer.refresh = x,
           x = minted + 1, minted' = minted + 2, Granted(d, x), GrantedFor(t, d, x),
           UNCHANGED <<disk, clients, history>>
    PROVE  TrustInv'
  <1>1. /\ tasks'[t] = rec
        /\ \A u \in Tasks \ {t} : tasks'[u] = tasks[u]
        /\ \A u \in Tasks \ {t} : \A e, y :
              /\ Asks(u, e, y)' <=> Asks(u, e, y)
              /\ Grants(u, e, y)' <=> Grants(u, e, y)
              /\ Revokes(u, e)' <=> Revokes(u, e)
        /\ \A u \in Tasks \ {t} : Writing(u)' <=> Writing(u)
    BY OthersKeep
  <1>2. /\ ~Writing(t)' /\ Grants(t, d, x)'
        /\ \A e, y : /\ ~Asks(t, e, y)' /\ ~Revokes(t, e)'
                     /\ Grants(t, e, y)' => e = d /\ y = x
    BY <1>1 DEF Asks, Grants, Revokes, Carrying, Writing
  <1>3. ~Writing(t) /\ \A e, y : ~Grants(t, e, y) /\ ~Revokes(t, e)
    BY IdleSilent DEF GrantedFor, Asks, Grants, Revokes, Carrying, Writing
  <1>4. minted \in Nat /\ x \in Nat /\ x > minted /\ registry \in Registries
    BY Parts DEF RegistryPart, Registries
  <1>5. \A y, e : Issued(y, e) => y \in 1 .. minted /\ e \in 1 .. minted
    BY DEF TrustInv, TokenInv, TokensOwned
  <1>6. /\ d \in 1 .. x
        /\ d = x => /\ \A y : ~Issued(y, d)
                    /\ d \notin DOMAIN clients /\ d \notin history.gone
                    /\ \A u \in Tasks : ~Revokes(u, d)
        /\ d # x => /\ d \in DOMAIN registry.devices
                    /\ Asks(t, d, registry.devices[d].token)
                    /\ registry'.devices[d].previous = registry.devices[d].token
    <2>1. \A y : Issued(y, d) => d # x
      BY <1>4, <1>5
    <2>2. d \in DOMAIN clients => Issued(clients[d].refresh, d)
      BY DEF Issued
    <2>3. d = x => d \notin history.gone /\ \A u \in Tasks : ~Revokes(u, d)
      BY <1>4 DEF TrustInv, RevokedPast
    <2>4. d # x => d \in 1 .. minted
      <3>1. ASSUME d # x PROVE Issued(registry.devices[d].token, d)
        BY <3>1 DEF GrantedFor, Issued
      <3>2. QED
        BY <1>5, <3>1
    <2>5. QED
      BY <1>4, <2>1, <2>2, <2>3, <2>4 DEF GrantedFor
  <1>7. \A reg \in Registries' : reg = registry' \/ reg \in Registries
    BY <1>1, <1>2, RegistriesKept
  <1>8. \A e, y : Has(registry', e, y) => Has(registry, e, y) \/ (e = d /\ y = x)
    BY DEF Has, Granted
  <1>9. ASSUME NEW y, NEW e, Issued(y, e)' PROVE Issued(y, e) \/ (y = x /\ e = d)
    <2>1. CASE \E reg \in Registries' : Has(reg, e, y)
      BY <1>4, <1>7, <1>8, <2>1 DEF Issued
    <2>2. CASE e \in DOMAIN clients' /\ clients'[e].refresh = y
      BY <2>2 DEF Issued
    <2>3. CASE \E u \in Tasks : Asks(u, e, y)' \/ Grants(u, e, y)'
      BY <1>1, <1>2, <2>3 DEF Issued
    <2>4. QED
      BY <1>9, <2>1, <2>2, <2>3 DEF Issued, Has
  <1>10. \A e : ~Issued(x, e)
    BY <1>4, <1>5
  <1>11. TokensOwned'
    <2>1. ASSUME NEW y, NEW e, Issued(y, e)' PROVE y \in 1 .. minted' /\ e \in 1 .. minted'
      BY <1>4, <1>5, <1>6, <1>9, <2>1
    <2>2. ASSUME NEW y, NEW e, NEW f, Issued(y, e)', Issued(y, f)' PROVE e = f
      BY <1>9, <1>10, <2>2 DEF TrustInv, TokenInv, TokensOwned
    <2>3. ASSUME NEW reg \in Registries', NEW e \in DOMAIN reg.devices
          PROVE  reg.devices[e].previous < reg.devices[e].token
      <3>1. CASE reg = registry'
        BY <1>4, <2>3, <3>1 DEF Granted, TrustInv, TokenInv, TokensOwned
      <3>2. CASE reg \in Registries
        BY <2>3, <3>2 DEF TrustInv, TokenInv, TokensOwned
      <3>3. QED
        BY <1>7, <3>1, <3>2
    <2>4. QED
      BY <2>1, <2>2, <2>3 DEF TokensOwned
  <1>12. AnswersUnique'
    <2>1. ASSUME NEW u \in Tasks, NEW e, NEW y, Grants(u, e, y)'
          PROVE  /\ \A f \in DOMAIN clients' : clients'[f].refresh # y
                 /\ \A w \in Tasks : \A f : ~Asks(w, f, y)'
                 /\ \A w \in Tasks : \A f : Grants(w, f, y)' => w = u
      <3>1. CASE u = t
        <4>1. y = x
          BY <1>2, <2>1, <3>1
        <4>2. /\ \A f \in DOMAIN clients : clients[f].refresh # x
              /\ \A w \in Tasks : \A f : ~Asks(w, f, x) /\ ~Grants(w, f, x)
          BY <1>10 DEF Issued
        <4>3. QED
          BY <1>1, <1>2, <3>1, <4>1, <4>2
      <3>2. CASE u # t
        <4>1. Grants(u, e, y)
          BY <1>1, <2>1, <3>2
        <4>2. y # x
          BY <1>10, <4>1 DEF Issued
        <4>3. QED
          BY <1>1, <1>2, <4>1, <4>2 DEF TrustInv, TokenInv, AnswersUnique
      <3>3. QED
        BY <3>1, <3>2
    <2>2. QED
      BY <2>1 DEF AnswersUnique
  <1>13. ASSUME NEW e \in Nat \ history'.unlucky PROVE HonestServed(e)'
    <2>1. HonestServed(e)
      BY DEF TrustInv, TokenInv, HonestAll
    <2>2. e = d => \A u \in Tasks \ {t} : \A y : ~Asks(u, d, y) /\ ~Grants(u, d, y)
      <3>1. CASE d = x
        BY <1>6, <3>1 DEF Issued
      <3>2. CASE d # x
        BY <1>6, <2>1, <3>2 DEF HonestServed
      <3>3. QED
        BY <3>1, <3>2
    <2>3. ASSUME NEW w \in Tasks, NEW u \in Tasks, NEW y, NEW z,
                 Asks(w, e, y)' \/ Grants(w, e, y)', Asks(u, e, z)' \/ Grants(u, e, z)'
          PROVE  w = u
      <3>1. CASE e = d
        BY <1>1, <2>2, <2>3, <3>1
      <3>2. CASE e # d
        BY <1>1, <1>2, <2>1, <2>3, <3>2 DEF HonestServed
      <3>3. QED
        BY <3>1, <3>2
    <2>4. ASSUME e # d, NEW y, Newest(e, y) PROVE Newest(e, y)'
      BY <1>4, <1>7, <1>8, <2>4 DEF Newest, Has
    <2>5. ASSUME NEW u \in Tasks, NEW y, Grants(u, e, y)' PROVE Newest(e, y)'
      <3>1. CASE e = d
        <4>1. u = t /\ y = x
          BY <1>1, <1>2, <2>2, <2>5, <3>1
        <4>2. ASSUME NEW reg \in Registries', NEW z, Has(reg, d, z) PROVE z <= x
          <5>1. z = x \/ Issued(z, d)
            BY <1>4, <1>7, <1>8, <4>2 DEF Issued
          <5>2. QED
            BY <1>4, <1>5, <5>1
        <4>3. QED
          BY <3>1, <4>1, <4>2 DEF Newest, Has
      <3>2. CASE e # d
        <4>1. Grants(u, e, y)
          BY <1>1, <1>2, <2>5, <3>2
        <4>2. QED
          BY <2>1, <2>4, <3>2, <4>1 DEF HonestServed
      <3>3. QED
        BY <3>1, <3>2
    <2>6. ASSUME e \in DOMAIN clients', \A u \in Tasks : \A y : ~Grants(u, e, y)'
          PROVE  Newest(e, clients[e].refresh)'
      <3>1. e # d
        BY <1>2, <2>6
      <3>2. Newest(e, clients[e].refresh)
        BY <1>1, <1>3, <2>1, <2>6 DEF HonestServed
      <3>3. QED
        BY <1>4, <1>7, <1>8, <3>1, <3>2 DEF Newest, Has
    <2>7. QED
      BY <2>3, <2>5, <2>6 DEF HonestServed
  <1>14. RevokedPast'
    <2>1. 0 .. minted \subseteq 0 .. minted'
      BY <1>4
    <2>2. QED
      BY <1>1, <1>2, <2>1 DEF TrustInv, RevokedPast
  <1>15. ASSUME ~history'.disordered PROVE SavesOrdered'
    <2>1. SavesOrdered
      BY <1>15 DEF TrustInv
    <2>2. \A u \in Tasks \ {t} : \A y : ~Grants(u, d, y) /\ ~Revokes(u, d)
      <3>1. CASE d = x
        BY <1>6, <3>1 DEF Issued
      <3>2. CASE d # x
        <4>1. ASSUME NEW u \in Tasks \ {t}, NEW y, Grants(u, d, y) PROVE FALSE
          <5>1. registry.devices[d].token = y
            BY <1>6, <2>1, <3>2, <4>1 DEF SavesOrdered, AnswersSaved, Shows
          <5>2. QED
            BY <1>6, <3>2, <4>1, <5>1 DEF TrustInv, TokenInv, AnswersUnique
        <4>2. QED
          BY <1>6, <2>1, <3>2, <4>1 DEF SavesOrdered, AnswersSaved, Shows
      <3>3. QED
        BY <3>1, <3>2
    <2>3. d \in DOMAIN clients => clients[d].refresh = registry'.devices[d].previous
      <3>1. CASE d = x
        BY <1>6, <3>1
      <3>2. CASE d # x /\ d \in DOMAIN clients
        <4>1. /\ clients[d].refresh \in {registry.devices[d].token, registry.devices[d].previous}
              /\ registry.devices[d].previous < registry.devices[d].token
              /\ registry.devices[d].token <= clients[d].refresh
          BY <1>4, <1>6, <2>1, <3>2
          DEF SavesOrdered, ClientsKnown, AskersKnown, TrustInv, TokenInv, TokensOwned
        <4>2. registry.devices[d].previous \in Nat /\ registry.devices[d].token \in Nat
          BY <1>6, <3>2, Parts DEF RegistryPart, Sound, DevicesOK, DeviceRecords
        <4>3. QED
          BY <1>6, <3>2, <4>1, <4>2
      <3>3. QED
        BY <3>1, <3>2
    <2>4. ASSUME NEW u \in Tasks PROVE Shows(registry, u)'
      <3>1. CASE u = t
        BY <1>2, <3>1 DEF Shows, Granted
      <3>2. CASE u # t
        <4>1. Shows(registry, u)
          BY <2>1 DEF SavesOrdered, AnswersSaved
        <4>2. QED
          BY <1>1, <2>2, <3>2, <4>1 DEF Shows, Granted
      <3>3. QED
        BY <3>1, <3>2
    <2>5. ASSUME NEW u \in Tasks, Writing(u)' PROVE Shows(tasks[u].copy, u)'
      <3>1. u # t /\ Writing(u) /\ tasks'[u] = tasks[u]
        BY <1>1, <1>2, <2>5
      <3>2. Shows(tasks[u].copy, u)
        BY <2>1, <3>1 DEF SavesOrdered, AnswersSaved
      <3>3. QED
        BY <1>1, <3>1, <3>2 DEF Shows
    <2>6. ASSUME NEW u \in Tasks, tasks'[u].pc = "answer", NEW reg \in Registries'
          PROVE  Shows(reg, u)'
      <3>1. u # t /\ tasks[u].pc = "answer"
        BY <1>1, <2>6
      <3>2. CASE reg = registry'
        BY <2>4, <3>2 DEF Shows
      <3>3. CASE reg \in Registries
        <4>1. Shows(reg, u)
          BY <2>1, <3>1, <3>3 DEF SavesOrdered, AnswersSaved
        <4>2. QED
          BY <1>1, <3>1, <4>1 DEF Shows
      <3>4. QED
        BY <1>7, <3>2, <3>3
    <2>7. OneWriter'
      BY <1>1, <1>2, <2>1 DEF SavesOrdered, OneWriter
    <2>8. ClientsKnown'
      <3>1. ASSUME NEW reg \in Registries', NEW e \in DOMAIN clients \cap DOMAIN reg.devices
            PROVE  clients[e].refresh \in {reg.devices[e].token, reg.devices[e].previous}
        <4>1. CASE reg = registry'
          BY <1>4, <2>1, <2>3, <3>1, <4>1 DEF SavesOrdered, ClientsKnown, Granted
        <4>2. CASE reg \in Registries
          BY <2>1, <3>1, <4>2 DEF SavesOrdered, ClientsKnown
        <4>3. QED
          BY <1>7, <4>1, <4>2
      <3>2. QED
        BY <3>1 DEF ClientsKnown
    <2>9. AskersKnown'
      <3>1. d \in DOMAIN clients => d \in DOMAIN registry.devices
        BY <1>6
      <3>2. QED
        BY <1>1, <1>2, <2>1, <3>1 DEF SavesOrdered, AskersKnown, Granted
    <2>10. GoneStays'
      BY <1>4, <1>6, <1>7, <2>1 DEF SavesOrdered, GoneStays, Granted
    <2>11. QED
      BY <2>4, <2>5, <2>6, <2>7, <2>8, <2>9, <2>10 DEF SavesOrdered, AnswersSaved
  <1>16. QED
    BY <1>11, <1>12, <1>13, <1>14, <1>15 DEF TrustInv, TokenInv, HonestAll

LEMMA EnrolTrust ==
    ASSUME IInv, TrustInv, NEW t \in Tasks, NEW owner, NEW offers, NEW offer,
           tasks[t] = Idle, Enrol(t, owner, offers, offer),
           UNCHANGED <<disk, clients, history>>
    PROVE  TrustInv'
  <1> DEFINE x == minted + 1
             rec == [pc |-> "capture", answer |->
                       [kind |-> "tokens", device |-> x, refresh |-> x, access |-> minted + 2]]
             v == [owner |-> owner, token |-> x, access |-> minted + 2,
                   expires |-> now + AccessTtl, previous |-> None, offer |-> offer]
  <1>1. Become(t, rec) /\ minted' = minted + 2 /\ minted \in Nat
    BY Parts DEF Enrol, RegistryPart
  <1>2. registry'.devices = Insert(registry.devices, x, v)
    BY DEF Enrol, devices
  <1>3. rec.pc = "capture" /\ rec.answer.kind = "tokens"
        /\ rec.answer.device = x /\ rec.answer.refresh = x
    OBVIOUS
  <1>4. v.token = x /\ v.previous = 0
    BY DEF None
  <1>5. x \notin DOMAIN registry.devices
    BY <1>1, Parts DEF RegistryPart, Sound, DevicesOK
  <1> HIDE DEF rec, v
  <1>6. Granted(x, x)
    BY <1>1, <1>2, <1>4, <1>5 DEF Granted, Insert
  <1>7. GrantedFor(t, x, x)
    BY DEF GrantedFor
  <1>8. x = minted + 1
    OBVIOUS
  <1> HIDE DEF x
  <1>9. QED
    BY <1>1, <1>3, <1>6, <1>7, <1>8, GrantTrust

\* A holder of the token a client sent is the device of that client.
LEMMA RefreshTrust ==
    ASSUME IInv, TrustInv, NEW t \in Tasks, refresh_access_token(t)
    PROVE  TrustInv'
  <1> DEFINE token == tasks[t].token
             devs == registry.devices
  <1>1. /\ minted \in Nat /\ now \in Nat /\ tasks[t].pc = "refresh"
        /\ DOMAIN registry = {"devices", "owner", "offers"}
        /\ UNCHANGED <<disk, clients, history>>
    BY Parts DEF RegistryPart, Sound, RestPart, refresh_access_token
  <1>2. CASE RefreshHolder(token) = {}
    <2>1. Become(t, Idle) /\ UNCHANGED <<registry, minted>>
      BY <1>2 DEF refresh_access_token
    <2>2. QED
      BY <1>1, <2>1, SameBelow, IdleSilent, QuietStep
  <1>3. CASE RefreshHolder(token) # {}
    <2>1. PICK d \in RefreshHolder(token) :
             /\ registry' = [registry EXCEPT !.devices[d] =
                               Rotated(@, token, minted + 1, minted + 2)]
             /\ Become(t, [pc |-> "capture", answer |->
                   [kind |-> "tokens", device |-> d, refresh |-> minted + 1,
                    access |-> minted + 2]])
      BY <1>3 DEF refresh_access_token
    <2>2. minted' = minted + 2
      BY <1>3 DEF refresh_access_token
    <2>3. d \in DOMAIN devs /\ devs[d].token = token
      BY DEF RefreshHolder, devices
    <2> DEFINE v == Rotated(devs[d], token, minted + 1, minted + 2)
               rec == [pc |-> "capture", answer |->
                         [kind |-> "tokens", device |-> d, refresh |-> minted + 1,
                          access |-> minted + 2]]
               x == minted + 1
    <2>4. /\ devs[d] \in DeviceRecords /\ token \in Nat /\ token <= minted
      BY <2>3, Parts DEF RegistryPart, Sound, DevicesOK, DeviceRecords
    <2>5. v.token = x /\ v.previous = token
      BY <2>4 DEF Rotated, DeviceRecords
    <2>6. registry'.devices = [devs EXCEPT ![d] = v]
      BY <1>1, <2>1, <2>3
    <2>7. /\ rec.pc = "capture" /\ rec.answer.kind = "tokens"
          /\ rec.answer.device = d /\ rec.answer.refresh = x
      OBVIOUS
    <2>8. Become(t, rec) /\ x = minted + 1
      BY <2>1
    <2> HIDE DEF v, rec, x
    <2>9. Granted(d, x)
      BY <1>1, <2>3, <2>4, <2>5, <2>6, <2>8 DEF Granted
    <2>10. Asks(t, d, token)
      <3>1. Asks(t, tasks[t].device, token)
        BY <1>1 DEF Asks
      <3>2. Issued(token, tasks[t].device)
        BY <3>1 DEF Issued
      <3>3. Issued(token, d)
        BY <2>3 DEF Issued, Has, Registries
      <3>4. QED
        BY <3>1, <3>2, <3>3 DEF TrustInv, TokenInv, TokensOwned
    <2>11. GrantedFor(t, d, x)
      BY <2>3, <2>5, <2>6, <2>10 DEF GrantedFor
    <2>12. QED
      BY <1>1, <2>2, <2>7, <2>8, <2>9, <2>11, GrantTrust
  <1>4. QED
    BY <1>2, <1>3

-----------------------------------------------------------------------------
(* What clients and owners can rely on *)

LEMMA InitTrust == Init => TrustInv
  <1> SUFFICES ASSUME Init PROVE TrustInv
    OBVIOUS
  <1>1. \A u \in Tasks : tasks[u] = Idle
    BY DEF Init
  <1>2. \A u \in Tasks :
           /\ ~Writing(u)
           /\ \A d, x : ~Asks(u, d, x) /\ ~Grants(u, d, x) /\ ~Revokes(u, d)
    BY <1>1, IdleSilent, Silent
  <1>3. Registries = {EmptyRegistry} /\ DOMAIN EmptyRegistry.devices = {}
    BY <1>2 DEF Init, Registries, EmptyRegistry
  <1>4. DOMAIN clients = {} /\ history.gone = {} /\ history.unlucky = {}
    BY DEF Init
  <1>5. \A x, d : ~Issued(x, d)
    BY <1>2, <1>3, <1>4 DEF Issued, Has
  <1>6. TokensOwned /\ AnswersUnique /\ RevokedPast
    BY <1>2, <1>3, <1>4, <1>5 DEF TokensOwned, AnswersUnique, RevokedPast
  <1>7. HonestAll
    BY <1>2, <1>4 DEF HonestAll, HonestServed
  <1>8. SavesOrdered
    BY <1>1, <1>2, <1>3, <1>4
    DEF SavesOrdered, OneWriter, AnswersSaved, Shows, ClientsKnown, AskersKnown, GoneStays, Idle
  <1>9. QED
    BY <1>6, <1>7, <1>8 DEF TrustInv, TokenInv

LEMMA NextTrust == IInv /\ TrustInv /\ [Next]_vars => TrustInv'
  <1> SUFFICES ASSUME IInv, TrustInv, [Next]_vars PROVE TrustInv'
    OBVIOUS
  <1>1. CASE UNCHANGED vars
    BY <1>1, SameBelow, StillStep DEF vars
  <1>2. CASE Tick
    BY <1>2, SameBelow, StillStep DEF Tick
  <1>3. ASSUME NEW t \in Tasks, NEW ttl \in OfferTtls, Admit(t, [pc |-> "offer", ttl |-> ttl])
        PROVE  TrustInv'
    <2> DEFINE rec == [pc |-> "offer", ttl |-> ttl]
    <2>1. rec.pc \notin {"refresh", "capture", "write", "answer"}
      OBVIOUS
    <2>2. Admit(t, rec)
      BY <1>3
    <2> HIDE DEF rec
    <2>3. QED
      BY <2>1, <2>2, AdmitTrust
  <1>4. ASSUME NEW t \in Tasks, NEW d \in DOMAIN devices,
               Admit(t, [pc |-> "revoke", device |-> d])
        PROVE  TrustInv'
    <2> DEFINE rec == [pc |-> "revoke", device |-> d]
    <2>1. rec.pc \notin {"refresh", "capture", "write", "answer"}
      OBVIOUS
    <2>2. Admit(t, rec)
      BY <1>4
    <2> HIDE DEF rec
    <2>3. QED
      BY <2>1, <2>2, AdmitTrust
  <1>5. ASSUME NEW t \in Tasks, bootstrap_claim(t) PROVE TrustInv'
    BY <1>5, EnrolTrust DEF bootstrap_claim
  <1>6. ASSUME NEW t \in Tasks, NEW o \in handed, accept_pairing_offer(t, o) PROVE TrustInv'
    BY <1>6, EnrolTrust DEF accept_pairing_offer
  <1>7. ASSUME NEW t \in Tasks,
               \/ create_pairing_offer(t) \/ refuse_blank_offer(t)
               \/ \E o \in handed : refuse_pairing_offer(t, o)
               \/ \E d \in DOMAIN clients : RequestRefresh(t, d)
               \/ RejectReuse(t) \/ refresh_access_token(t) \/ revoke_device(t)
        PROVE  TrustInv'
    BY <1>7, CreateOfferTrust, RefuseOfferTrust, RefuseTrust, RequestTrust, ReuseTrust,
       RefreshTrust, RevokeTrust
  <1>8. ASSUME NEW t \in Tasks,
               \/ SaveForOthers(t) \/ Capture(t) \/ WriteSnapshot(t)
               \/ Answer(t) \/ LoseAnswer(t)
        PROVE  TrustInv'
    BY <1>8, SaveForOthersTrust, CaptureTrust, WriteTrust, AnswerTokensTrust,
       AnswerOtherTrust, LoseTrust
  <1>9. QED
    BY <1>1, <1>2, <1>3, <1>4, <1>5, <1>6, <1>7, <1>8, RestartTrust DEF Next

\* Tokens have one device and grow, answers not yet given are known to nobody
\* else, and ordered saves hold what was answered, through lost answers,
\* double refreshes and restarts.
THEOREM TrustInvariance == Spec => [](IInv /\ TrustInv)
  BY InitInv, InitTrust, NextInv, NextTrust, PTL DEF Spec

\* A client that refreshes one at a time and has lost no answer never holds
\* the token refresh_access_token takes for reuse.
THEOREM HonestCorrect == Spec => []HonestNeverReuses
  <1>1. ASSUME IInv, TrustInv PROVE HonestNeverReuses
    <2> SUFFICES ASSUME NEW d \in DOMAIN clients \cap DOMAIN registry.devices,
                        d \notin history.unlucky, ServedFor(d) = {}
                 PROVE  clients[d].refresh # registry.devices[d].previous
      BY DEF HonestNeverReuses, devices
    <2>1. \A t \in Tasks : \A x : ~Grants(t, d, x)
      BY ServedBy
    <2>2. HonestServed(d)
      <3>1. d \in Nat
        BY <1>1, Parts DEF RestPart
      <3>2. QED
        BY <1>1, <3>1 DEF TrustInv, TokenInv, HonestAll
    <2>3. registry \in Registries /\ Has(registry, d, registry.devices[d].token)
      BY DEF Registries, Has
    <2>4. registry.devices[d].token <= clients[d].refresh
      BY <2>1, <2>2, <2>3 DEF HonestServed, Newest
    <2>5. registry.devices[d].previous < registry.devices[d].token
      BY <1>1, <2>3 DEF TrustInv, TokenInv, TokensOwned
    <2>6. /\ registry.devices[d].previous \in Nat /\ registry.devices[d].token \in Nat
          /\ clients[d].refresh \in Nat
      BY <1>1, Parts DEF RestPart, RegistryPart, Sound, DevicesOK, DeviceRecords
    <2>7. QED
      BY <2>4, <2>5, <2>6
  <1>2. QED
    BY <1>1, TrustInvariance, PTL

\* While saves neither fail nor overlap, persist_state_logged never leaves a
\* client with a token that neither the registry nor a restart knows.
THEOREM ClientsCorrect == Spec => []ClientRemembered
  <1>1. ASSUME IInv, TrustInv PROVE ClientRemembered
    BY <1>1 DEF TrustInv, SavesOrdered, ClientsKnown, Registries, ClientRemembered, devices
  <1>2. QED
    BY <1>1, TrustInvariance, PTL

\* While saves neither fail nor overlap, a device that revoke_device was
\* answered for does not come back with a restart.
THEOREM RevocationCorrect == Spec => []RevocationSticks
  <1>1. ASSUME IInv, TrustInv PROVE RevocationSticks
    BY <1>1 DEF TrustInv, SavesOrdered, GoneStays, Registries, RevocationSticks, devices
  <1>2. QED
    BY <1>1, TrustInvariance, PTL
=============================================================================
