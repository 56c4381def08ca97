------------------------------ MODULE DeviceTrust ------------------------------
(***************************************************************************)
(* The trusted devices of the control plane (rc-control-plane): the owner  *)
(* claims the service with the bootstrap secret, further devices pair with *)
(* single-use offers, every device exchanges its refresh token for a new   *)
(* pair of tokens, and devices are revoked.                                *)
(*                                                                         *)
(* Every operation changes the registry under one write lock; its handler  *)
(* then copies the state, writes the copy to SQLite and answers, in three  *)
(* further steps that interleave with other handlers.  An answer can be    *)
(* lost, and the service can be restarted from the copy that reached the   *)
(* disk last.  Devices, tokens and offers are numbers taken from one       *)
(* counter (Uuid::new_v4 never repeats); a device is named by its first    *)
(* refresh token.  Hashing is left out: a hash stands for its token.       *)
(***************************************************************************)
EXTENDS Integers, FiniteSets

CONSTANTS
    Tasks,            \* handlers in flight at the same time
    MaxOffers,        \* MAX_PAIRING_OFFERS
    OfferTtls,        \* lifetimes asked of pairing offers, clamped, in ticks
    AccessTtl,        \* lifetime of an access token, in ticks
    HasSharedToken,   \* whether an auth_token is configured
    LossyNetwork,     \* whether answers get lost
    DiskFails,        \* whether writing the snapshot may fail
    MaxMinted,        \* bound: numbers minted
    MaxTime,          \* bound: ticks
    MaxRestarts       \* bound: restarts of the service

ASSUME DeviceAssumption ==
    /\ MaxOffers \in Nat \ {0}
    /\ OfferTtls \subseteq Nat
    /\ AccessTtl \in Nat
    /\ {HasSharedToken, LossyNetwork, DiskFails} \subseteq BOOLEAN
    /\ {MaxMinted, MaxTime, MaxRestarts} \subseteq Nat

None == 0

VARIABLES
    registry,     \* what is saved: trusted_devices, owner_device_id, pairing_offers
    tokenIndex,   \* token_hash_to_device
    accessIndex,  \* access_token_hash_to_device
    disk,         \* the snapshot row
    tasks,        \* tasks[t]: what handler t carries between its steps
    clients,      \* clients[d]: the tokens the client of device d holds
    handed,       \* pairing offers whose secret has been handed out
    history,      \* for the properties: clients that refreshed twice at once or
                  \* lost an answer, devices answered to be revoked, devices
                  \* revoked for reuse, whether saves overlapped or failed
    minted, now, restarts

vars == <<registry, tokenIndex, accessIndex, disk, tasks, clients, handed,
          history, minted, now, restarts>>

-----------------------------------------------------------------------------
(* Records *)

\* StoredTrustedDevice.  `offer` is the offer it was paired with; only the
\* properties look at it.
DeviceRecords ==
    [owner : BOOLEAN, token : Nat, access : Nat, expires : Nat,
     previous : Nat, offer : Nat]

IsRegistry(reg) ==
    /\ DOMAIN reg = {"devices", "owner", "offers"}
    /\ DOMAIN reg.devices \subseteq Nat \ {None}
    /\ reg.devices \in [DOMAIN reg.devices -> DeviceRecords]
    /\ reg.owner \in Nat
    /\ DOMAIN reg.offers \subseteq Nat \ {None}
    /\ reg.offers \in [DOMAIN reg.offers -> Nat]

EmptyRegistry == [devices |-> << >>, owner |-> None, offers |-> << >>]

\* What a handler answers: a pair of tokens, an offer, or that a device is
\* revoked.
Answers ==
    [kind : {"tokens"}, device : Nat \ {None}, refresh : Nat, access : Nat]
    \cup [kind : {"offer", "revoked"}, subject : Nat] \cup [kind : {"other"}]

Idle == [pc |-> "idle"]

IsTask(task) ==
    \/ task = Idle
    \/ task \in [pc : {"offer"}, ttl : OfferTtls]
    \/ task \in [pc : {"revoke"}, device : Nat]
    \/ task \in [pc : {"refresh"}, device : Nat \ {None}, token : Nat]
    \/ task \in [pc : {"capture", "answer"}, answer : Answers]
    \/ /\ DOMAIN task = {"pc", "answer", "copy"}
       /\ task.pc = "write" /\ task.answer \in Answers /\ IsRegistry(task.copy)

Histories == [unlucky : SUBSET Nat, gone : SUBSET Nat, disordered : BOOLEAN]

TypeOK ==
    /\ IsRegistry(registry)
    /\ DOMAIN tokenIndex \subseteq Nat /\ tokenIndex \in [DOMAIN tokenIndex -> Nat]
    /\ DOMAIN accessIndex \subseteq Nat /\ accessIndex \in [DOMAIN accessIndex -> Nat]
    /\ IsRegistry(disk)
    /\ DOMAIN tasks = Tasks /\ \A t \in Tasks : IsTask(tasks[t])
    /\ DOMAIN clients \subseteq Nat \ {None}
    /\ clients \in [DOMAIN clients -> [refresh : Nat, access : Nat]]
    /\ handed \subseteq Nat
    /\ history \in Histories
    /\ minted \in Nat /\ now \in Nat /\ restarts \in Nat
    /\ Cardinality(DOMAIN registry.offers) <= MaxOffers

Insert(f, k, v) == [x \in DOMAIN f \cup {k} |-> IF x = k THEN v ELSE f[x]]
Without(f, S) == [x \in DOMAIN f \ S |-> f[x]]

Become(t, record) == tasks' = [tasks EXCEPT ![t] = record]

\* Bound: a request that may mint up to two numbers is made only if they are
\* left besides those of the handlers under way.
MayMint ==
    LET minting == {t \in Tasks : tasks[t].pc \in {"offer", "refresh"}}
    IN  minted + 2 * (Cardinality(minting) + 1) <= MaxMinted

-----------------------------------------------------------------------------
(* Tokens *)

devices == registry.devices

AccessByScan(token) ==
    {d \in DOMAIN devices : devices[d].access = token /\ now < devices[d].expires}

\* authenticate_device_token for an access token: through the index, or by a
\* scan if the index does not know the token.
authenticate_device_token(token) ==
    IF token \in DOMAIN accessIndex
    THEN AccessByScan(token) \cap {accessIndex[token]}
    ELSE AccessByScan(token)

\* A token found by a scan is put into the index.
Healed(token) ==
    IF token \in DOMAIN accessIndex \/ AccessByScan(token) = {} THEN accessIndex
    ELSE Insert(accessIndex, token, CHOOSE d \in AccessByScan(token) : TRUE)

\* The device a refresh token belongs to, through the index or by a scan.
RefreshHolder(token) ==
    LET holders == {d \in DOMAIN devices : devices[d].token = token}
        indexed == {tokenIndex[n] : n \in DOMAIN tokenIndex \cap {token}}
    IN  IF holders \cap indexed # {} THEN holders \cap indexed ELSE holders

RotatedForgetful(device, token, refresh, access) ==
    [device EXCEPT !.token = refresh, !.access = access, !.expires = now + AccessTtl]

RotatedSwapped(device, token, refresh, access) ==
    [device EXCEPT !.token = refresh, !.access = access,
                   !.previous = refresh, !.expires = now + AccessTtl]

\* Both tokens are replaced and the old refresh token is remembered.
Rotated(device, token, refresh, access) ==
    [device EXCEPT !.token = refresh, !.access = access,
                   !.previous = token, !.expires = now + AccessTtl]

KeepsOldAccess(d) == accessIndex
WithoutAccess(d) == Without(accessIndex, {devices[d].access})

KeepsOwner(d) == registry.owner
OwnerWithout(d) == IF devices[d].owner THEN None ELSE registry.owner

\* revoke_device: the record, the ownership and both index entries go.
Removed(d) ==
    /\ registry' = [registry EXCEPT !.devices = Without(@, {d}), !.owner = OwnerWithout(d)]
    /\ tokenIndex' = Without(tokenIndex, {devices[d].token})
    /\ accessIndex' = WithoutAccess(d)

-----------------------------------------------------------------------------
(* Enrolling devices *)

\* A new device with a fresh pair of tokens.
Enrol(t, owner, offers, offer) ==
    LET d == minted + 1
        a == minted + 2
    IN  /\ registry' =
              [devices |-> Insert(devices, d,
                  [owner |-> owner, token |-> d, access |-> a,
                   expires |-> now + AccessTtl, previous |-> None, offer |-> offer]),
               owner |-> IF owner THEN d ELSE registry.owner,
               offers |-> offers]
        /\ tokenIndex' = Insert(tokenIndex, d, d)
        /\ accessIndex' = Insert(accessIndex, a, d)
        /\ minted' = a
        /\ Become(t, [pc |-> "capture", answer |->
              [kind |-> "tokens", device |-> d, refresh |-> d, access |-> a]])

bootstrap_claim(t) ==
    /\ tasks[t] = Idle
    /\ registry.owner = None
    /\ MayMint
    /\ Enrol(t, TRUE, registry.offers, None)
    /\ UNCHANGED <<disk, clients, handed, history, now, restarts>>

\* require_api_auth and require_owner_or_shared, in a scope of their own: the
\* shared token, or the access token of the owner.
Admit(t, request) ==
    /\ tasks[t] = Idle
    /\ \/ HasSharedToken /\ UNCHANGED accessIndex
       \/ \E d \in DOMAIN clients :
            /\ \E e \in authenticate_device_token(clients[d].access) : devices[e].owner
            /\ accessIndex' = Healed(clients[d].access)
    /\ Become(t, request)
    /\ UNCHANGED <<registry, tokenIndex, disk, clients, handed, history,
                   minted, now, restarts>>

\* prune_expired_pairing_offers
LiveOffers == {o \in DOMAIN registry.offers : registry.offers[o] >= now}

\* The offers kept when one more is made: room is made at the expense of the
\* ones closest to expiry.
KeepsAll(kept) == kept = LiveOffers
MakesRoom(kept) ==
    /\ kept \subseteq LiveOffers
    /\ Cardinality(kept) < MaxOffers
    /\ kept # LiveOffers => Cardinality(kept) = MaxOffers - 1
    /\ \A o \in LiveOffers \ kept, k \in kept : registry.offers[o] <= registry.offers[k]

create_pairing_offer(t) ==
    /\ tasks[t].pc = "offer"
    /\ IF registry.owner = None
       THEN Become(t, Idle) /\ UNCHANGED <<registry, minted>>
       ELSE /\ minted' = minted + 1
            /\ \E kept \in SUBSET LiveOffers :
                 /\ MakesRoom(kept)
                 /\ registry' = [registry EXCEPT !.offers =
                       [o \in kept \cup {minted + 1} |->
                           IF o \in kept THEN registry.offers[o] ELSE now + tasks[t].ttl]]
            /\ Become(t, [pc |-> "capture",
                          answer |-> [kind |-> "offer", subject |-> minted + 1]])
    /\ UNCHANGED <<tokenIndex, accessIndex, disk, clients, handed, history, now, restarts>>

\* A blank device name is noticed after room has been made for the offer.
refuse_blank_offer(t) ==
    /\ tasks[t].pc = "offer"
    /\ registry.owner # None
    /\ \E kept \in SUBSET LiveOffers :
          /\ MakesRoom(kept)
          /\ registry' = [registry EXCEPT !.offers = [o \in kept |-> registry.offers[o]]]
    /\ Become(t, Idle)
    /\ UNCHANGED <<tokenIndex, accessIndex, disk, clients, handed, history,
                   minted, now, restarts>>

OffersKept(o) == [p \in LiveOffers |-> registry.offers[p]]
OffersWithout(o) == [p \in LiveOffers \ {o} |-> registry.offers[p]]

accept_pairing_offer(t, o) ==
    /\ tasks[t] = Idle
    /\ o \in handed \cap LiveOffers
    /\ MayMint
    /\ Enrol(t, FALSE, OffersWithout(o), o)
    /\ UNCHANGED <<disk, clients, handed, history, now, restarts>>

\* An offer that has expired, or is presented with a wrong secret or a blank
\* name, is used up, and expired offers go in any case; the handler answers
\* with an error and saves nothing.
refuse_pairing_offer(t, o) ==
    /\ tasks[t] = Idle
    /\ o \in handed
    /\ registry' = [registry EXCEPT !.offers = OffersWithout(o)]
    /\ UNCHANGED <<tokenIndex, accessIndex, disk, tasks, clients, handed,
                   history, minted, now, restarts>>

-----------------------------------------------------------------------------
(* Refreshing and revoking *)

\* Handlers that work for, or are about to answer, the client of d.
ServedFor(d) ==
    {t \in Tasks :
        \/ tasks[t].pc = "refresh" /\ tasks[t].device = d
        \/ /\ tasks[t].pc \in {"capture", "write", "answer"}
           /\ tasks[t].answer.kind = "tokens" /\ tasks[t].answer.device = d}

\* A client posts the refresh token it holds.
RequestRefresh(t, d) ==
    /\ tasks[t] = Idle
    /\ d \in DOMAIN clients
    /\ MayMint
    /\ Become(t, [pc |-> "refresh", device |-> d, token |-> clients[d].refresh])
    /\ history' = IF ServedFor(d) = {} THEN history
                  ELSE [history EXCEPT !.unlucky = @ \cup {d}]
    /\ UNCHANGED <<registry, tokenIndex, accessIndex, disk, clients, handed,
                   minted, now, restarts>>

\* A token that was rotated away revokes its device.  That handler answers
\* with an error, before the state would be saved.
RejectReuse(t) ==
    /\ tasks[t].pc = "refresh"
    /\ \E d \in DOMAIN devices :
        /\ devices[d].previous = tasks[t].token
        /\ Removed(d)
    /\ Become(t, Idle)
    /\ UNCHANGED <<disk, clients, handed, history, minted, now, restarts>>

refresh_access_token(t) ==
    /\ tasks[t].pc = "refresh"
    /\ \A d \in DOMAIN devices : devices[d].previous # tasks[t].token
    /\ LET token   == tasks[t].token
           holders == RefreshHolder(token)
           r       == minted + 1
           a       == minted + 2
       IN  IF holders = {}
           THEN /\ Become(t, Idle)
                /\ UNCHANGED <<registry, tokenIndex, accessIndex, minted>>
           ELSE /\ minted' = a
                /\ \E d \in holders :
                     /\ registry' = [registry EXCEPT !.devices[d] = Rotated(@, token, r, a)]
                     /\ tokenIndex' = Insert(Without(tokenIndex, {token}), r, d)
                     /\ accessIndex' = Insert(WithoutAccess(d), a, d)
                     /\ Become(t, [pc |-> "capture", answer |->
                           [kind |-> "tokens", device |-> d, refresh |-> r, access |-> a]])
    /\ UNCHANGED <<disk, clients, handed, history, now, restarts>>

revoke_device(t) ==
    /\ tasks[t].pc = "revoke"
    /\ IF tasks[t].device \in DOMAIN devices
       THEN /\ Removed(tasks[t].device)
            /\ Become(t, [pc |-> "capture", answer |->
                  [kind |-> "revoked", subject |-> tasks[t].device]])
       ELSE Become(t, Idle) /\ UNCHANGED <<registry, tokenIndex, accessIndex>>
    /\ UNCHANGED <<disk, clients, handed, history, minted, now, restarts>>

-----------------------------------------------------------------------------
(* Saving and answering *)

\* Handlers of sessions, approvals and commands save the same state.
SaveForOthers(t) ==
    /\ tasks[t] = Idle
    /\ Become(t, [pc |-> "capture", answer |-> [kind |-> "other"]])
    /\ UNCHANGED <<registry, tokenIndex, accessIndex, disk, clients, handed,
                   history, minted, now, restarts>>

\* persist_state encodes the registry under a read lock ...
Capture(t) ==
    /\ tasks[t].pc = "capture"
    /\ Become(t, [pc |-> "write", answer |-> tasks[t].answer, copy |-> registry])
    /\ history' = [history EXCEPT !.disordered =
                      @ \/ \E u \in Tasks : tasks[u].pc = "write"]
    /\ UNCHANGED <<registry, tokenIndex, accessIndex, disk, clients, handed,
                   minted, now, restarts>>

\* ... and writes it when it gets the connection; persist_state_logged only
\* logs a failure.
WrittenOnce(copy) == IF disk = EmptyRegistry THEN copy ELSE disk
Written(copy) == copy

WriteSnapshot(t) ==
    /\ tasks[t].pc = "write"
    /\ \/ disk' = Written(tasks[t].copy) /\ UNCHANGED history
       \/ /\ DiskFails /\ UNCHANGED disk
          /\ history' = [history EXCEPT !.disordered = TRUE]
    /\ Become(t, [pc |-> "answer", answer |-> tasks[t].answer])
    /\ UNCHANGED <<registry, tokenIndex, accessIndex, clients, handed,
                   minted, now, restarts>>

\* The client stores the tokens it is answered, the owner the new offer.
Answer(t) ==
    /\ tasks[t].pc = "answer"
    /\ LET answer == tasks[t].answer
       IN  /\ clients' = IF answer.kind = "tokens"
                         THEN Insert(clients, answer.device,
                                [refresh |-> answer.refresh, access |-> answer.access])
                         ELSE clients
           /\ handed' = IF answer.kind = "offer"
                        THEN handed \cup {answer.subject} ELSE handed
           /\ history' = IF answer.kind = "revoked"
                         THEN [history EXCEPT !.gone = @ \cup {answer.subject}] ELSE history
    /\ Become(t, Idle)
    /\ UNCHANGED <<registry, tokenIndex, accessIndex, disk, minted, now, restarts>>

LoseAnswer(t) ==
    /\ LossyNetwork
    /\ tasks[t].pc = "answer"
    /\ history' = IF tasks[t].answer.kind = "tokens"
                  THEN [history EXCEPT !.unlucky = @ \cup {tasks[t].answer.device}]
                  ELSE history
    /\ Become(t, Idle)
    /\ UNCHANGED <<registry, tokenIndex, accessIndex, disk, clients, handed,
                   minted, now, restarts>>

-----------------------------------------------------------------------------

\* rebuild_token_hash_index
rebuild_token_hash_index(reg) ==
    /\ tokenIndex' = [n \in {reg.devices[d].token : d \in DOMAIN reg.devices} |->
          CHOOSE d \in DOMAIN reg.devices : reg.devices[d].token = n]
    /\ accessIndex' = [n \in {reg.devices[d].access : d \in DOMAIN reg.devices} |->
          CHOOSE d \in DOMAIN reg.devices : reg.devices[d].access = n]

\* The process ends at any point and starts again from the snapshot row, or
\* with a fresh registry if the row cannot be read; no handler under way
\* answers any more.
Restart ==
    /\ restarts < MaxRestarts
    /\ restarts' = restarts + 1
    /\ registry' \in {disk, EmptyRegistry}
    /\ rebuild_token_hash_index(registry')
    /\ tasks' = [t \in Tasks |-> Idle]
    /\ history' = [history EXCEPT !.unlucky =
                      @ \cup {d \in DOMAIN clients : ServedFor(d) # {}}]
    /\ UNCHANGED <<disk, clients, handed, minted, now>>

Tick ==
    /\ now < MaxTime
    /\ now' = now + 1
    /\ UNCHANGED <<registry, tokenIndex, accessIndex, disk, tasks, clients, handed,
                   history, minted, restarts>>

Init ==
    /\ registry = EmptyRegistry
    /\ tokenIndex = << >>
    /\ accessIndex = << >>
    /\ disk = EmptyRegistry
    /\ tasks = [t \in Tasks |-> Idle]
    /\ clients = << >>
    /\ handed = {}
    /\ history = [unlucky |-> {}, gone |-> {}, disordered |-> FALSE]
    /\ minted = 0 /\ now = 0 /\ restarts = 0

Next ==
    \/ \E t \in Tasks :
          \/ bootstrap_claim(t)
          \/ \E ttl \in OfferTtls : MayMint /\ Admit(t, [pc |-> "offer", ttl |-> ttl])
          \/ \E d \in DOMAIN devices : Admit(t, [pc |-> "revoke", device |-> d])
          \/ create_pairing_offer(t) \/ refuse_blank_offer(t)
          \/ \E o \in handed : accept_pairing_offer(t, o) \/ refuse_pairing_offer(t, o)
          \/ \E d \in DOMAIN clients : RequestRefresh(t, d)
          \/ RejectReuse(t)
          \/ refresh_access_token(t)
          \/ revoke_device(t)
          \/ SaveForOthers(t)
          \/ Capture(t) \/ WriteSnapshot(t) \/ Answer(t) \/ LoseAnswer(t)
    \/ Restart
    \/ Tick

Spec == Init /\ [][Next]_vars

-----------------------------------------------------------------------------
(* Properties *)

\* The two token indices, which four operations maintain separately from the
\* records and a restart rebuilds, lead from exactly the current tokens to
\* the devices that hold them: no token of a removed device or of before a
\* rotation is left behind.
IndicesMirrorDevices ==
    /\ DOMAIN tokenIndex = {devices[d].token : d \in DOMAIN devices}
    /\ \A n \in DOMAIN tokenIndex :
          tokenIndex[n] \in DOMAIN devices /\ devices[tokenIndex[n]].token = n
    /\ DOMAIN accessIndex = {devices[d].access : d \in DOMAIN devices}
    /\ \A n \in DOMAIN accessIndex :
          accessIndex[n] \in DOMAIN devices /\ devices[accessIndex[n]].access = n

\* owner_device_id names the one device that has the owner flag, through
\* claims, revocations, new claims and restarts.
OwnerIsTheFlagged ==
    /\ registry.owner \in DOMAIN devices \cup {None}
    /\ \A d \in DOMAIN devices : devices[d].owner <=> d = registry.owner

\* A pairing offer brings in one device: no two devices come from the same
\* offer, and an offer whose device is trusted cannot be accepted again, also
\* when a restart restores an older state.
OfferUsedOnce ==
    \A d \in DOMAIN devices : devices[d].offer # None =>
        /\ devices[d].offer \notin DOMAIN registry.offers
        /\ \A e \in DOMAIN devices : devices[e].offer = devices[d].offer => e = d

\* A client that refreshes one at a time and has lost no answer never holds
\* the token that would be taken for reuse and cost it its device, whatever
\* other handlers save and restarts restore.
HonestNeverReuses ==
    \A d \in DOMAIN clients \cap DOMAIN devices :
        d \notin history.unlucky /\ ServedFor(d) = {} =>
            clients[d].refresh # devices[d].previous

\* The token a client was given is one the service knows, current or just
\* rotated, as long as the device is trusted: a client is not left with a
\* token nobody remembers.  This needs saves that neither fail nor overlap; of
\* two that overlap, the older copy may be written last.
ClientRemembered == ~history.disordered =>
    \A d \in DOMAIN clients \cap DOMAIN devices :
        clients[d].refresh \in {devices[d].token, devices[d].previous}

\* A device whose revocation was answered does not come back, as long as saves
\* neither fail nor overlap.
RevocationSticks == ~history.disordered =>
    history.gone \cap DOMAIN devices = {}
=============================================================================
