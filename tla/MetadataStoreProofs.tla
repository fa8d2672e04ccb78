------------------------- MODULE MetadataStoreProofs ------------------------
(***************************************************************************)
(* Proofs about MetadataStore for every set of keys, values, requests and  *)
(* initial states, every limit and every integer width.                    *)
(***************************************************************************)
EXTENDS MetadataStore, FiniteSetTheorems, TLAPS

(***************************************************************************)
(* The stored record of a put is a key value of the store's types.         *)
(***************************************************************************)
LEMMA PutValueType ==
    ASSUME TypeOK, NEW k \in Keys, NEW v \in Values,
           NEW id \in {0} \cup LeaseIds,
           VersionsLeft(k), revision < Int64Max
    PROVE  PutValue(k, v, id, revision + 1) \in KeyValue
<1>1. revision + 1 \in 1..Int64Max
  BY WatchConstants DEF TypeOK
<1>2. Present(k) => values[k] \in KeyValue
  BY DEF TypeOK, Present
<1>3. Present(k) => values[k].version + 1 \in 1..Int64Max
  BY <1>2, WatchConstants DEF KeyValue, VersionsLeft
<1>4. 1 \in 1..Int64Max
  BY WatchConstants
<1> QED
  BY Zenon, <1>1, <1>2, <1>3, <1>4 DEF PutValue, KeyValue

(***************************************************************************)
(* detach_key and attach_key keep lease records well typed.                *)
(***************************************************************************)
LEMMA ReattachType ==
    ASSUME TypeOK, NEW T, NEW attach \in [LeaseIds -> SUBSET Keys]
    PROVE  Reattach(T, attach) \in [LeaseIds -> StoredLease \cup {Absent}]
<1> SUFFICES ASSUME NEW id \in LeaseIds, Live(id)
             PROVE  Reattach(T, attach)[id] \in StoredLease
  BY DEF Reattach
<1>1. leases[id] \in StoredLease
  BY DEF TypeOK, Live
<1> QED
  BY <1>1 DEF Reattach, StoredLease

\* Attaching nothing is an attachment per lease.
LEMMA NoKeysType == NoKeys \in [LeaseIds -> SUBSET Keys]
  BY DEF NoKeys

(***************************************************************************)
(* The operations of a typed branch are typed puts and deletes.            *)
(***************************************************************************)
LEMMA OperationTypes ==
    ASSUME NEW ops \in Seq(RequestOperation)
    PROVE  /\ \A p \in Puts(ops) : /\ p.key \in Keys /\ p.value \in Values
                                   /\ p.lease_id \in {0} \cup LeaseIds
           /\ PutKeys(ops) \subseteq Keys
           /\ DeletedKeys(ops) \subseteq Keys
<1>1. \A p \in Puts(ops) : p \in RequestOperation /\ p.op = "put"
  BY DEF Puts
<1>2. \A p \in Puts(ops) : /\ p.key \in Keys /\ p.value \in Values
                           /\ p.lease_id \in {0} \cup LeaseIds
  BY <1>1 DEF RequestOperation
<1> QED
  BY <1>2 DEF PutKeys, DeletedKeys

-----------------------------------------------------------------------------
(* Type correctness *)

\* A branch that passed validation has versions left for every put.
LEMMA ApplyType ==
    ASSUME TypeOK, NEW ops \in Seq(RequestOperation), NEW verified,
           ValidOperations(ops, verified), revision < Int64Max
    PROVE  ApplyOperations(ops, revision + 1) \in [Keys -> KeyValue \cup {Absent}]
<1> SUFFICES ASSUME NEW k \in Keys
             PROVE  ApplyOperations(ops, revision + 1)[k] \in KeyValue \cup {Absent}
  BY Zenon DEF ApplyOperations
<1>1. CASE k \in PutKeys(ops)
  <2> DEFINE p == CHOOSE q \in Puts(ops) : q.key = k
  <2>1. p \in Puts(ops) /\ p.key = k
    BY <1>1 DEF PutKeys
  <2>2. VersionsLeft(k)
    BY Zenon, <2>1 DEF ValidOperations, Puts
  <2>3. PutValue(k, p.value, p.lease_id, revision + 1) \in KeyValue
    BY Zenon, <2>1, <2>2, OperationTypes, PutValueType
  <2> QED
    BY <1>1, <2>3 DEF ApplyOperations
<1>2. CASE k \notin PutKeys(ops)
  BY <1>2 DEF ApplyOperations, TypeOK
<1> QED
  BY <1>1, <1>2

\* A committed revision stays in range and installs what it is given.
LEMMA CommitType ==
    ASSUME TypeOK, NEW nv \in [Keys -> KeyValue \cup {Absent}],
           NEW nl \in [LeaseIds -> StoredLease \cup {Absent}], NEW events,
           CommitRevision(nv, nl, events)
    PROVE  /\ revision' \in 0..Int64Max
           /\ values' \in [Keys -> KeyValue \cup {Absent}]
           /\ leases' \in [LeaseIds -> StoredLease \cup {Absent}]
  BY WatchConstants DEF TypeOK, CommitRevision

\* grant_lease: the ID and the token it takes are in range, and so are the next.
LEMMA GrantType ==
    ASSUME TypeOK, NEW requested \in {0} \cup LeaseIds, NEW ttl \in 1..Uint64Max,
           NEW tick \in Ticks, grant_lease(requested, ttl, tick)
    PROVE  TypeOK'
<1> DEFINE id == IF requested = 0 THEN next_lease_id ELSE requested
           lease == [fencing_token |-> next_fencing_token, granted_ttl |-> ttl,
                     expiry_tick |-> tick + ttl, attached_keys |-> {}]
<1>1. id \in LeaseIds /\ leases' = [leases EXCEPT ![id] = lease]
  BY Zenon DEF grant_lease
<1>2. tick + ttl \in Ticks /\ next_fencing_token + 1 \in 1..Uint64Max
  BY StoreConstants DEF grant_lease, TypeOK, Ticks
<1>3. lease \in StoredLease
  BY <1>2 DEF StoredLease, TypeOK
<1>4. id + 1 \in 1..Int64Max
  BY <1>1, WatchConstants DEF LeaseIds, maximum_lease_id
<1>5. next_lease_id' \in 1..Int64Max
  BY <1>4 DEF grant_lease, TypeOK
<1>6. /\ next_fencing_token' \in 1..Uint64Max /\ logical_tick' \in Ticks
      /\ UNCHANGED <<revision, values>>
  BY <1>2 DEF grant_lease
<1> HIDE DEF id, lease
<1> QED
  BY <1>1, <1>3, <1>5, <1>6 DEF TypeOK

\* keep_alive: the extended deadline does not overflow.
LEMMA KeepAliveType ==
    ASSUME TypeOK, NEW id \in LeaseIds, NEW token \in 1..Uint64Max,
           NEW tick \in Ticks, keep_alive(id, token, tick)
    PROVE  TypeOK'
<1> DEFINE expiry == tick + leases[id].granted_ttl
<1>1. CASE leases' = [leases EXCEPT ![id].expiry_tick = expiry]
           /\ Live(id) /\ tick <= Uint64Max - leases[id].granted_ttl
  <2>1. leases[id] \in StoredLease
    BY <1>1 DEF TypeOK, Live
  <2>2. expiry \in Ticks
    BY <1>1, <2>1, StoreConstants DEF StoredLease, Ticks
  <2>3. [leases[id] EXCEPT !.expiry_tick = expiry] \in StoredLease
    BY <2>1, <2>2 DEF StoredLease
  <2> HIDE DEF expiry
  <2> QED
    BY Zenon, <1>1, <2>3 DEF keep_alive, TypeOK
<1>2. CASE UNCHANGED leases
  BY <1>2 DEF keep_alive, TypeOK
<1> QED
  BY <1>1, <1>2 DEF keep_alive, Owns

\* remove_leases_locked, with the tick of revoke_lease or expire_leases.
LEMMA RemoveType ==
    ASSUME TypeOK, NEW ids \in SUBSET LeaseIds, NEW tick \in Ticks,
           remove_leases_locked(ids), logical_tick' = tick,
           UNCHANGED <<next_lease_id, next_fencing_token>>
    PROVE  TypeOK'
<1> DEFINE deleted == AttachedKeys(ids)
           nv == [k \in Keys |-> IF k \in deleted THEN Absent ELSE values[k]]
           nl == [id \in LeaseIds |-> IF id \in ids THEN Absent ELSE leases[id]]
           events == {[type |-> "erase", key |-> k] : k \in deleted}
<1>1. /\ nv \in [Keys -> KeyValue \cup {Absent}]
      /\ nl \in [LeaseIds -> StoredLease \cup {Absent}]
  BY Zenon DEF TypeOK
<1>2. CommitRevision(nv, nl, events) \/ UNCHANGED <<revision, values, leases>>
  BY DEF remove_leases_locked
<1> HIDE DEF nv, nl, events
<1>3. CASE CommitRevision(nv, nl, events)
  BY <1>1, <1>3, CommitType DEF TypeOK
<1>4. CASE UNCHANGED <<revision, values, leases>>
  BY <1>4 DEF TypeOK
<1> QED
  BY <1>2, <1>3, <1>4

\* revoke_lease and expire_leases remove a set of live leases at a tick.
LEMMA RemovalForms ==
    ASSUME TypeOK
    PROVE  /\ \A id \in LeaseIds, token \in 1..Uint64Max, tick \in Ticks :
                revoke_lease(id, token, tick) =>
                  \E ids \in SUBSET LiveLeases :
                    /\ remove_leases_locked(ids)
                    /\ tick >= logical_tick /\ logical_tick' = tick
                    /\ UNCHANGED <<next_lease_id, next_fencing_token>>
           /\ \A tick \in Ticks :
                expire_leases(tick) =>
                  \E ids \in SUBSET LiveLeases :
                    /\ remove_leases_locked(ids)
                    /\ tick >= logical_tick /\ logical_tick' = tick
                    /\ UNCHANGED <<next_lease_id, next_fencing_token>>
<1>1. ASSUME NEW id \in LeaseIds, NEW token \in 1..Uint64Max, NEW tick \in Ticks,
             revoke_lease(id, token, tick)
      PROVE  \E ids \in SUBSET LiveLeases :
                    /\ remove_leases_locked(ids)
                    /\ tick >= logical_tick /\ logical_tick' = tick
                    /\ UNCHANGED <<next_lease_id, next_fencing_token>>
  <2> DEFINE ids == IF Live(id) /\ leases[id].fencing_token = token THEN {id} ELSE {}
  <2>1. ids \in SUBSET LiveLeases
    BY DEF LiveLeases
  <2> QED
    BY <1>1, <2>1 DEF revoke_lease
<1>2. ASSUME NEW tick \in Ticks, expire_leases(tick)
      PROVE  \E ids \in SUBSET LiveLeases :
                    /\ remove_leases_locked(ids)
                    /\ tick >= logical_tick /\ logical_tick' = tick
                    /\ UNCHANGED <<next_lease_id, next_fencing_token>>
  <2> DEFINE ids == {id \in LiveLeases : leases[id].expiry_tick <= tick}
  <2>1. ids \in SUBSET LiveLeases
    OBVIOUS
  <2> QED
    BY <1>2, <2>1 DEF expire_leases
<1> QED
  BY <1>1, <1>2

-----------------------------------------------------------------------------
(***************************************************************************)
(* The inductive invariant.  SnapshotAccepted alone is inductive given the *)
(* types: it holds both directions of the attachment index, which each     *)
(* other's preservation needs, and the counters ahead of the leases.       *)
(* DeadlineWithinTtl is what keepalives need to never shorten a lease.     *)
(***************************************************************************)
StoreInv == TypeOK /\ SnapshotAccepted /\ DeadlineWithinTtl

CountersAhead ==
    \A id \in LiveLeases :
       id < next_lease_id /\ leases[id].fencing_token < next_fencing_token

LeasesWithinLimit == Cardinality(LiveLeases) <= MaxActiveLeases

MetadataOrdered ==
    \A k \in Keys : Present(k) =>
       /\ values[k].create_revision <= values[k].mod_revision
       /\ values[k].mod_revision <= revision

\* The constructor's checks, one concern at a time.
LEMMA SnapshotParts ==
    TypeOK => (SnapshotAccepted <=> /\ AttachmentIndexConsistent
                                    /\ CountersAhead
                                    /\ LeasesWithinLimit
                                    /\ MetadataOrdered)
<1> SUFFICES ASSUME TypeOK
             PROVE  SnapshotAccepted <=> /\ AttachmentIndexConsistent
                                         /\ CountersAhead
                                         /\ LeasesWithinLimit
                                         /\ MetadataOrdered
  OBVIOUS
<1>1. \A id \in LiveLeases : leases[id] \in StoredLease
  BY DEF TypeOK, LiveLeases, Live
<1>2. \A k \in Keys : Present(k) => values[k] \in KeyValue
  BY DEF TypeOK, Present
<1>3. \A id \in LiveLeases : leases[id].fencing_token > 0 /\ leases[id].granted_ttl > 0
  BY <1>1, StoreConstants DEF StoredLease
<1>4. \A k \in Keys : Present(k) => values[k].version > 0 /\ values[k].create_revision > 0
  BY <1>2, WatchConstants DEF KeyValue
<1>5. next_lease_id > 0 /\ next_fencing_token > 0
  BY WatchConstants, StoreConstants DEF TypeOK
<1>6. (\A k \in Keys : Detachable(k)) <=> (\A k \in Keys : Present(k) => Detachable(k))
  BY Zenon DEF Detachable
<1> QED
  BY <1>3, <1>4, <1>5, <1>6
     DEF SnapshotAccepted, AttachmentIndexConsistent, CountersAhead,
         LeasesWithinLimit, MetadataOrdered

\* Rewriting keys leaves every lease in place, with its other fields.
LEMMA ReattachKeeps ==
    ASSUME TypeOK, NEW T, NEW attach \in [LeaseIds -> SUBSET Keys],
           leases' = Reattach(T, attach)
    PROVE  /\ \A id \in LeaseIds : Live(id)' <=> Live(id)
           /\ \A id \in LeaseIds : Live(id) =>
                /\ leases'[id].fencing_token = leases[id].fencing_token
                /\ leases'[id].granted_ttl = leases[id].granted_ttl
                /\ leases'[id].expiry_tick = leases[id].expiry_tick
                /\ leases'[id].attached_keys =
                     {k \in leases[id].attached_keys :
                        ~(k \in T /\ Present(k) /\ values[k].lease_id = id)}
                     \cup attach[id]
<1> SUFFICES ASSUME NEW id \in LeaseIds
             PROVE  /\ Live(id)' <=> Live(id)
                    /\ Live(id) =>
                        /\ leases'[id].fencing_token = leases[id].fencing_token
                        /\ leases'[id].granted_ttl = leases[id].granted_ttl
                        /\ leases'[id].expiry_tick = leases[id].expiry_tick
                        /\ leases'[id].attached_keys =
                             {k \in leases[id].attached_keys :
                                ~(k \in T /\ Present(k) /\ values[k].lease_id = id)}
                             \cup attach[id]
  BY Zenon
<1>1. CASE ~Live(id)
  BY Zenon, <1>1 DEF Reattach, Live
<1>2. CASE Live(id)
  <2>1. leases[id] \in StoredLease
    BY <1>2 DEF TypeOK, Live
  <2> DEFINE keys == {k \in leases[id].attached_keys :
                        ~(k \in T /\ Present(k) /\ values[k].lease_id = id)}
                     \cup attach[id]
  <2>2. leases'[id] = [leases[id] EXCEPT !.attached_keys = keys]
    BY <1>2 DEF Reattach
  <2>3. keys \in SUBSET Keys
    BY Zenon, <2>1 DEF StoredLease
  <2> HIDE DEF keys
  <2>4. leases'[id] \in StoredLease
    BY <2>1, <2>2, <2>3 DEF StoredLease
  <2>5. Live(id)'
    BY <2>4, AbsentIsNoRecord DEF Live
  <2>6. /\ leases'[id].fencing_token = leases[id].fencing_token
        /\ leases'[id].granted_ttl = leases[id].granted_ttl
        /\ leases'[id].expiry_tick = leases[id].expiry_tick
        /\ leases'[id].attached_keys = keys
    BY <2>1, <2>2 DEF StoredLease
  <2> QED
    BY <1>2, <2>5, <2>6 DEF keys
<1> QED
  BY Zenon, <1>1, <1>2

(***************************************************************************)
(* Any step that rewrites a set T of keys at the next revision, detaching  *)
(* them and attaching exactly the ones it writes under a live lease,       *)
(* preserves the invariant.  put, erase and transaction are such steps.    *)
(***************************************************************************)
LEMMA RewritePreserves ==
    ASSUME StoreInv,
           NEW T \in SUBSET Keys, NEW nv \in [Keys -> KeyValue \cup {Absent}],
           NEW attach \in [LeaseIds -> SUBSET Keys], NEW events,
           CommitRevision(nv, Reattach(T, attach), events),
           \A k \in Keys \ T : nv[k] = values[k],
           \A k \in T : nv[k] # Absent =>
              /\ nv[k].mod_revision = revision + 1
              /\ nv[k].create_revision <= revision + 1
              /\ nv[k].lease_id # 0 => Live(nv[k].lease_id),
           \A id \in LeaseIds, k \in Keys :
              k \in attach[id] <=> k \in T /\ nv[k] # Absent /\ nv[k].lease_id = id,
           UNCHANGED <<next_lease_id, next_fencing_token>>,
           logical_tick' \in Ticks, logical_tick' >= logical_tick
    PROVE  StoreInv'
<1> USE DEF StoreInv
<1>1. values' = nv /\ revision' = revision + 1 /\ leases' = Reattach(T, attach)
  BY Zenon DEF CommitRevision
<1>2. TypeOK'
  BY Zenon, CommitType, ReattachType DEF TypeOK
<1>3. AttachmentIndexConsistent /\ CountersAhead /\ LeasesWithinLimit /\ MetadataOrdered
  BY Zenon, SnapshotParts
<1>4. /\ \A id \in LeaseIds : Live(id)' <=> Live(id)
      /\ \A id \in LeaseIds : Live(id) =>
           /\ leases'[id].fencing_token = leases[id].fencing_token
           /\ leases'[id].granted_ttl = leases[id].granted_ttl
           /\ leases'[id].expiry_tick = leases[id].expiry_tick
           /\ leases'[id].attached_keys =
                {k \in leases[id].attached_keys :
                   ~(k \in T /\ Present(k) /\ values[k].lease_id = id)}
                \cup attach[id]
  BY <1>1, ReattachKeeps
<1>5. LiveLeases' = LiveLeases
  BY Zenon, <1>4 DEF LiveLeases
<1>6. CountersAhead'
  BY Zenon, <1>3, <1>4, <1>5 DEF CountersAhead, LiveLeases
<1>7. LeasesWithinLimit'
  BY Zenon, <1>3, <1>5 DEF LeasesWithinLimit
<1>8. MetadataOrdered'
  <2> SUFFICES ASSUME NEW k \in Keys, Present(k)'
               PROVE  /\ values'[k].create_revision <= values'[k].mod_revision
                      /\ values'[k].mod_revision <= revision'
    BY Zenon DEF MetadataOrdered
  <2>1. CASE k \in T
    BY <1>1, <2>1, WatchConstants DEF Present, TypeOK
  <2>2. CASE k \notin T
    <3>1. Present(k) /\ values'[k] = values[k] /\ values[k] \in KeyValue
      BY <1>1, <2>2 DEF Present, TypeOK
    <3> QED
      BY <1>1, <1>3, <3>1, WatchConstants DEF MetadataOrdered, TypeOK, KeyValue
  <2> QED
    BY Zenon, <2>1, <2>2
<1>9. DeadlineWithinTtl'
  <2> SUFFICES ASSUME NEW id \in LiveLeases
               PROVE  leases'[id].expiry_tick <= logical_tick' + leases'[id].granted_ttl
    BY Zenon, <1>5 DEF DeadlineWithinTtl
  <2>1. Live(id) /\ id \in LeaseIds /\ leases[id] \in StoredLease
    BY DEF LiveLeases, Live, TypeOK
  <2>2. leases[id].expiry_tick <= logical_tick + leases[id].granted_ttl
    BY Zenon DEF DeadlineWithinTtl
  <2>3. /\ leases'[id].expiry_tick = leases[id].expiry_tick
        /\ leases'[id].granted_ttl = leases[id].granted_ttl
    BY Zenon, <1>4, <2>1
  <2> QED
    BY <2>1, <2>2, <2>3, StoreConstants DEF StoredLease, Ticks, TypeOK
<1>10. \A id \in LiveLeases' : Removable(id)'
  <2> SUFFICES ASSUME NEW id \in LeaseIds, Live(id), NEW k \in leases'[id].attached_keys
               PROVE  Present(k)' /\ values'[k].lease_id = id
    BY Zenon, <1>5 DEF LiveLeases, Removable
  <2>1. leases[id] \in StoredLease
    BY DEF Live, TypeOK
  <2>2. k \in Keys
    BY <1>4, <2>1 DEF StoredLease
  <2>3. CASE k \in attach[id]
    BY Zenon, <1>1, <2>2, <2>3 DEF Present
  <2>4. CASE k \notin attach[id]
    <3>1. k \in leases[id].attached_keys /\ ~(k \in T /\ Present(k) /\ values[k].lease_id = id)
      BY <1>4, <2>4
    <3>2. Present(k) /\ values[k].lease_id = id
      BY Zenon, <1>3, <3>1 DEF AttachmentIndexConsistent, LiveLeases, Removable
    <3> QED
      BY <1>1, <2>2, <3>1, <3>2 DEF Present
  <2> QED
    BY Zenon, <2>3, <2>4
<1>11. \A k \in Keys : Detachable(k)'
  <2>0. \A k \in Keys : Present(k)' /\ values'[k].lease_id # 0
           => values'[k].lease_id \in LeaseIds
    BY <1>2 DEF TypeOK, Present, KeyValue
  <2> SUFFICES ASSUME NEW k \in Keys, NEW id \in LeaseIds,
                      Present(k)', values'[k].lease_id = id
               PROVE  leases'[id] # Absent /\ k \in leases'[id].attached_keys
    BY Zenon, <2>0 DEF Detachable, Live
  <2>1. CASE k \in T
    <3>1. Live(id) /\ k \in attach[id]
      BY <1>1, <2>1 DEF Present, LeaseIds
    <3> QED
      BY <1>4, <3>1 DEF Live
  <2>2. CASE k \notin T
    <3>1. Present(k) /\ values[k].lease_id = id
      BY <1>1, <2>2 DEF Present
    <3>2. Live(id) /\ k \in leases[id].attached_keys
      BY <1>3, <3>1 DEF AttachmentIndexConsistent, Detachable, LeaseIds
    <3> QED
      BY <1>4, <2>2, <3>2 DEF Live
  <2> QED
    BY Zenon, <2>1, <2>2
<1>12. AttachmentIndexConsistent'
  BY Zenon, <1>10, <1>11 DEF AttachmentIndexConsistent
<1>13. SnapshotAccepted'
  BY <1>2, <1>6, <1>7, <1>8, <1>12, SnapshotParts, PTL
<1> QED
  BY Zenon, <1>2, <1>9, <1>13

\* put and compare_and_set: the key loses the lease it had.
LEMMA PutPreserves ==
    ASSUME StoreInv, NEW k \in Keys, NEW v \in Values, put_locked(k, v)
    PROVE  StoreInv'
<1> DEFINE pv == PutValue(k, v, 0, revision + 1)
           nv == [values EXCEPT ![k] = pv]
<1>1. CommitRevision(nv, Reattach({k}, NoKeys), {[type |-> "put", key |-> k]})
      /\ UNCHANGED leaseVars
  BY Zenon DEF put_locked
<1>2. pv \in KeyValue
  BY Zenon, PutValueType DEF StoreInv, put_locked, CommitRevision
<1>3. pv.mod_revision = revision + 1 /\ pv.lease_id = 0
  BY Zenon DEF PutValue
<1>4. pv.create_revision <= revision + 1
  <2>1. Present(k) => /\ values[k].create_revision <= values[k].mod_revision
                      /\ values[k].mod_revision <= revision
                      /\ values[k] \in KeyValue
    BY Zenon DEF StoreInv, SnapshotAccepted, TypeOK, Present
  <2> QED
    BY <2>1, WatchConstants DEF PutValue, KeyValue, StoreInv, TypeOK
<1> HIDE DEF pv
<1>5. nv \in [Keys -> KeyValue \cup {Absent}] /\ nv[k] = pv
  BY <1>2 DEF StoreInv, TypeOK
<1>6. \A j \in Keys \ {k} : nv[j] = values[j]
  BY DEF StoreInv, TypeOK
<1>7. \A id \in LeaseIds, j \in Keys :
         j \in NoKeys[id] <=> j \in {k} /\ nv[j] # Absent /\ nv[j].lease_id = id
  BY <1>3, <1>5 DEF NoKeys, LeaseIds
<1>8. logical_tick' \in Ticks /\ logical_tick' >= logical_tick
      /\ UNCHANGED <<next_lease_id, next_fencing_token>>
  BY <1>1, StoreConstants DEF leaseVars, StoreInv, TypeOK, Ticks
<1> HIDE DEF nv
<1> QED
  BY <1>1, <1>3, <1>4, <1>5, <1>6, <1>7, <1>8, NoKeysType, RewritePreserves

\* erase: the key leaves its lease with the value.
LEMMA ErasePreserves ==
    ASSUME StoreInv, NEW k \in Keys, erase(k)
    PROVE  StoreInv'
<1> DEFINE nv == [values EXCEPT ![k] = Absent]
<1>1. CommitRevision(nv, Reattach({k}, NoKeys), {[type |-> "erase", key |-> k]})
      /\ UNCHANGED leaseVars
  BY Zenon DEF erase
<1>2. nv \in [Keys -> KeyValue \cup {Absent}] /\ nv[k] = Absent
  BY Zenon DEF StoreInv, TypeOK
<1>3. \A j \in Keys \ {k} : nv[j] = values[j]
  BY Zenon DEF StoreInv, TypeOK
<1>4. logical_tick' \in Ticks /\ logical_tick' >= logical_tick
      /\ UNCHANGED <<next_lease_id, next_fencing_token>>
  BY <1>1, StoreConstants DEF leaseVars, StoreInv, TypeOK, Ticks
<1>5. \A id \in LeaseIds, j \in Keys :
         j \in NoKeys[id] <=> j \in {k} /\ nv[j] # Absent /\ nv[j].lease_id = id
  BY Zenon, <1>2 DEF NoKeys
<1> HIDE DEF nv
<1> QED
  BY <1>1, <1>2, <1>3, <1>4, <1>5, NoKeysType, RewritePreserves

\* What a valid branch leaves under each key it puts.
LEMMA AppliedPut ==
    ASSUME StoreInv, NEW ops \in Seq(RequestOperation), NEW verified,
           ValidOperations(ops, verified), revision < Int64Max,
           NEW p \in Puts(ops)
    PROVE  LET new == ApplyOperations(ops, revision + 1)[p.key]
           IN  /\ new \in KeyValue
               /\ new.mod_revision = revision + 1
               /\ new.create_revision <= revision + 1
               /\ new.value = p.value
               /\ new.lease_id = p.lease_id
<1> DEFINE k == p.key
           q == CHOOSE r \in Puts(ops) : r.key = k
<1>1. k \in PutKeys(ops) /\ k \in Keys
  BY Zenon, OperationTypes DEF PutKeys
<1>2. q \in Puts(ops) /\ q.key = k
  BY Zenon, <1>1 DEF PutKeys
<1>3. q = p
  <2>1. PICK i \in DOMAIN ops : ops[i] = p /\ ops[i].op = "put"
    BY Zenon DEF Puts
  <2>2. PICK j \in DOMAIN ops : ops[j] = q /\ ops[j].op = "put"
    BY Zenon, <1>2 DEF Puts
  <2>3. ~(i < j) /\ ~(j < i)
    BY Zenon, <1>2, <2>1, <2>2 DEF ValidOperations, Conflict
  <2>4. i = j
    BY <2>3
  <2> QED
    BY Zenon, <2>1, <2>2, <2>4
<1>4. ApplyOperations(ops, revision + 1)[k] = PutValue(k, q.value, q.lease_id, revision + 1)
  BY Zenon, <1>1 DEF ApplyOperations
<1>5. VersionsLeft(k)
  BY Zenon, <1>2 DEF ValidOperations, Puts
<1>6. PutValue(k, q.value, q.lease_id, revision + 1) \in KeyValue
  BY Zenon, <1>1, <1>2, <1>5, OperationTypes, PutValueType DEF StoreInv
<1>7. Present(k) => /\ values[k].create_revision <= values[k].mod_revision
                    /\ values[k].mod_revision <= revision
                    /\ values[k] \in KeyValue
  BY Zenon, <1>1 DEF StoreInv, SnapshotAccepted, TypeOK, Present
<1>8. PutValue(k, q.value, q.lease_id, revision + 1).create_revision <= revision + 1
  BY <1>7, WatchConstants DEF PutValue, KeyValue, StoreInv, TypeOK
<1>9. /\ PutValue(k, q.value, q.lease_id, revision + 1).mod_revision = revision + 1
      /\ PutValue(k, q.value, q.lease_id, revision + 1).value = q.value
      /\ PutValue(k, q.value, q.lease_id, revision + 1).lease_id = q.lease_id
  BY Zenon DEF PutValue
<1> HIDE DEF q
<1> QED
  BY Zenon, <1>3, <1>4, <1>6, <1>8, <1>9

\* transaction: no key is touched twice, so every attachment moves once.
LEMMA TransactionPreserves ==
    ASSUME StoreInv, NEW t, NEW tick \in Ticks, transaction(t, tick),
           t.lease_ownership \subseteq LeaseOwnership,
           t.success \in Seq(RequestOperation), t.failure \in Seq(RequestOperation)
    PROVE  StoreInv'
<1> DEFINE verified == {o \in t.lease_ownership : Owns(o, tick)}
           succeeded == /\ \A c \in t.comparisons : CompareHolds(c)
                        /\ verified = t.lease_ownership
           ops == IF succeeded THEN t.success ELSE t.failure
           touched == PutKeys(ops) \cup DeletedKeys(ops)
           attach == [id \in LeaseIds |->
                        {p.key : p \in {q \in Puts(ops) : q.lease_id = id}}]
           nv == ApplyOperations(ops, revision + 1)
<1>1. ops \in Seq(RequestOperation)
  BY Zenon
<1>2. ValidOperations(ops, verified)
  BY Zenon DEF transaction
<1>3. /\ \/ CommitRevision(nv, Reattach(touched, attach), TransactionEvents(ops))
         \/ UNCHANGED <<revision, values, leases>>
      /\ UNCHANGED <<next_lease_id, next_fencing_token>>
  BY Zenon DEF transaction
<1>4. logical_tick' \in Ticks /\ logical_tick' >= logical_tick
  <2>1. logical_tick \in Ticks
    BY Zenon DEF StoreInv, TypeOK
  <2>2. logical_tick' = logical_tick \/ (tick >= logical_tick /\ logical_tick' = tick)
    BY Zenon DEF transaction
  <2> QED
    BY <2>1, <2>2, StoreConstants DEF Ticks
<1>5. attach \in [LeaseIds -> SUBSET Keys] /\ touched \in SUBSET Keys
  BY Zenon, <1>1, OperationTypes
<1>6. \A o \in verified : o.id \in LeaseIds /\ Live(o.id)
  BY Zenon DEF Owns, LeaseOwnership
<1>7. \A p \in Puts(ops) : p.lease_id # 0 => Live(p.lease_id)
  <2> SUFFICES ASSUME NEW p \in Puts(ops), p.lease_id # 0 PROVE Live(p.lease_id)
    BY Zenon
  <2>1. \E o \in verified : o.id = p.lease_id
    BY Zenon, <1>2 DEF ValidOperations, Puts
  <2> QED
    BY Zenon, <1>6, <2>1
<1>8. \A k \in PutKeys(ops) : \E p \in Puts(ops) : p.key = k
  BY Zenon DEF PutKeys
<1>9. \A id \in LeaseIds, k \in Keys :
         k \in attach[id] <=> \E p \in Puts(ops) : p.key = k /\ p.lease_id = id
  BY Zenon
<1>10. \A k \in Keys \ touched : nv[k] = values[k]
  BY Zenon DEF ApplyOperations
<1>11. \A k \in touched \ PutKeys(ops) : nv[k] = Absent
  BY Zenon, <1>5 DEF ApplyOperations
<1>12. \A p \in Puts(ops) : p.key \in touched /\ p.key \in Keys
  BY Zenon, <1>1, OperationTypes DEF PutKeys
<1> HIDE DEF ops, verified, attach, nv, touched
<1>13. CASE CommitRevision(nv, Reattach(touched, attach), TransactionEvents(ops))
  <2>1. revision < Int64Max
    BY Zenon, <1>13 DEF CommitRevision
  <2>2. nv \in [Keys -> KeyValue \cup {Absent}]
    BY Zenon, <1>1, <1>2, <2>1, ApplyType DEF nv, StoreInv
  <2>3. \A p \in Puts(ops) : /\ nv[p.key] \in KeyValue
                              /\ nv[p.key].mod_revision = revision + 1
                              /\ nv[p.key].create_revision <= revision + 1
                              /\ nv[p.key].lease_id = p.lease_id
    BY Zenon, <1>1, <1>2, <2>1, AppliedPut DEF nv
  <2>4. \A k \in touched : nv[k] # Absent =>
           /\ nv[k].mod_revision = revision + 1
           /\ nv[k].create_revision <= revision + 1
           /\ nv[k].lease_id # 0 => Live(nv[k].lease_id)
    BY <1>7, <1>8, <1>11, <2>3
  <2>5. \A id \in LeaseIds, k \in Keys :
           k \in attach[id] <=> k \in touched /\ nv[k] # Absent /\ nv[k].lease_id = id
    <3> SUFFICES ASSUME NEW id \in LeaseIds, NEW k \in Keys
                 PROVE  (\E p \in Puts(ops) : p.key = k /\ p.lease_id = id)
                        <=> k \in touched /\ nv[k] # Absent /\ nv[k].lease_id = id
      BY <1>9
    <3>1. ASSUME NEW p \in Puts(ops), p.key = k, p.lease_id = id
          PROVE  k \in touched /\ nv[k] # Absent /\ nv[k].lease_id = id
      BY Zenon, <1>12, <2>3, <3>1, AbsentIsNoRecord
    <3>2. ASSUME k \in touched, nv[k] # Absent, nv[k].lease_id = id
          PROVE  \E p \in Puts(ops) : p.key = k /\ p.lease_id = id
      BY <1>8, <1>11, <2>3, <3>2
    <3> QED
      BY Zenon, <3>1, <3>2
  <2>6. UNCHANGED <<next_lease_id, next_fencing_token>>
    BY Zenon, <1>3
  <2> QED
    BY <1>4, <1>5, <1>10, <1>13, <2>2, <2>4, <2>5, <2>6, RewritePreserves
<1>14. CASE UNCHANGED <<revision, values, leases>>
  <2>1. TypeOK' /\ SnapshotAccepted'
    BY Zenon, <1>3, <1>4, <1>14
       DEF StoreInv, TypeOK, SnapshotAccepted, LiveLeases, Live, Present,
           Removable, Detachable
  <2>2. DeadlineWithinTtl'
    <3> SUFFICES ASSUME NEW id \in LiveLeases
                 PROVE  leases[id].expiry_tick <= logical_tick' + leases[id].granted_ttl
      BY Zenon, <1>14 DEF DeadlineWithinTtl, LiveLeases, Live
    <3>1. leases[id] \in StoredLease
      BY Zenon DEF LiveLeases, Live, StoreInv, TypeOK
    <3> QED
      BY <1>4, <3>1, StoreConstants DEF StoreInv, DeadlineWithinTtl, StoredLease, TypeOK, Ticks
  <2> QED
    BY <2>1, <2>2 DEF StoreInv
<1> QED
  BY Zenon, <1>3, <1>13, <1>14

\* Lease IDs are bounded, so the live leases can be counted.
LEMMA FiniteLeases == IsFiniteSet(LiveLeases)
<1>1. maximum_lease_id \in Int
  BY WatchConstants DEF maximum_lease_id
<1>2. IsFiniteSet(LeaseIds)
  BY <1>1, FS_Interval DEF LeaseIds
<1>3. LiveLeases \subseteq LeaseIds
  BY Zenon DEF LiveLeases
<1> QED
  BY <1>2, <1>3, FS_Subset

\* grant_lease: the new lease is behind both counters and holds no key.
LEMMA GrantPreserves ==
    ASSUME StoreInv, NEW requested \in {0} \cup LeaseIds, NEW ttl \in 1..Uint64Max,
           NEW tick \in Ticks, grant_lease(requested, ttl, tick)
    PROVE  StoreInv'
<1> DEFINE id == IF requested = 0 THEN next_lease_id ELSE requested
           lease == [fencing_token |-> next_fencing_token, granted_ttl |-> ttl,
                     expiry_tick |-> tick + ttl, attached_keys |-> {}]
<1>1. TypeOK'
  BY Zenon, GrantType DEF StoreInv
<1>2. /\ id \in LeaseIds /\ ~Live(id)
      /\ leases' = [leases EXCEPT ![id] = lease]
      /\ UNCHANGED <<revision, values>>
      /\ next_lease_id' = (IF id >= next_lease_id THEN id + 1 ELSE next_lease_id)
      /\ next_fencing_token' = next_fencing_token + 1
      /\ tick >= logical_tick /\ logical_tick' = tick
      /\ Cardinality(LiveLeases) < MaxActiveLeases
  BY Zenon DEF grant_lease
<1>3. /\ lease.fencing_token = next_fencing_token /\ lease.granted_ttl = ttl
      /\ lease.expiry_tick = tick + ttl /\ lease.attached_keys = {}
  BY Zenon
<1>4. lease # Absent
  <2>1. tick + ttl \in Ticks
    BY StoreConstants DEF grant_lease, Ticks
  <2>2. lease \in StoredLease
    BY Zenon, <2>1 DEF StoredLease, StoreInv, TypeOK
  <2> QED
    BY Zenon, <2>2, AbsentIsNoRecord
<1> HIDE DEF id, lease
<1>5. AttachmentIndexConsistent /\ CountersAhead /\ LeasesWithinLimit /\ MetadataOrdered
  BY Zenon, SnapshotParts DEF StoreInv
<1>6. /\ LiveLeases' = LiveLeases \cup {id} /\ leases'[id] = lease
      /\ \A j \in LiveLeases : j # id /\ leases'[j] = leases[j]
  BY Zenon, <1>2, <1>4 DEF LiveLeases, Live, StoreInv, TypeOK
<1>7. LeasesWithinLimit'
  <2>1. IsFiniteSet(LiveLeases)
    BY Zenon, FiniteLeases
  <2>2. Cardinality(LiveLeases') = Cardinality(LiveLeases) + 1
    BY Zenon, <1>2, <1>6, <2>1, FS_AddElement DEF LiveLeases
  <2>3. Cardinality(LiveLeases) \in Nat
    BY Zenon, <2>1, FS_CardinalityType
  <2> QED
    BY <1>2, <2>2, <2>3, StoreConstants DEF LeasesWithinLimit
<1>8. CountersAhead'
  <2> SUFFICES ASSUME NEW j \in LiveLeases'
               PROVE  j < next_lease_id' /\ leases'[j].fencing_token < next_fencing_token'
    BY Zenon DEF CountersAhead
  <2>1. next_lease_id \in Nat /\ next_fencing_token \in Nat /\ id \in Nat
    BY <1>2 DEF StoreInv, TypeOK, LeaseIds
  <2>2. CASE j = id
    BY <1>2, <1>3, <1>6, <2>1, <2>2
  <2>3. CASE j \in LiveLeases
    <3>1. j \in Nat /\ leases[j].fencing_token \in Nat
      BY <2>3 DEF LiveLeases, LeaseIds, Live, StoreInv, TypeOK, StoredLease
    <3> QED
      BY <1>2, <1>5, <1>6, <2>1, <2>3, <3>1 DEF CountersAhead
  <2> QED
    BY Zenon, <1>6, <2>2, <2>3
<1>9. MetadataOrdered'
  BY Zenon, <1>2, <1>5 DEF MetadataOrdered, Present
<1>10. AttachmentIndexConsistent'
  <2>1. \A j \in LiveLeases' : Removable(j)'
    BY <1>2, <1>3, <1>5, <1>6 DEF AttachmentIndexConsistent, Removable, Present
  <2>2. \A k \in Keys : Present(k) /\ values[k].lease_id # 0 => values[k].lease_id \in LiveLeases
    BY <1>5 DEF AttachmentIndexConsistent, Detachable, LiveLeases, StoreInv, TypeOK,
                KeyValue, Present
  <2>3. \A k \in Keys : Detachable(k)'
    BY Zenon, <1>2, <1>5, <1>6, <2>2 DEF AttachmentIndexConsistent, Detachable, Present, Live,
       LiveLeases
  <2> QED
    BY Zenon, <2>1, <2>3 DEF AttachmentIndexConsistent
<1>11. DeadlineWithinTtl'
  <2> SUFFICES ASSUME NEW j \in LiveLeases'
               PROVE  leases'[j].expiry_tick <= tick + leases'[j].granted_ttl
    BY <1>2 DEF DeadlineWithinTtl
  <2>1. CASE j = id
    BY <1>3, <1>6, <2>1, StoreConstants DEF Ticks
  <2>2. CASE j \in LiveLeases
    <3>1. leases[j] \in StoredLease
      BY Zenon, <2>2 DEF LiveLeases, Live, StoreInv, TypeOK
    <3>2. leases[j].expiry_tick <= logical_tick + leases[j].granted_ttl
      BY Zenon, <2>2 DEF StoreInv, DeadlineWithinTtl
    <3>3. leases[j].expiry_tick \in Nat /\ leases[j].granted_ttl \in Nat
      BY <3>1, StoreConstants DEF StoredLease, Ticks
    <3>4. logical_tick \in Nat /\ tick \in Nat
      BY StoreConstants DEF Ticks, StoreInv, TypeOK
    <3>5. leases'[j] = leases[j] \/ j = id
      BY Zenon, <1>6, <2>2
    <3> QED
      BY <1>2, <2>1, <3>2, <3>3, <3>4, <3>5
  <2> QED
    BY Zenon, <1>6, <2>1, <2>2
<1>12. SnapshotAccepted'
  BY <1>1, <1>7, <1>8, <1>9, <1>10, SnapshotParts, PTL
<1> QED
  BY <1>1, <1>11, <1>12 DEF StoreInv

\* A renewed lease keeps its ID, token, TTL and keys.
LEMMA KeepAlivePreserves ==
    ASSUME StoreInv, NEW id \in LeaseIds, NEW token \in 1..Uint64Max,
           NEW tick \in Ticks, keep_alive(id, token, tick)
    PROVE  StoreInv'
<1>1. TypeOK'
  BY KeepAliveType DEF StoreInv
<1>2. /\ UNCHANGED <<revision, values, next_lease_id, next_fencing_token>>
      /\ tick >= logical_tick /\ logical_tick' = tick
  BY Zenon DEF keep_alive
<1>3. AttachmentIndexConsistent /\ CountersAhead /\ LeasesWithinLimit /\ MetadataOrdered
  BY Zenon, SnapshotParts DEF StoreInv
<1>4. \A j \in LeaseIds :
         /\ Live(j)' <=> Live(j)
         /\ Live(j) => /\ leases'[j].fencing_token = leases[j].fencing_token
                       /\ leases'[j].granted_ttl = leases[j].granted_ttl
                       /\ leases'[j].attached_keys = leases[j].attached_keys
                       /\ leases'[j].expiry_tick <= tick + leases[j].granted_ttl
  <2> SUFFICES ASSUME NEW j \in LeaseIds
               PROVE  /\ Live(j)' <=> Live(j)
                      /\ Live(j) =>
                          /\ leases'[j].fencing_token = leases[j].fencing_token
                          /\ leases'[j].granted_ttl = leases[j].granted_ttl
                          /\ leases'[j].attached_keys = leases[j].attached_keys
                          /\ leases'[j].expiry_tick <= tick + leases[j].granted_ttl
    BY Zenon
  <2>1. Live(j) => leases[j] \in StoredLease
    BY Zenon DEF Live, StoreInv, TypeOK
  <2>2. CASE leases'[j] = leases[j]
    <3>1. Live(j) => leases[j].expiry_tick <= logical_tick + leases[j].granted_ttl
      BY Zenon DEF StoreInv, DeadlineWithinTtl, LiveLeases
    <3>2. Live(j) => leases[j].expiry_tick \in Nat /\ leases[j].granted_ttl \in Nat
      BY <2>1, StoreConstants DEF StoredLease, Ticks
    <3>3. logical_tick \in Nat /\ tick \in Nat
      BY StoreConstants DEF Ticks, StoreInv, TypeOK
    <3>4. Live(j) => leases[j].expiry_tick <= tick + leases[j].granted_ttl
      BY <1>2, <3>1, <3>2, <3>3
    <3> QED
      BY Zenon, <2>2, <3>4 DEF Live
  <2>3. CASE j = id /\ Live(id) /\ tick <= Uint64Max - leases[id].granted_ttl
              /\ leases' = [leases EXCEPT ![id].expiry_tick = tick + leases[id].granted_ttl]
    <3>1. leases'[j] = [leases[j] EXCEPT !.expiry_tick = tick + leases[j].granted_ttl]
      BY <2>3 DEF StoreInv, TypeOK
    <3>2. leases'[j] # Absent
      <4>1. tick + leases[j].granted_ttl \in Ticks
        BY <2>1, <2>3, StoreConstants DEF StoredLease, Ticks
      <4>2. leases'[j] \in StoredLease
        BY <2>1, <2>3, <3>1, <4>1 DEF StoredLease
      <4> QED
        BY Zenon, <4>2, AbsentIsNoRecord
    <3> QED
      BY <2>1, <2>3, <3>1, <3>2, StoreConstants DEF Live, StoredLease, Ticks
  <2> QED
    BY Zenon, <2>2, <2>3 DEF keep_alive, Owns, StoreInv, TypeOK
<1>5. LiveLeases' = LiveLeases
  BY <1>4 DEF LiveLeases
<1>6. LeasesWithinLimit' /\ MetadataOrdered' /\ CountersAhead'
  BY Zenon, <1>2, <1>3, <1>4, <1>5
     DEF LeasesWithinLimit, MetadataOrdered, CountersAhead, Present, LiveLeases
<1>7. \A j \in LiveLeases' : Removable(j)'
  BY <1>2, <1>3, <1>4, <1>5 DEF AttachmentIndexConsistent, Removable, Present, LiveLeases
<1>8. \A k \in Keys : Detachable(k)'
  <2>1. \A k \in Keys : Present(k) /\ values[k].lease_id # 0 => values[k].lease_id \in LeaseIds
    BY Zenon DEF StoreInv, TypeOK, KeyValue, Present
  <2> QED
    BY <1>2, <1>3, <1>4, <2>1 DEF AttachmentIndexConsistent, Detachable, Present, Live
<1>9. AttachmentIndexConsistent'
  BY Zenon, <1>7, <1>8 DEF AttachmentIndexConsistent
<1>10. DeadlineWithinTtl'
  BY Zenon, <1>2, <1>4, <1>5 DEF DeadlineWithinTtl, LiveLeases
<1>11. SnapshotAccepted'
  BY <1>1, <1>6, <1>9, SnapshotParts, PTL
<1> QED
  BY <1>1, <1>10, <1>11 DEF StoreInv

\* Removing leases with exactly their attached keys, as one revision.
LEMMA RemovePreserves ==
    ASSUME StoreInv, NEW ids \in SUBSET LiveLeases, NEW tick \in Ticks,
           remove_leases_locked(ids), tick >= logical_tick, logical_tick' = tick,
           UNCHANGED <<next_lease_id, next_fencing_token>>
    PROVE  StoreInv'
<1> DEFINE deleted == AttachedKeys(ids)
           nv == [k \in Keys |-> IF k \in deleted THEN Absent ELSE values[k]]
           nl == [id \in LeaseIds |-> IF id \in ids THEN Absent ELSE leases[id]]
<1>1. TypeOK'
  BY Zenon, RemoveType DEF StoreInv, LiveLeases
<1>2. AttachmentIndexConsistent /\ CountersAhead /\ LeasesWithinLimit /\ MetadataOrdered
  BY Zenon, SnapshotParts DEF StoreInv
<1>3. /\ values' = nv /\ leases' = nl
      /\ revision' \in {revision, revision + 1}
  <2>1. CASE ids # {}
    BY Zenon, <2>1 DEF remove_leases_locked, CommitRevision
  <2>2. CASE ids = {}
    BY Zenon, <2>2 DEF remove_leases_locked, AttachedKeys, StoreInv, TypeOK
  <2> QED
    BY Zenon, <2>1, <2>2
<1>4. \A k \in Keys : k \in deleted <=>
         \E id \in ids : k \in leases[id].attached_keys
  BY Zenon DEF AttachedKeys
<1> HIDE DEF deleted
<1>5. /\ LiveLeases' = LiveLeases \ ids
      /\ \A id \in LiveLeases' : leases'[id] = leases[id]
  BY Zenon, <1>3 DEF LiveLeases, Live
<1>6. \A k \in Keys : Present(k)' => /\ Present(k) /\ k \notin deleted
                                     /\ values'[k] = values[k]
  BY Zenon, <1>3 DEF Present
<1>7. LeasesWithinLimit'
  <2>1. Cardinality(LiveLeases \ ids) <= Cardinality(LiveLeases)
    BY Zenon, FiniteLeases, FS_Subset, FS_CardinalityType
  <2>2. IsFiniteSet(LiveLeases \ ids)
    BY Zenon, FiniteLeases, FS_Subset
  <2>3. Cardinality(LiveLeases \ ids) \in Nat /\ Cardinality(LiveLeases) \in Nat
    BY Zenon, <2>2, FiniteLeases, FS_CardinalityType
  <2> QED
    BY <1>2, <1>5, <2>1, <2>3, StoreConstants DEF LeasesWithinLimit
<1>8. CountersAhead'
  BY Zenon, <1>2, <1>5 DEF CountersAhead
<1>9. MetadataOrdered'
  <2> SUFFICES ASSUME NEW k \in Keys, Present(k)'
               PROVE  /\ values'[k].create_revision <= values'[k].mod_revision
                      /\ values'[k].mod_revision <= revision'
    BY DEF MetadataOrdered
  <2>1. Present(k) /\ values'[k] = values[k] /\ values[k] \in KeyValue
    BY Zenon, <1>6 DEF StoreInv, TypeOK, Present
  <2> QED
    BY <1>2, <1>3, <2>1, WatchConstants DEF MetadataOrdered, KeyValue, StoreInv, TypeOK
<1>10. \A id \in LiveLeases' : Removable(id)'
  <2> SUFFICES ASSUME NEW id \in LiveLeases', NEW k \in leases'[id].attached_keys
               PROVE  Present(k)' /\ values'[k].lease_id = id
    BY Zenon DEF Removable
  <2>1. /\ id \in LiveLeases /\ id \notin ids /\ k \in leases[id].attached_keys
        /\ leases[id] \in StoredLease
    BY Zenon, <1>5 DEF LiveLeases, Live, StoreInv, TypeOK
  <2>2. k \in Keys /\ Present(k) /\ values[k].lease_id = id
    BY Zenon, <1>2, <2>1 DEF AttachmentIndexConsistent, Removable, StoredLease
  <2>3. k \notin deleted
    BY <1>2, <1>4, <2>1, <2>2 DEF AttachmentIndexConsistent, Removable
  <2> QED
    BY Zenon, <1>3, <2>2, <2>3 DEF Present
<1>11. \A k \in Keys : Detachable(k)'
  <2> SUFFICES ASSUME NEW k \in Keys, Present(k)', NEW id \in LeaseIds,
                      values'[k].lease_id = id
               PROVE  leases'[id] # Absent /\ k \in leases'[id].attached_keys
    <3>1. \A k \in Keys : Present(k)' /\ values'[k].lease_id # 0
             => values'[k].lease_id \in LeaseIds
      BY Zenon, <1>1 DEF TypeOK, KeyValue, Present
    <3> QED
      BY Zenon, <3>1 DEF Detachable, Live
  <2>1. Present(k) /\ k \notin deleted /\ values[k].lease_id = id
    BY Zenon, <1>6
  <2>2. Live(id) /\ k \in leases[id].attached_keys
    BY <1>2, <2>1 DEF AttachmentIndexConsistent, Detachable, LeaseIds
  <2>3. id \notin ids
    BY Zenon, <1>4, <2>1, <2>2
  <2> QED
    BY Zenon, <1>3, <2>2, <2>3 DEF Live
<1>12. AttachmentIndexConsistent'
  BY Zenon, <1>10, <1>11 DEF AttachmentIndexConsistent
<1>13. DeadlineWithinTtl'
  <2> SUFFICES ASSUME NEW id \in LiveLeases'
               PROVE  leases'[id].expiry_tick <= tick + leases'[id].granted_ttl
    BY DEF DeadlineWithinTtl
  <2>1. id \in LiveLeases /\ leases'[id] = leases[id] /\ leases[id] \in StoredLease
    BY Zenon, <1>5 DEF LiveLeases, Live, StoreInv, TypeOK
  <2>2. leases[id].expiry_tick <= logical_tick + leases[id].granted_ttl
    BY Zenon, <2>1 DEF StoreInv, DeadlineWithinTtl
  <2> QED
    BY <2>1, <2>2, StoreConstants DEF StoredLease, Ticks, StoreInv, TypeOK
<1>14. SnapshotAccepted'
  BY <1>1, <1>7, <1>8, <1>9, <1>12, SnapshotParts, PTL
<1> QED
  BY <1>1, <1>13, <1>14 DEF StoreInv

-----------------------------------------------------------------------------

\* Every constructor establishes the invariant.
LEMMA StoreInvInit == Init => StoreInv
<1> SUFFICES ASSUME Init PROVE StoreInv
  OBVIOUS
<1>1. TypeOK
  BY WatchConstants, StoreConstants DEF Init, TypeOK, Ticks
<1>2. LiveLeases = {}
  BY Zenon DEF Init, LiveLeases, Live
<1>3. LeasesWithinLimit
  BY <1>2, FS_EmptySet, StoreConstants DEF LeasesWithinLimit
<1>4. \A k \in Keys : Present(k) =>
         /\ values[k].create_revision <= values[k].mod_revision
         /\ values[k].mod_revision <= revision
         /\ values[k].lease_id = 0
  BY Zenon DEF Init, InitialAccepted, Present
<1>5. AttachmentIndexConsistent /\ CountersAhead /\ MetadataOrdered /\ DeadlineWithinTtl
  BY Zenon, <1>2, <1>4 DEF AttachmentIndexConsistent, CountersAhead, MetadataOrdered,
                    DeadlineWithinTtl, Detachable
<1> QED
  BY <1>1, <1>3, <1>5, SnapshotParts DEF StoreInv

\* Every operation preserves the invariant.
LEMMA StoreInvNext == StoreInv /\ [Next]_vars => StoreInv'
<1> SUFFICES ASSUME StoreInv, [Next]_vars PROVE StoreInv'
  BY Zenon
<1>1. ASSUME NEW k \in Keys, NEW v \in Values, put(k, v) PROVE StoreInv'
  BY <1>1, PutPreserves DEF put
<1>2. ASSUME NEW k \in Keys, erase(k) PROVE StoreInv'
  BY Zenon, <1>2, ErasePreserves
<1>3. ASSUME NEW k \in Keys, NEW v \in Values, NEW r \in 0..Int64Max,
             compare_and_set(k, r, v)
      PROVE  StoreInv'
  BY Zenon, <1>3, PutPreserves DEF compare_and_set
<1>4. ASSUME NEW t \in Transactions,
             NEW tick \in IF t.lease_ownership = {} THEN {0} ELSE Ticks,
             transaction(t, tick)
      PROVE  StoreInv'
  <2>1. tick \in Ticks
    BY StoreConstants DEF Ticks
  <2>2. /\ t.lease_ownership \subseteq LeaseOwnership
        /\ t.success \in Seq(RequestOperation) /\ t.failure \in Seq(RequestOperation)
    BY Zenon, StoreConstants
  <2> QED
    BY Zenon, <1>4, <2>1, <2>2, TransactionPreserves
<1>5. ASSUME NEW id \in {0} \cup LeaseIds, NEW ttl \in 1..Uint64Max,
             NEW tick \in Ticks, grant_lease(id, ttl, tick)
      PROVE  StoreInv'
  BY Zenon, <1>5, GrantPreserves
<1>6. ASSUME NEW id \in LeaseIds, NEW token \in 1..Uint64Max, NEW tick \in Ticks,
             keep_alive(id, token, tick)
      PROVE  StoreInv'
  BY Zenon, <1>6, KeepAlivePreserves
<1>7. ASSUME NEW id \in LeaseIds, NEW token \in 1..Uint64Max, NEW tick \in Ticks,
             revoke_lease(id, token, tick)
      PROVE  StoreInv'
  BY Zenon, <1>7, RemovalForms, RemovePreserves DEF StoreInv
<1>8. ASSUME NEW tick \in Ticks, expire_leases(tick) PROVE StoreInv'
  BY Zenon, <1>8, RemovalForms, RemovePreserves DEF StoreInv
<1>9. CASE UNCHANGED <<revision, values, leases, leaseVars>>
  BY Zenon, <1>9 DEF leaseVars, StoreInv, TypeOK, SnapshotAccepted, DeadlineWithinTtl,
              LiveLeases, Live, Present, Removable, Detachable
<1>10. CASE WatchOperation
  BY <1>9, <1>10 DEF WatchOperation, create_watch, poll_watch,
                     request_watch_progress, cancel_watch
<1>11. CASE RestoreSnapshot
  BY <1>9, <1>11 DEF RestoreSnapshot
<1>12. CASE UNCHANGED vars
  BY Zenon, <1>9, <1>12 DEF vars
<1> QED
  BY Zenon, <1>1, <1>2, <1>3, <1>4, <1>5, <1>6, <1>7, <1>8, <1>10, <1>11, <1>12
     DEF Next, Mutation, LeaseOperation

\* The invariant holds in every reachable state.
LEMMA StoreInvariant == Spec => []StoreInv
  BY StoreInvInit, StoreInvNext, PTL DEF Spec

(***************************************************************************)
(* Every field of the store keeps its type: no counter, tick, revision or  *)
(* version ever leaves the range of its 64-bit type.                       *)
(***************************************************************************)
THEOREM TypeCorrect == Spec => []TypeOK
<1>1. StoreInv => TypeOK
  BY DEF StoreInv
<1> QED
  BY <1>1, StoreInvariant, PTL

(***************************************************************************)
(* The constructor accepts every snapshot() of a running store.            *)
(***************************************************************************)
THEOREM SnapshotsRestore == Spec => []EverySnapshotRestores
<1>1. StoreInv => EverySnapshotRestores
  BY DEF StoreInv, EverySnapshotRestores
<1> QED
  BY <1>1, StoreInvariant, PTL

(***************************************************************************)
(* The attachment index and the key records always agree, so none of the   *)
(* std::logic_error checks on it can fire.                                 *)
(***************************************************************************)
THEOREM AttachmentsAgree == Spec => []AttachmentIndexConsistent
<1>1. StoreInv => AttachmentIndexConsistent
  BY SnapshotParts DEF StoreInv
<1> QED
  BY <1>1, StoreInvariant, PTL

-----------------------------------------------------------------------------
(***************************************************************************)
(* What one step may do to one lease: keep its generation, moving at most  *)
(* the deadline and only from before it, or start a generation whose token *)
(* was never issued before.                                                *)
(***************************************************************************)
LeaseEvolves(id) ==
    \/ ~Live(id)'
    \/ /\ Live(id)
       /\ leases'[id].fencing_token = leases[id].fencing_token
       /\ \/ leases'[id].expiry_tick = leases[id].expiry_tick
          \/ /\ logical_tick <= logical_tick'
             /\ logical_tick' < leases[id].expiry_tick
             /\ leases'[id].expiry_tick = logical_tick' + leases[id].granted_ttl
    \/ /\ ~Live(id)
       /\ leases'[id].fencing_token = next_fencing_token

\* What any step may do to a lease: keep it, extend it, end it, or grant it anew.
LEMMA LeasesEvolve ==
    ASSUME StoreInv, [Next]_vars
    PROVE  /\ next_fencing_token' >= next_fencing_token
           /\ \A id \in LeaseIds : LeaseEvolves(id)
<1> DEFINE Goal == /\ next_fencing_token' >= next_fencing_token
                   /\ \A id \in LeaseIds : LeaseEvolves(id)
<1> SUFFICES Goal
  OBVIOUS
<1>1. ASSUME NEW T, NEW attach \in [LeaseIds -> SUBSET Keys],
             leases' = Reattach(T, attach), UNCHANGED next_fencing_token
      PROVE  Goal
  <2>1. next_fencing_token' >= next_fencing_token
    <3>1. next_fencing_token \in 1..Uint64Max
      BY DEF StoreInv, TypeOK
    <3> QED
      BY <1>1, <3>1, StoreConstants
  <2>2. TypeOK
    BY DEF StoreInv
  <2>3. ASSUME NEW id \in LeaseIds PROVE LeaseEvolves(id)
    BY Zenon, <1>1, <2>2, ReattachKeeps DEF LeaseEvolves
  <2> QED
    BY <2>1, <2>3
<1>2. ASSUME UNCHANGED <<leases, next_fencing_token>> PROVE Goal
  BY <1>2 DEF LeaseEvolves, StoreInv, TypeOK, Live
<1>3. ASSUME NEW k \in Keys, NEW v \in Values, put_locked(k, v) PROVE Goal
  BY Zenon, <1>1, <1>3, NoKeysType DEF put_locked, CommitRevision, leaseVars
<1>4. ASSUME NEW k \in Keys, erase(k) PROVE Goal
  BY Zenon, <1>1, <1>4, NoKeysType DEF erase, CommitRevision, leaseVars
<1>5. ASSUME NEW t \in Transactions, NEW tick, transaction(t, tick) PROVE Goal
  <2> DEFINE verified == {o \in t.lease_ownership : Owns(o, tick)}
             succeeded == /\ \A c \in t.comparisons : CompareHolds(c)
                          /\ verified = t.lease_ownership
             ops == IF succeeded THEN t.success ELSE t.failure
             touched == PutKeys(ops) \cup DeletedKeys(ops)
             attach == [id \in LeaseIds |->
                          {p.key : p \in {q \in Puts(ops) : q.lease_id = id}}]
  <2>1. /\ leases' = Reattach(touched, attach) \/ UNCHANGED leases
        /\ UNCHANGED next_fencing_token
    BY Zenon, <1>5 DEF transaction, CommitRevision
  <2>2. ops \in Seq(RequestOperation)
    BY Zenon, StoreConstants
  <2>3. attach \in [LeaseIds -> SUBSET Keys]
    BY Zenon, <2>2, OperationTypes
  <2> HIDE DEF attach, touched
  <2> QED
    BY Zenon, <1>1, <1>2, <2>1, <2>3
<1>6. ASSUME NEW r \in {0} \cup LeaseIds, NEW ttl \in 1..Uint64Max,
             NEW tick \in Ticks, grant_lease(r, ttl, tick)
      PROVE  Goal
  <2> DEFINE id == IF r = 0 THEN next_lease_id ELSE r
             lease == [fencing_token |-> next_fencing_token, granted_ttl |-> ttl,
                       expiry_tick |-> tick + ttl, attached_keys |-> {}]
  <2>1. /\ id \in LeaseIds /\ ~Live(id)
        /\ leases' = [leases EXCEPT ![id] = lease]
        /\ lease.fencing_token = next_fencing_token
        /\ next_fencing_token' = next_fencing_token + 1
    BY Zenon, <1>6 DEF grant_lease
  <2> HIDE DEF id, lease
  <2>2. next_fencing_token' >= next_fencing_token
    BY <2>1 DEF StoreInv, TypeOK
  <2>3. \A j \in LeaseIds : LeaseEvolves(j)
    BY Zenon, <2>1 DEF LeaseEvolves, Live, StoreInv, TypeOK
  <2> QED
    BY <2>2, <2>3
<1>7. ASSUME NEW id \in LeaseIds, NEW token \in 1..Uint64Max, NEW tick \in Ticks,
             keep_alive(id, token, tick)
      PROVE  Goal
  <2>1. UNCHANGED next_fencing_token /\ tick >= logical_tick /\ logical_tick' = tick
    BY <1>7 DEF keep_alive
  <2>2. CASE UNCHANGED leases
    BY <1>2, <2>1, <2>2
  <2>3. CASE /\ Live(id) /\ tick < leases[id].expiry_tick
             /\ leases' = [leases EXCEPT ![id].expiry_tick = tick + leases[id].granted_ttl]
    <3>1. leases[id] \in StoredLease
      BY <2>3 DEF Live, StoreInv, TypeOK
    <3>2. leases'[id] = [leases[id] EXCEPT !.expiry_tick = tick + leases[id].granted_ttl]
      BY <2>3 DEF StoreInv, TypeOK
    <3>3. /\ leases'[id].fencing_token = leases[id].fencing_token
          /\ leases'[id].expiry_tick = tick + leases[id].granted_ttl
      BY <3>1, <3>2 DEF StoredLease
    <3>4. LeaseEvolves(id)
      BY Zenon, <2>1, <2>3, <3>3, StoreConstants DEF LeaseEvolves, StoreInv, TypeOK, Ticks
    <3>5. \A j \in LeaseIds \ {id} : LeaseEvolves(j)
      BY <2>3 DEF LeaseEvolves, Live, StoreInv, TypeOK
    <3>6. next_fencing_token' >= next_fencing_token
      BY <2>1 DEF StoreInv, TypeOK
    <3> QED
      BY <3>4, <3>5, <3>6
  <2> QED
    BY <1>7, <2>2, <2>3 DEF keep_alive, Owns
<1>8. ASSUME NEW ids \in SUBSET LiveLeases, remove_leases_locked(ids),
             UNCHANGED <<next_lease_id, next_fencing_token>>
      PROVE  Goal
  <2>1. CASE UNCHANGED leases
    BY <1>2, <1>8, <2>1
  <2>2. CASE leases' = [id \in LeaseIds |-> IF id \in ids THEN Absent ELSE leases[id]]
    BY <1>8, <2>2 DEF LeaseEvolves, Live, StoreInv, TypeOK
  <2> QED
    BY Zenon, <1>8, <2>1, <2>2 DEF remove_leases_locked, CommitRevision
<1>9. ASSUME NEW id \in LeaseIds, NEW token \in 1..Uint64Max, NEW tick \in Ticks,
             revoke_lease(id, token, tick)
      PROVE  Goal
  BY <1>8, <1>9, RemovalForms DEF StoreInv
<1>10. ASSUME NEW tick \in Ticks, expire_leases(tick) PROVE Goal
  BY <1>8, <1>10, RemovalForms DEF StoreInv
<1>11. CASE WatchOperation \/ RestoreSnapshot \/ UNCHANGED vars
  BY <1>2, <1>11 DEF WatchOperation, RestoreSnapshot, vars, leaseVars
<1> HIDE DEF Goal
<1>12. CASE Mutation
  BY Zenon, <1>3, <1>4, <1>5, <1>12 DEF Mutation, put, compare_and_set
<1>13. CASE LeaseOperation
  BY Zenon, <1>6, <1>7, <1>9, <1>10, <1>13 DEF LeaseOperation
<1> QED
  BY <1>11, <1>12, <1>13 DEF Next

(***************************************************************************)
(* A fencing token that has lost its lease never owns one again.           *)
(***************************************************************************)
THEOREM GenerationsNeverReturn == Spec => NoGenerationReturns
<1>1. StoreInv /\ [Next]_vars =>
        [/\ next_fencing_token' >= next_fencing_token
         /\ \A id \in LeaseIds, token \in 1..Uint64Max :
              token < next_fencing_token /\ ~Generation(id, token)
                => ~Generation(id, token)']_vars
  <2> SUFFICES ASSUME StoreInv, [Next]_vars,
                      NEW id \in LeaseIds, NEW token \in 1..Uint64Max,
                      token < next_fencing_token, ~Generation(id, token),
                      Generation(id, token)'
               PROVE  FALSE
    BY LeasesEvolve
  <2>1. LeaseEvolves(id)
    BY LeasesEvolve
  <2> QED
    BY <2>1 DEF LeaseEvolves, Generation, StoreInv, TypeOK
<1> QED
  BY <1>1, StoreInvariant, PTL DEF Spec, NoGenerationReturns

(***************************************************************************)
(* No sequence of operations shortens a lease that is alive, and none      *)
(* revives one that has passed its deadline.                               *)
(***************************************************************************)
THEOREM DeadlinesNeverMoveBack == Spec => DeadlineNeverMovesBack
<1>1. StoreInv /\ [Next]_vars =>
        [\A id \in LeaseIds :
           Live(id) /\ Generation(id, leases[id].fencing_token)' =>
             /\ leases'[id].expiry_tick >= leases[id].expiry_tick
             /\ leases[id].expiry_tick <= logical_tick =>
                  leases'[id].expiry_tick = leases[id].expiry_tick]_vars
  <2> SUFFICES ASSUME StoreInv, [Next]_vars, NEW id \in LeaseIds,
                      Live(id), Live(id)'
               PROVE  /\ leases'[id].expiry_tick >= leases[id].expiry_tick
                      /\ leases[id].expiry_tick <= logical_tick =>
                           leases'[id].expiry_tick = leases[id].expiry_tick
    BY Zenon DEF Generation
  <2>1. LeaseEvolves(id)
    BY LeasesEvolve
  <2>2. leases[id] \in StoredLease
    BY Zenon DEF StoreInv, TypeOK, Live
  <2>3. leases[id].expiry_tick <= logical_tick + leases[id].granted_ttl
    BY Zenon DEF StoreInv, DeadlineWithinTtl, LiveLeases
  <2>4. logical_tick' \in Ticks /\ logical_tick \in Ticks
    BY Zenon, StoreInvNext DEF StoreInv, TypeOK
  <2>5. /\ logical_tick' \in Nat /\ logical_tick \in Nat
        /\ leases[id].expiry_tick \in Nat /\ leases[id].granted_ttl \in Nat
    BY <2>2, <2>4, StoreConstants DEF StoredLease, Ticks
  <2>6. \/ leases'[id].expiry_tick = leases[id].expiry_tick
        \/ /\ logical_tick <= logical_tick'
           /\ logical_tick' < leases[id].expiry_tick
           /\ leases'[id].expiry_tick = logical_tick' + leases[id].granted_ttl
    BY Zenon, <2>1 DEF LeaseEvolves
  <2> QED
    BY <2>3, <2>5, <2>6
<1> QED
  BY <1>1, StoreInvariant, PTL DEF Spec, DeadlineNeverMovesBack

-----------------------------------------------------------------------------
(***************************************************************************)
(* What one step does.  StepForms sorts the operations into three forms:   *)
(* those that rewrite keys at the next revision, those that remove leases, *)
(* and those that leave keys and revision alone.  The theorems follow from *)
(* the forms.                                                              *)
(***************************************************************************)

\* Key k is written at the next revision, under no lease or an unexpired one.
Written(k, new) ==
    \E v \in Values, id \in {0} \cup LeaseIds :
       /\ new = PutValue(k, v, id, revision + 1)
       /\ new \in KeyValue
       /\ id # 0 => Live(id) /\ logical_tick' < leases[id].expiry_tick

\* put, erase, compare_and_set, and a transaction that touches a key.
Rewrite ==
    \E T \in SUBSET Keys, nv \in [Keys -> KeyValue \cup {Absent}],
       attach \in [LeaseIds -> SUBSET Keys], events \in SUBSET Event :
       /\ CommitRevision(nv, Reattach(T, attach), events)
       /\ \A k \in Keys \ T : nv[k] = values[k]
       /\ \A k \in T : nv[k] = Absent \/ Written(k, nv[k])

\* revoke_lease and expire_leases.
Removal == \E ids \in SUBSET LiveLeases : remove_leases_locked(ids)

\* Everything else: grants, renewals, watches, a restart, a stutter.
Upkeep ==
    /\ UNCHANGED <<revision, values>>
    /\ \A id \in LiveLeases : leases'[id] # Absent
    /\ UNCHANGED <<history, compact_revision>> \/ ResetHub

-----------------------------------------------------------------------------

\* put and compare_and_set rewrite one key.
LEMMA PutForm ==
    ASSUME StoreInv, NEW k \in Keys, NEW v \in Values, put_locked(k, v)
    PROVE  Rewrite
<1> DEFINE pv == PutValue(k, v, 0, revision + 1)
           nv == [values EXCEPT ![k] = pv]
           events == {[type |-> "put", key |-> k]}
<1>1. CommitRevision(nv, Reattach({k}, NoKeys), events)
  BY DEF put_locked
<1>2. pv \in KeyValue
  BY PutValueType DEF StoreInv, put_locked, CommitRevision
<1>3. Written(k, pv)
  BY <1>2 DEF Written
<1> HIDE DEF pv
<1>4. /\ nv \in [Keys -> KeyValue \cup {Absent}] /\ nv[k] = pv
      /\ \A j \in Keys \ {k} : nv[j] = values[j]
  BY <1>2 DEF StoreInv, TypeOK
<1>5. events \in SUBSET Event
  BY DEF Event
<1> HIDE DEF nv, events
<1>6. \A j \in {k} : nv[j] = Absent \/ Written(j, nv[j])
  BY <1>3, <1>4
<1> QED
  BY <1>1, <1>4, <1>5, <1>6, NoKeysType DEF Rewrite

\* erase removes one key.
LEMMA EraseForm ==
    ASSUME StoreInv, NEW k \in Keys, erase(k)
    PROVE  Rewrite
<1> DEFINE nv == [values EXCEPT ![k] = Absent]
           events == {[type |-> "erase", key |-> k]}
<1>1. CommitRevision(nv, Reattach({k}, NoKeys), events)
  BY DEF erase
<1>2. /\ nv \in [Keys -> KeyValue \cup {Absent}] /\ nv[k] = Absent
      /\ \A j \in Keys \ {k} : nv[j] = values[j]
  BY DEF StoreInv, TypeOK
<1>3. events \in SUBSET Event
  BY DEF Event
<1> HIDE DEF nv, events
<1>4. \A j \in {k} : nv[j] = Absent \/ Written(j, nv[j])
  BY <1>2
<1> QED
  BY <1>1, <1>2, <1>3, <1>4, NoKeysType DEF Rewrite

(***************************************************************************)
(* A transaction rewrites the keys of its branch, the leased ones within   *)
(* the deadline of an owned lease, or touches nothing.                     *)
(***************************************************************************)
LEMMA TransactionForm ==
    ASSUME StoreInv, NEW t, NEW tick, transaction(t, tick),
           t.success \in Seq(RequestOperation), t.failure \in Seq(RequestOperation)
    PROVE  Rewrite \/ UNCHANGED <<revision, hubVars, values, leases>>
<1> DEFINE verified == {o \in t.lease_ownership : Owns(o, tick)}
           succeeded == /\ \A c \in t.comparisons : CompareHolds(c)
                        /\ verified = t.lease_ownership
           ops == IF succeeded THEN t.success ELSE t.failure
           touched == PutKeys(ops) \cup DeletedKeys(ops)
           attach == [id \in LeaseIds |->
                        {p.key : p \in {q \in Puts(ops) : q.lease_id = id}}]
           nv == ApplyOperations(ops, revision + 1)
<1>1. ops \in Seq(RequestOperation)
  OBVIOUS
<1>2. ValidOperations(ops, verified)
  BY Zenon DEF transaction
<1>3. \/ CommitRevision(nv, Reattach(touched, attach), TransactionEvents(ops))
      \/ UNCHANGED <<revision, hubVars, values, leases>>
  BY Zenon DEF transaction
<1>4. attach \in [LeaseIds -> SUBSET Keys] /\ touched \in SUBSET Keys
  BY <1>1, OperationTypes
<1>5. TransactionEvents(ops) \in SUBSET Event
  BY <1>1, OperationTypes DEF TransactionEvents, Event
<1>6. \A o \in verified : Live(o.id) /\ logical_tick' < leases[o.id].expiry_tick
  BY Zenon DEF transaction, Owns
<1> HIDE DEF ops, verified, attach
<1>7. CASE CommitRevision(nv, Reattach(touched, attach), TransactionEvents(ops))
  <2>1. revision < Int64Max
    BY <1>7 DEF CommitRevision
  <2>2. nv \in [Keys -> KeyValue \cup {Absent}]
    BY <1>1, <1>2, <2>1, ApplyType DEF StoreInv
  <2>3. \A k \in Keys \ touched : nv[k] = values[k]
    BY DEF ApplyOperations
  <2>4. ASSUME NEW k \in touched PROVE nv[k] = Absent \/ Written(k, nv[k])
    <3>1. CASE k \in PutKeys(ops)
      <4> DEFINE p == CHOOSE q \in Puts(ops) : q.key = k
      <4>1. p \in Puts(ops) /\ p.key = k
        BY <3>1 DEF PutKeys
      <4>2. nv[k] = PutValue(k, p.value, p.lease_id, revision + 1)
        BY <1>4, <3>1 DEF ApplyOperations
      <4>3. p.value \in Values /\ p.lease_id \in {0} \cup LeaseIds
        BY <1>1, <4>1, OperationTypes
      <4>4. p.lease_id # 0 => \E o \in verified : o.id = p.lease_id
        BY Zenon, <1>2, <4>1 DEF ValidOperations, Puts
      <4>5. VersionsLeft(k)
        BY Zenon, <1>2, <4>1 DEF ValidOperations, Puts
      <4> HIDE DEF p
      <4>6. nv[k] \in KeyValue
        BY Zenon, <1>4, <2>1, <4>2, <4>3, <4>5, PutValueType DEF StoreInv
      <4> HIDE DEF nv
      <4> QED
        BY Zenon, <1>6, <4>2, <4>3, <4>4, <4>6 DEF Written
    <3>2. CASE k \notin PutKeys(ops)
      BY Zenon, <1>4, <3>2 DEF ApplyOperations
    <3> QED
      BY <3>1, <3>2
  <2> HIDE DEF nv, touched
  <2> QED
    BY <1>4, <1>5, <1>7, <2>2, <2>3, <2>4 DEF Rewrite
<1> QED
  BY <1>3, <1>7

\* A grant and a renewal leave every live lease live.
LEMMA LeaseUpkeep ==
    ASSUME StoreInv,
           \/ \E id \in {0} \cup LeaseIds, ttl \in 1..Uint64Max, tick \in Ticks :
                grant_lease(id, ttl, tick)
           \/ \E id \in LeaseIds, token \in 1..Uint64Max, tick \in Ticks :
                keep_alive(id, token, tick)
    PROVE  Upkeep
<1>1. ASSUME NEW requested \in {0} \cup LeaseIds, NEW ttl \in 1..Uint64Max,
             NEW tick \in Ticks, grant_lease(requested, ttl, tick)
      PROVE  Upkeep
  <2> DEFINE id == IF requested = 0 THEN next_lease_id ELSE requested
             lease == [fencing_token |-> next_fencing_token, granted_ttl |-> ttl,
                       expiry_tick |-> tick + ttl, attached_keys |-> {}]
  <2>1. /\ id \in LeaseIds /\ ~Live(id) /\ leases' = [leases EXCEPT ![id] = lease]
        /\ UNCHANGED <<revision, hubVars, values>>
    BY Zenon, <1>1 DEF grant_lease
  <2> HIDE DEF id, lease
  <2>2. \A j \in LiveLeases : leases'[j] = leases[j] /\ leases[j] # Absent
    BY Zenon, <2>1 DEF LiveLeases, Live, StoreInv, TypeOK
  <2> QED
    BY Zenon, <2>1, <2>2 DEF Upkeep, hubVars
<1>2. ASSUME NEW id \in LeaseIds, NEW token \in 1..Uint64Max, NEW tick \in Ticks,
             keep_alive(id, token, tick)
      PROVE  Upkeep
  <2>1. UNCHANGED <<revision, hubVars, values>>
    BY Zenon, <1>2 DEF keep_alive
  <2>2. TypeOK'
    BY Zenon, <1>2, KeepAliveType DEF StoreInv
  <2>3. CASE leases' = [leases EXCEPT ![id].expiry_tick = tick + leases[id].granted_ttl]
             /\ Live(id) /\ tick <= Uint64Max - leases[id].granted_ttl
    <3>1. leases[id] \in StoredLease
      BY <2>3 DEF StoreInv, TypeOK, Live
    <3>2. tick + leases[id].granted_ttl \in Ticks
      <4>1. leases[id].granted_ttl \in 1..Uint64Max
        BY <3>1 DEF StoredLease
      <4>2. tick <= Uint64Max - leases[id].granted_ttl
        BY Zenon, <2>3
      <4> HIDE <2>3
      <4> QED
        BY <4>1, <4>2, StoreConstants DEF Ticks
    <3>3. [leases[id] EXCEPT !.expiry_tick = tick + leases[id].granted_ttl] \in StoredLease
      BY <3>1, <3>2 DEF StoredLease
    <3>4. \A j \in LiveLeases : leases'[j] # Absent
      BY <2>3, <3>3, AbsentIsNoRecord DEF LiveLeases, Live, StoreInv, TypeOK
    <3> QED
      BY <2>1, <3>4 DEF Upkeep, hubVars
  <2>4. CASE UNCHANGED leases
    BY <2>1, <2>4 DEF Upkeep, hubVars, LiveLeases, Live
  <2> QED
    BY Zenon, <1>2, <2>3, <2>4 DEF keep_alive, Owns
<1> QED
  BY Zenon, <1>1, <1>2

(***************************************************************************)
(* Every operation of the store has one of the three forms.                *)
(***************************************************************************)
LEMMA StepForms == StoreInv /\ [Next]_vars => Rewrite \/ Removal \/ Upkeep
<1> SUFFICES ASSUME StoreInv, [Next]_vars PROVE Rewrite \/ Removal \/ Upkeep
  OBVIOUS
<1>1. ASSUME NEW k \in Keys, NEW v \in Values,
             put(k, v) \/ \E r \in 0..Int64Max : compare_and_set(k, r, v)
      PROVE  Rewrite
  BY <1>1, PutForm DEF put, compare_and_set
<1>2. ASSUME NEW k \in Keys, erase(k) PROVE Rewrite
  BY <1>2, EraseForm
<1>3. CASE UNCHANGED <<revision, hubVars, values, leases>>
  BY <1>3 DEF Upkeep, hubVars, LiveLeases, Live
<1>4. ASSUME NEW t \in Transactions,
             NEW tick \in IF t.lease_ownership = {} THEN {0} ELSE Ticks,
             transaction(t, tick)
      PROVE  Rewrite \/ Removal \/ Upkeep
  <2>1. t.success \in Seq(RequestOperation) /\ t.failure \in Seq(RequestOperation)
    BY StoreConstants
  <2> QED
    BY <1>3, <1>4, <2>1, TransactionForm
<1>5. ASSUME NEW id \in LeaseIds, NEW token \in 1..Uint64Max, NEW tick \in Ticks,
             revoke_lease(id, token, tick)
      PROVE  Removal
  BY <1>5, RemovalForms DEF StoreInv, Removal
<1>6. ASSUME NEW tick \in Ticks, expire_leases(tick) PROVE Removal
  BY <1>6, RemovalForms DEF StoreInv, Removal
<1>7. CASE WatchOperation
  BY <1>7 DEF WatchOperation, create_watch, poll_watch, request_watch_progress,
              cancel_watch, Upkeep, LiveLeases, Live
<1>8. CASE RestoreSnapshot
  BY <1>8 DEF RestoreSnapshot, Upkeep, LiveLeases, Live
<1>9. CASE UNCHANGED vars
  BY <1>3, <1>9 DEF vars
<1>10. CASE Mutation
  BY Zenon, <1>1, <1>2, <1>4, <1>10 DEF Mutation
<1>11. CASE LeaseOperation
  BY <1>5, <1>6, <1>11, LeaseUpkeep DEF LeaseOperation
<1> QED
  BY <1>7, <1>8, <1>9, <1>10, <1>11 DEF Next

-----------------------------------------------------------------------------
(* Keys, leases and revisions *)

\* The three forms as facts about revision, keys and live leases.
LEMMA RewriteEffect ==
    ASSUME StoreInv, Rewrite
    PROVE  /\ revision' = revision + 1
           /\ \A id \in LeaseIds : Live(id)' <=> Live(id)
           /\ \A k \in Keys : \/ values'[k] = values[k]
                               \/ values'[k] = Absent
                               \/ Written(k, values'[k])
<1>1. PICK T \in SUBSET Keys, nv \in [Keys -> KeyValue \cup {Absent}],
           attach \in [LeaseIds -> SUBSET Keys], events \in SUBSET Event :
         /\ CommitRevision(nv, Reattach(T, attach), events)
         /\ \A k \in Keys \ T : nv[k] = values[k]
         /\ \A k \in T : nv[k] = Absent \/ Written(k, nv[k])
  BY DEF Rewrite
<1>2. revision' = revision + 1 /\ values' = nv /\ leases' = Reattach(T, attach)
  BY <1>1 DEF CommitRevision
<1>3. \A id \in LeaseIds : Live(id)' <=> Live(id)
  BY Zenon, <1>2, ReattachKeeps DEF StoreInv
<1> QED
  BY <1>1, <1>2, <1>3

\* What the removal of leases does: exactly their keys go, in one revision.
LEMMA RemovalEffect ==
    ASSUME StoreInv, NEW ids \in SUBSET LiveLeases, remove_leases_locked(ids)
    PROVE  /\ revision' = IF ids = {} THEN revision ELSE revision + 1
           /\ \A id \in LiveLeases : leases'[id] = Absent <=> id \in ids
           /\ values' = [k \in Keys |-> IF Present(k) /\ values[k].lease_id \in ids
                                       THEN Absent ELSE values[k]]
<1>1. CASE ids = {}
  BY Zenon, <1>1 DEF remove_leases_locked, LiveLeases, Live, StoreInv, TypeOK
<1>2. CASE ids # {}
  <2>1. /\ revision' = revision + 1
        /\ values' = [k \in Keys |-> IF k \in AttachedKeys(ids) THEN Absent ELSE values[k]]
        /\ leases' = [id \in LeaseIds |-> IF id \in ids THEN Absent ELSE leases[id]]
    BY <1>2 DEF remove_leases_locked, CommitRevision
  <2>2. AttachmentIndexConsistent
    BY SnapshotParts DEF StoreInv
  <2>3. ASSUME NEW k \in Keys
        PROVE  k \in AttachedKeys(ids) <=> Present(k) /\ values[k].lease_id \in ids
    <3>1. ASSUME NEW id \in ids, k \in leases[id].attached_keys
          PROVE  Present(k) /\ values[k].lease_id = id
      BY <2>2, <3>1 DEF AttachmentIndexConsistent, Removable
    <3>2. ASSUME Present(k), values[k].lease_id \in ids
          PROVE  k \in leases[values[k].lease_id].attached_keys
      BY <2>2, <3>2 DEF AttachmentIndexConsistent, Detachable, LiveLeases, LeaseIds
    <3> QED
      BY Zenon, <3>1, <3>2 DEF AttachedKeys
  <2>4. values' = [k \in Keys |-> IF Present(k) /\ values[k].lease_id \in ids
                                 THEN Absent ELSE values[k]]
    BY Zenon, <2>1, <2>3
  <2>5. \A id \in LiveLeases : leases'[id] = Absent <=> id \in ids
    BY <2>1 DEF LiveLeases, Live
  <2> QED
    BY Zenon, <1>2, <2>1, <2>4, <2>5
<1> QED
  BY <1>1, <1>2

(***************************************************************************)
(* revoke_lease and expire_leases end a lease together with exactly the    *)
(* keys written under it, in one revision, and nothing else ends a lease.  *)
(***************************************************************************)
THEOREM LeasesEndWithTheirKeys == Spec => LeaseEndsWithItsKeys
<1> DEFINE ended == {id \in LiveLeases : leases'[id] = Absent}
           removed == [k \in Keys |-> IF Present(k) /\ values[k].lease_id \in ended
                                     THEN Absent ELSE values[k]]
           step == ended # {} => revision' = revision + 1 /\ values' = removed
<1>1. ASSUME StoreInv, [Next]_vars PROVE step
  <2>1. CASE Rewrite
    BY <1>1, <2>1, RewriteEffect DEF LiveLeases, Live
  <2>2. CASE Removal
    <3>1. PICK ids \in SUBSET LiveLeases : remove_leases_locked(ids)
      BY <2>2 DEF Removal
    <3>2. ended = ids
      BY <1>1, <3>1, RemovalEffect
    <3> HIDE DEF ended
    <3> QED
      BY <1>1, <3>1, <3>2, RemovalEffect
  <2>3. CASE Upkeep
    BY <2>3 DEF Upkeep
  <2> QED
    BY Zenon, <1>1, <2>1, <2>2, <2>3, StepForms
<1>2. StoreInv /\ [Next]_vars =>
        [LET gone == {id \in LiveLeases : leases'[id] = Absent}
             owned(k) == Present(k) /\ values[k].lease_id \in gone
         IN  gone # {} =>
               /\ revision' = revision + 1
               /\ values' = [k \in Keys |-> IF owned(k) THEN Absent ELSE values[k]]]_vars
  BY <1>1
<1> QED
  BY <1>2, StoreInvariant, PTL DEF Spec, LeaseEndsWithItsKeys

(***************************************************************************)
(* No operation writes a key under a lease at or past its deadline.        *)
(***************************************************************************)
THEOREM LeasedWritesBeforeDeadline == Spec => LeasedWriteBeforeDeadline
<1>1. StoreInv /\ [Next]_vars =>
        [\A k \in Keys :
           LET v == values'[k]
           IN  v # values[k] /\ v # Absent /\ v.lease_id # 0 =>
                 /\ Live(v.lease_id)
                 /\ logical_tick' < leases[v.lease_id].expiry_tick]_vars
  <2> SUFFICES ASSUME StoreInv, [Next]_vars, NEW k \in Keys,
                      values'[k] # values[k], values'[k] # Absent,
                      values'[k].lease_id # 0
               PROVE  /\ Live(values'[k].lease_id)
                      /\ logical_tick' < leases[values'[k].lease_id].expiry_tick
    BY Zenon
  <2>1. CASE Rewrite
    <3>1. Written(k, values'[k])
      BY <2>1, RewriteEffect
    <3> QED
      BY <3>1 DEF Written, PutValue
  <2>2. CASE Removal
    <3>1. PICK ids \in SUBSET LiveLeases : remove_leases_locked(ids)
      BY Zenon, <2>2 DEF Removal
    <3> QED
      BY Zenon, <3>1, RemovalEffect
  <2>3. CASE Upkeep
    BY Zenon, <2>3 DEF Upkeep
  <2> QED
    BY Zenon, <2>1, <2>2, <2>3, StepForms
<1> QED
  BY <1>1, StoreInvariant, PTL DEF Spec, LeasedWriteBeforeDeadline

(***************************************************************************)
(* Key metadata follows the revision through every operation.              *)
(***************************************************************************)
THEOREM MetadataFollowsRevision == Spec => KeyMetadataFollowsRevision
<1>1. StoreInv /\ [Next]_vars =>
        [/\ revision' \in {revision, revision + 1}
         /\ values' # values => revision' = revision + 1
         /\ \A k \in Keys : values'[k] # values[k] /\ values'[k] # Absent =>
              /\ values'[k].mod_revision = revision'
              /\ values'[k].create_revision = IF Present(k)
                                              THEN values[k].create_revision
                                              ELSE revision'
              /\ values'[k].version = IF Present(k)
                                      THEN values[k].version + 1 ELSE 1]_vars
  <2> SUFFICES ASSUME StoreInv, [Next]_vars
               PROVE  /\ revision' \in {revision, revision + 1}
                      /\ values' # values => revision' = revision + 1
                      /\ \A k \in Keys : values'[k] # values[k] /\ values'[k] # Absent =>
                           /\ values'[k].mod_revision = revision'
                           /\ values'[k].create_revision = IF Present(k)
                                                           THEN values[k].create_revision
                                                           ELSE revision'
                           /\ values'[k].version = IF Present(k)
                                                   THEN values[k].version + 1 ELSE 1
    BY Zenon
  <2>1. CASE Rewrite
    <3>1. revision' = revision + 1
      BY Zenon, <2>1, RewriteEffect
    <3>2. \A k \in Keys : values'[k] # values[k] /\ values'[k] # Absent
             => Written(k, values'[k])
      BY <2>1, RewriteEffect
    <3>3. ASSUME NEW k \in Keys, values'[k] # values[k], values'[k] # Absent
          PROVE  /\ values'[k].mod_revision = revision + 1
                 /\ values'[k].create_revision = IF Present(k)
                                                 THEN values[k].create_revision
                                                 ELSE revision + 1
                 /\ values'[k].version = IF Present(k) THEN values[k].version + 1 ELSE 1
      <4>1. PICK v \in Values, id \in {0} \cup LeaseIds :
                values'[k] = PutValue(k, v, id, revision + 1)
        BY <3>2, <3>3 DEF Written
      <4> QED
        BY <4>1 DEF PutValue
    <3> QED
      BY Zenon, <3>1, <3>3
  <2>2. CASE Removal
    <3>1. PICK ids \in SUBSET LiveLeases : remove_leases_locked(ids)
      BY <2>2 DEF Removal
    <3>2. CASE ids = {}
      BY Zenon, <3>1, <3>2 DEF remove_leases_locked
    <3>3. CASE ids # {}
      BY <3>1, <3>3, RemovalEffect
    <3> QED
      BY <3>2, <3>3
  <2>3. CASE Upkeep
    BY <2>3 DEF Upkeep
  <2> QED
    BY Zenon, <2>1, <2>2, <2>3, StepForms
<1> QED
  BY <1>1, StoreInvariant, PTL DEF Spec, KeyMetadataFollowsRevision

-----------------------------------------------------------------------------
(* The retained watch history *)

(***************************************************************************)
(* HistoryUnbroken is inductive once the history is known to be a sequence *)
(* of batches and the compaction boundary a number.                        *)
(***************************************************************************)
HistoryInv ==
    /\ history \in Seq(EventBatch)
    /\ compact_revision \in Nat
    /\ HistoryUnbroken

\* One batch is appended and the oldest make room, moving the boundary.
LEMMA PublishKeeps ==
    ASSUME StoreInv, HistoryInv, NEW events \in SUBSET Event,
           revision < Int64Max, revision' = revision + 1,
           Publish(events, revision + 1)
    PROVE  HistoryInv'
<1> DEFINE batch == [revision |-> revision + 1, events |-> events]
           batches == Append(history, batch)
           surplus == Surplus(batches)
           n == Len(history)
<1>1. /\ history' = SubSeq(batches, surplus + 1, Len(batches))
      /\ compact_revision' = IF surplus = 0 THEN compact_revision
                             ELSE batches[surplus].revision
  BY DEF Publish
<1>2. batch \in EventBatch /\ batch.revision = revision + 1
  BY WatchConstants DEF EventBatch, StoreInv, TypeOK
<1> HIDE DEF batch
<1>3. /\ batches \in Seq(EventBatch) /\ n \in Nat /\ Len(batches) = n + 1
      /\ \A i \in 1..n : batches[i] = history[i]
      /\ batches[n + 1] = batch
  BY <1>2 DEF HistoryInv
<1>4. /\ n = revision - compact_revision /\ n <= MaxWatchHistory
      /\ \A i \in 1..n : history[i].revision = compact_revision + i
      /\ compact_revision \in Nat /\ revision \in Nat
  BY DEF HistoryInv, HistoryUnbroken, StoreInv, TypeOK
<1> HIDE DEF batches, n
<1>5. \A i \in 1..(n + 1) : batches[i].revision = compact_revision + i
  BY <1>2, <1>3, <1>4
<1>6. MaxWatchHistory \in Nat
  BY WatchConstants
<1>7. surplus \in 0..(n + 1) /\ (n + 1) - surplus <= MaxWatchHistory
  BY <1>3, <1>4, <1>6 DEF Surplus
<1> HIDE DEF surplus
<1>8. compact_revision' = compact_revision + surplus
  BY <1>1, <1>3, <1>4, <1>5, <1>7
<1>9. /\ history' \in Seq(EventBatch) /\ Len(history') = (n + 1) - surplus
      /\ \A i \in 1..((n + 1) - surplus) : history'[i] = batches[surplus + i]
  BY <1>1, <1>3, <1>7
<1>10. \A i \in 1..Len(history') : history'[i].revision = compact_revision' + i
  <2> SUFFICES ASSUME NEW i \in 1..((n + 1) - surplus)
               PROVE  history'[i].revision = compact_revision' + i
    BY <1>9
  <2>1. surplus + i \in 1..(n + 1) /\ history'[i] = batches[surplus + i]
    BY <1>3, <1>7, <1>9
  <2>2. history'[i].revision = compact_revision + (surplus + i)
    BY <1>5, <2>1
  <2> QED
    BY <1>3, <1>4, <1>7, <1>8, <2>2
<1> QED
  BY <1>4, <1>7, <1>8, <1>9, <1>10 DEF HistoryInv, HistoryUnbroken

\* Every step keeps the history unbroken.
LEMMA HistoryInvNext == StoreInv /\ HistoryInv /\ [Next]_vars => HistoryInv'
<1> SUFFICES ASSUME StoreInv, HistoryInv, [Next]_vars PROVE HistoryInv'
  OBVIOUS
<1>1. ASSUME NEW nv, NEW nl, NEW events \in SUBSET Event, CommitRevision(nv, nl, events)
      PROVE  HistoryInv'
  BY <1>1, PublishKeeps DEF CommitRevision
<1>2. CASE UNCHANGED <<revision, history, compact_revision>>
  BY <1>2 DEF HistoryInv, HistoryUnbroken
<1>3. CASE Rewrite
  BY <1>1, <1>3 DEF Rewrite
<1>4. CASE Removal
  <2>1. PICK ids \in SUBSET LiveLeases : remove_leases_locked(ids)
    BY <1>4 DEF Removal
  <2>2. AttachedKeys(ids) \subseteq Keys
    BY DEF AttachedKeys, LiveLeases, Live, StoreInv, TypeOK, StoredLease
  <2>3. {[type |-> "erase", key |-> k] : k \in AttachedKeys(ids)} \in SUBSET Event
    BY <2>2 DEF Event
  <2> QED
    BY Zenon, <1>1, <1>2, <2>1, <2>3 DEF remove_leases_locked, hubVars
<1>5. CASE Upkeep
  <2>1. CASE ResetHub
    BY <1>5, <2>1, WatchConstants
       DEF Upkeep, ResetHub, HistoryInv, HistoryUnbroken, StoreInv, TypeOK
  <2> QED
    BY <1>2, <1>5, <2>1 DEF Upkeep
<1> QED
  BY <1>3, <1>4, <1>5, StepForms

(***************************************************************************)
(* The retained history is always the unbroken run of revisions after the  *)
(* compaction boundary, whatever its limit, so a watch that starts after   *)
(* the boundary can be replayed in full.                                   *)
(***************************************************************************)
THEOREM HistoryNeverBreaks == Spec => []HistoryUnbroken
<1>1. Init => HistoryInv
  BY WatchConstants, StoreConstants DEF Init, InitHub, HistoryInv, HistoryUnbroken
<1>2. HistoryInv => HistoryUnbroken
  BY DEF HistoryInv
<1> QED
  BY <1>1, <1>2, HistoryInvNext, StoreInvariant, PTL DEF Spec
=============================================================================
