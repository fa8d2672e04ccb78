-------------------------- MODULE KuraTableProofs ---------------------------
(***************************************************************************)
(* Proofs about KuraClient, first part: the requests clients send, what    *)
(* they do to the table's keys when they are applied, now or later, and    *)
(* what lease removal and collection do to them.                           *)
(***************************************************************************)
EXTENDS KuraClient, MetadataStoreProofs

-----------------------------------------------------------------------------
(* The requests clients send, apart from the client that sends them *)

ClaimOf(o) ==
    [comparisons |-> {Equal(writer_key, "version", 0)}, lease_ownership |-> {o},
     success |-> <<Write(writer_key, 0, o.id)>>, failure |-> <<>>]

PublishOf(o, p, b) ==
    [comparisons |-> {Equal(current_key, "mod_revision", b),
                      Equal(writer_key, "lease_id", o.id)},
     lease_ownership |-> {o},
     success |-> <<Write(current_key, p, 0), Write(snapshot_key[p], p, 0)>>,
     failure |-> <<>>]

RegisterOf(o, p, k) ==
    [comparisons |-> {Equal(snapshot_key[p], "value", p)}, lease_ownership |-> {o},
     success |-> <<Write(k, snapshot_key[p], o.id)>>, failure |-> <<>>]

\* A request with the base its caller named, as a call or an orphan holds it.
Attempt(r, b) ==
    \E o \in LeaseOwnership :
       \/ r = ClaimOf(o)
       \/ b \in Nat /\ \E p \in Pointers : r = PublishOf(o, p, b)
       \/ \E p \in Pointers, k \in ReaderKeys : r = RegisterOf(o, p, k)

-----------------------------------------------------------------------------
(* What a fenced transaction of puts does *)

(***************************************************************************)
(* A transaction that owns a lease, puts keys when it succeeds and does    *)
(* nothing when it fails, either succeeds and writes exactly these keys at *)
(* the next revision, or leaves keys, leases and revision alone.           *)
(***************************************************************************)
LEMMA FencedPuts ==
    ASSUME StoreInv, NEW r, NEW o \in LeaseOwnership, NEW tick \in Ticks,
           r.lease_ownership = {o}, r.failure = <<>>,
           r.success \in Seq(RequestOperation), r.success # <<>>,
           \A i \in DOMAIN r.success : r.success[i].op = "put",
           transaction(r, tick)
    PROVE  /\ StoreInv'
           /\ \A id \in LeaseIds : Live(id) =>
                Live(id)' /\ leases'[id].fencing_token = leases[id].fencing_token
           /\ \/ /\ Succeeds(r, tick)
                 /\ revision' = revision + 1
                 /\ \A k \in Keys \ PutKeys(r.success) : values'[k] = values[k]
                 /\ \A p \in Puts(r.success) :
                      /\ values'[p.key] \in KeyValue
                      /\ values'[p.key].value = p.value
                      /\ values'[p.key].lease_id = p.lease_id
                      /\ values'[p.key].mod_revision = revision + 1
              \/ /\ ~Succeeds(r, tick)
                 /\ UNCHANGED <<revision, values, leases>>
<1> DEFINE verified == {x \in r.lease_ownership : Owns(x, tick)}
           succeeded == /\ \A c \in r.comparisons : CompareHolds(c)
                        /\ verified = r.lease_ownership
           ops == IF succeeded THEN r.success ELSE r.failure
           touched == PutKeys(ops) \cup DeletedKeys(ops)
           attach == [id \in LeaseIds |->
                        {p.key : p \in {q \in Puts(ops) : q.lease_id = id}}]
           nv == ApplyOperations(ops, revision + 1)
<1>1. succeeded <=> Succeeds(r, tick)
  BY Zenon DEF Succeeds
<1>2. StoreInv'
  <2>1. r.lease_ownership \subseteq LeaseOwnership /\ r.failure \in Seq(RequestOperation)
    OBVIOUS
  <2> QED
    BY Zenon, <2>1, TransactionPreserves
<1>3. /\ ValidOperations(ops, verified)
      /\ \/ /\ touched # {}
            /\ CommitRevision(nv, Reattach(touched, attach), TransactionEvents(ops))
         \/ /\ touched = {}
            /\ UNCHANGED <<revision, hubVars, values, leases>>
  BY Zenon DEF transaction
<1>4. ops \in Seq(RequestOperation)
  OBVIOUS
<1>5. attach \in [LeaseIds -> SUBSET Keys]
  BY Zenon, <1>4, OperationTypes
<1> HIDE DEF attach, verified
<1>6. CASE succeeded
  <2>1. ops = r.success
    BY Zenon, <1>6
  <2> HIDE DEF ops, succeeded
  <2>2. DeletedKeys(ops) = {} /\ PutKeys(ops) # {}
    BY <2>1 DEF DeletedKeys, Deletes, PutKeys, Puts
  <2>3. CommitRevision(nv, Reattach(touched, attach), TransactionEvents(ops))
    BY Zenon, <1>3, <2>2
  <2>4. /\ revision < Int64Max /\ revision' = revision + 1 /\ values' = nv
        /\ leases' = Reattach(touched, attach)
    BY Zenon, <2>3 DEF CommitRevision
  <2>5. \A id \in LeaseIds : Live(id) =>
           Live(id)' /\ leases'[id].fencing_token = leases[id].fencing_token
    BY Zenon, <1>5, <2>4, ReattachKeeps DEF StoreInv
  <2>6. \A k \in Keys \ PutKeys(ops) : values'[k] = values[k]
    BY Zenon, <2>2, <2>4 DEF ApplyOperations
  <2>7. \A p \in Puts(ops) : /\ values'[p.key] \in KeyValue
                             /\ values'[p.key].value = p.value
                             /\ values'[p.key].lease_id = p.lease_id
                             /\ values'[p.key].mod_revision = revision + 1
    BY <1>3, <1>4, <2>4, AppliedPut
  <2> QED
    BY Zenon, <1>1, <1>2, <1>6, <2>1, <2>4, <2>5, <2>6, <2>7
<1>7. CASE ~succeeded
  <2>1. ops = <<>>
    BY Zenon, <1>7
  <2> HIDE DEF ops, succeeded
  <2>2. touched = {}
    BY <2>1 DEF DeletedKeys, Deletes, PutKeys, Puts
  <2>3. UNCHANGED <<revision, values, leases>>
    BY Zenon, <1>3, <2>2
  <2> QED
    BY Zenon, <1>1, <1>2, <1>7, <2>3 DEF Live
<1> QED
  BY Zenon, <1>6, <1>7

\* A branch of puts and nothing else.
OnlyPuts(ops, puts) ==
    /\ ops \in Seq(RequestOperation) /\ ops # <<>>
    /\ \A i \in DOMAIN ops : ops[i].op = "put"
    /\ Puts(ops) = puts

\* The one put of a claim or a registration.
LEMMA OnePut ==
    ASSUME NEW k \in Keys, NEW v \in Values, NEW id \in {0} \cup LeaseIds,
           NEW ops, ops = <<Write(k, v, id)>>
    PROVE  OnlyPuts(ops, {Write(k, v, id)}) /\ PutKeys(ops) = {k}
<1> DEFINE w == Write(k, v, id)
<1>1. w \in RequestOperation /\ w.op = "put" /\ w.key = k
  BY Zenon DEF Write, RequestOperation
<1> HIDE DEF w
<1>2. ops \in Seq(RequestOperation) /\ ops # <<>> /\ DOMAIN ops = {1} /\ ops[1] = w
  BY <1>1 DEF w
<1>3. Puts(ops) = {w}
  BY <1>1, <1>2 DEF Puts
<1>4. PutKeys(ops) = {k}
  BY <1>1, <1>3 DEF PutKeys
<1> QED
  BY <1>1, <1>2, <1>3, <1>4 DEF w, OnlyPuts

\* The two puts of publish_snapshot.
LEMMA TwoPuts ==
    ASSUME NEW k \in Keys, NEW j \in Keys, NEW v \in Values,
           NEW ops, ops = <<Write(k, v, 0), Write(j, v, 0)>>
    PROVE  /\ OnlyPuts(ops, {Write(k, v, 0), Write(j, v, 0)})
           /\ PutKeys(ops) = {k, j}
<1> DEFINE w == Write(k, v, 0)
           x == Write(j, v, 0)
<1>1. /\ w \in RequestOperation /\ w.op = "put" /\ w.key = k
      /\ x \in RequestOperation /\ x.op = "put" /\ x.key = j
  BY Zenon DEF Write, RequestOperation
<1>2. ops = <<w, x>>
  OBVIOUS
<1> HIDE DEF w, x
<1>3. /\ ops \in Seq(RequestOperation) /\ ops # <<>> /\ DOMAIN ops = {1, 2}
      /\ ops[1] = w /\ ops[2] = x
  BY <1>1, <1>2
<1>4. Puts(ops) = {w, x}
  BY <1>1, <1>3 DEF Puts
<1>5. PutKeys(ops) = {k, j}
  BY <1>1, <1>4 DEF PutKeys
<1> QED
  BY Zenon, <1>1, <1>3, <1>4, <1>5 DEF w, x, OnlyPuts

-----------------------------------------------------------------------------
(***************************************************************************)
(* The inductive invariant of the table: the current key is the last       *)
(* publication; the writer key is held under the lease of the latest       *)
(* claim, which is live; current and snapshots belong to no lease, so      *)
(* expiry cannot take them; a reader key names a snapshot.                 *)
(***************************************************************************)
Publication ==
    [revision : Nat, pointer : Pointers, token : Nat, base : Nat, generation : Nat]

CurrentIsLast ==
    /\ publications = <<>> => ~Present(current_key)
    /\ publications # <<>> =>
         /\ Present(current_key) /\ values[current_key].lease_id = 0
         /\ values[current_key].mod_revision = publications[Len(publications)].revision
         /\ values[current_key].value = publications[Len(publications)].pointer

LockIsLatest ==
    Present(writer_key) =>
       LET id == values[writer_key].lease_id
       IN  /\ id \in LeaseIds /\ Live(id)
           /\ leases[id].fencing_token = generation

SnapshotsUnleased == \A s \in SnapshotKeys : Present(s) => values[s].lease_id = 0

ReadersPin == \A k \in ReaderKeys : Present(k) => values[k].value \in SnapshotKeys

TableInv ==
    /\ StoreInv
    /\ publications \in Seq(Publication) /\ generation \in Nat
    /\ CurrentIsLast /\ LockIsLatest /\ SnapshotsUnleased /\ ReadersPin
    /\ OneFencedChain /\ ReferencedSnapshotsSurvive

\* No lease loses its generation.
LeasesKept ==
    \A id \in LeaseIds : Live(id) =>
       Live(id)' /\ leases'[id].fencing_token = leases[id].fencing_token

\* A missing key compares as zero.
LEMMA EqualHolds ==
    ASSUME NEW k, NEW target, NEW e, CompareHolds(Equal(k, target, e))
    PROVE  IF Present(k) THEN values[k][target] = e ELSE e = 0
  BY DEF CompareHolds, Equal, comparison_matches

\* The keys of the table are keys, and no two roles share one.
LEMMA KeyRoles ==
    /\ current_key \in Keys /\ writer_key \in Keys /\ current_key # writer_key
    /\ \A k \in ReaderKeys : /\ k \in Keys /\ k # current_key /\ k # writer_key
                             /\ k \notin SnapshotKeys
    /\ \A s \in SnapshotKeys : /\ s \in Keys /\ s # current_key /\ s # writer_key
                               /\ s \notin ReaderKeys /\ s \in Values
    /\ \A p \in Pointers : snapshot_key[p] \in SnapshotKeys /\ p \in Values /\ p # 0
    /\ 0 \in Values
  BY Zenon, KuraConstants DEF TableKeys, SnapshotKeys

\* The current key holds a pointer.
LEMMA CurrentPointer ==
    ASSUME TableInv, Present(current_key)
    PROVE  /\ Pointer(current_key) \in Pointers
           /\ snapshot_key[Pointer(current_key)] \in SnapshotKeys
           /\ publications # <<>> /\ Len(publications) \in DOMAIN publications
<1>1. publications # <<>> /\ publications \in Seq(Publication)
  BY Zenon DEF TableInv, CurrentIsLast
<1>2. Len(publications) \in DOMAIN publications
      /\ publications[Len(publications)] \in Publication
  BY <1>1
<1>3. Pointer(current_key) \in Pointers
  BY Zenon, <1>1, <1>2 DEF TableInv, CurrentIsLast, Pointer, Publication
<1> QED
  BY <1>1, <1>2, <1>3, KeyRoles

\* Steps that leave keys and histories alone.
LEMMA QuietKeeps ==
    ASSUME TableInv, StoreInv', LeasesKept,
           UNCHANGED <<values, publications, generation>>
    PROVE  TableInv'
<1>1. LockIsLatest'
  BY Zenon DEF TableInv, LockIsLatest, LeasesKept, Present
<1>2. /\ CurrentIsLast' /\ SnapshotsUnleased' /\ ReadersPin'
      /\ OneFencedChain' /\ ReferencedSnapshotsSurvive'
  BY Zenon DEF TableInv, CurrentIsLast, SnapshotsUnleased, ReadersPin, OneFencedChain,
         ReferencedSnapshotsSurvive, Pointer, Present
<1> QED
  BY Zenon, <1>1, <1>2 DEF TableInv

\* Transact records the token of the one lease the request owns.
LEMMA TransactRecords ==
    ASSUME NEW r, NEW o, r.lease_ownership = {o}, NEW tick, NEW b, Transact(r, tick, b)
    PROVE  /\ transaction(r, tick)
           /\ generation' = IF ~Present(writer_key) /\ values'[writer_key] # Absent
                            THEN o.fencing_token ELSE generation
           /\ publications' =
                IF values'[current_key] = values[current_key] THEN publications
                ELSE Append(publications,
                            [revision |-> revision', pointer |-> values'[current_key].value,
                             token |-> o.fencing_token, base |-> b,
                             generation |-> generation])
<1>1. (CHOOSE x \in r.lease_ownership : TRUE) = o
  OBVIOUS
<1> QED
  BY Zenon, <1>1 DEF Transact

\* A refused request changes nothing in the table.
LEMMA RefusedKeeps ==
    ASSUME TableInv, StoreInv', LeasesKept, NEW r, NEW o, r.lease_ownership = {o},
           NEW tick, NEW b, Transact(r, tick, b), UNCHANGED values
    PROVE  TableInv'
<1>1. UNCHANGED <<publications, generation>>
  BY Zenon, TransactRecords DEF Present
<1> QED
  BY <1>1, QuietKeeps

\* The table once a claim has written the writer key: its lease is the latest generation.
LEMMA WriterRecorded ==
    ASSUME TableInv, StoreInv', LeasesKept, NEW o, o.id \in LeaseIds, o.fencing_token \in Nat,
           NEW tick, Owns(o, tick), \A k \in Keys \ {writer_key} : values'[k] = values[k],
           values'[writer_key].lease_id = o.id, values'[writer_key] # Absent,
           generation' = o.fencing_token, publications' = publications
    PROVE  TableInv'
<1>1. LockIsLatest'
  BY Zenon DEF LockIsLatest, LeasesKept, Owns
<1>2. \A k \in Keys \ {writer_key} : values'[k] = values[k] /\ (Present(k)' <=> Present(k))
  BY Zenon DEF Present
<1>3. CurrentIsLast' /\ SnapshotsUnleased' /\ ReadersPin'
  BY Zenon, <1>2, KeyRoles DEF TableInv, CurrentIsLast, SnapshotsUnleased, ReadersPin
<1>4. OneFencedChain'
  BY Zenon DEF TableInv, OneFencedChain
<1>5. ReferencedSnapshotsSurvive'
  <2>1. Present(current_key) => Pointer(current_key) \in Pointers
    BY Zenon, CurrentPointer
  <2> QED
    BY Zenon, <1>2, <2>1, KeyRoles DEF TableInv, ReadersPin, ReferencedSnapshotsSurvive, Pointer
<1> QED
  BY Zenon, <1>1, <1>3, <1>4, <1>5 DEF TableInv

\* A claim succeeds only while the writer key is absent.
LEMMA ClaimKeeps ==
    ASSUME TableInv, NEW o \in LeaseOwnership, NEW tick \in Ticks, NEW b,
           Transact(ClaimOf(o), tick, b)
    PROVE  TableInv'
<1>0. PICK r : r = ClaimOf(o)
  BY Zenon
<1>1. /\ r.comparisons = {Equal(writer_key, "version", 0)} /\ r.lease_ownership = {o}
      /\ r.success = <<Write(writer_key, 0, o.id)>> /\ r.failure = <<>>
  BY Zenon, <1>0 DEF ClaimOf
<1>2. o.id \in LeaseIds /\ o.fencing_token \in Nat
  BY DEF LeaseOwnership
<1>3. transaction(r, tick)
  BY Zenon, <1>0, <1>1, TransactRecords
<1>4. /\ StoreInv' /\ LeasesKept
      /\ \/ /\ Succeeds(r, tick)
            /\ \A k \in Keys \ {writer_key} : values'[k] = values[k]
            /\ values'[writer_key] \in KeyValue
            /\ values'[writer_key].lease_id = o.id
         \/ UNCHANGED values
  <2>1. StoreInv
    BY Zenon DEF TableInv
  <2>2. Write(writer_key, 0, o.id).key = writer_key
        /\ Write(writer_key, 0, o.id).lease_id = o.id
    BY Zenon DEF Write
  <2>3. /\ OnlyPuts(r.success, {Write(writer_key, 0, o.id)})
        /\ PutKeys(r.success) = {writer_key}
    <3>1. writer_key \in Keys /\ 0 \in Values /\ o.id \in {0} \cup LeaseIds
      BY Zenon, <1>2, KeyRoles
    <3>2. r.success = <<Write(writer_key, 0, o.id)>>
      BY Zenon, <1>1
    <3> QED
      BY Zenon, <3>1, <3>2, OnePut
  <2>4. /\ StoreInv' /\ LeasesKept
        /\ \/ /\ Succeeds(r, tick)
              /\ \A k \in Keys \ PutKeys(r.success) : values'[k] = values[k]
              /\ \A p \in Puts(r.success) :
                   /\ values'[p.key] \in KeyValue
                   /\ values'[p.key].lease_id = p.lease_id
           \/ UNCHANGED values
    BY Zenon, <1>1, <1>3, <2>1, <2>3, FencedPuts DEF LeasesKept, OnlyPuts
  <2> QED
    BY Zenon, <2>2, <2>3, <2>4 DEF OnlyPuts
<1>5. CASE UNCHANGED values
  BY Zenon, <1>0, <1>1, <1>4, <1>5, RefusedKeeps
<1>6. CASE /\ Succeeds(r, tick)
           /\ \A k \in Keys \ {writer_key} : values'[k] = values[k]
           /\ values'[writer_key] \in KeyValue
           /\ values'[writer_key].lease_id = o.id
  <2>1. ~Present(writer_key)
    <3>1. CompareHolds(Equal(writer_key, "version", 0))
      BY Zenon, <1>1, <1>6 DEF Succeeds
    <3>2. Present(writer_key) => values[writer_key].version # 0
      BY KeyRoles DEF TableInv, StoreInv, TypeOK, Present, KeyValue
    <3> QED
      BY Zenon, <3>1, <3>2, EqualHolds
  <2>2. Owns(o, tick)
    BY Zenon, <1>1, <1>6 DEF Succeeds
  <2>3. values'[writer_key] # Absent
    BY Zenon, <1>6, AbsentIsNoRecord
  <2>4. generation' = o.fencing_token /\ publications' = publications
    BY Zenon, <1>0, <1>1, <1>6, <2>1, <2>3, TransactRecords, KeyRoles
  <2> QED
    BY Zenon, <1>2, <1>4, <1>6, <2>2, <2>3, <2>4, WriterRecorded
<1> QED
  BY Zenon, <1>4, <1>5, <1>6

\* The table once a publication has replaced the base it named.
LEMMA PublicationRecorded ==
    ASSUME TableInv, StoreInv', LeasesKept, NEW token, token = generation, token \in Nat,
           NEW p \in Pointers, NEW b \in Nat,
           b = IF Present(current_key) THEN values[current_key].mod_revision ELSE 0,
           \A k \in Keys \ {current_key, snapshot_key[p]} : values'[k] = values[k],
           \A k \in {current_key, snapshot_key[p]} :
             /\ values'[k] \in KeyValue /\ values'[k].value = p
             /\ values'[k].lease_id = 0 /\ values'[k].mod_revision = revision + 1,
           values'[current_key] # Absent, values'[snapshot_key[p]] # Absent,
           generation' = generation,
           publications' =
             Append(publications, [revision |-> revision + 1, pointer |-> p, token |-> token,
                                   base |-> b, generation |-> generation])
    PROVE  TableInv'
<1> DEFINE s == snapshot_key[p]
           record == [revision |-> revision + 1, pointer |-> p, token |-> token,
                      base |-> b, generation |-> generation]
           n == Len(publications)
<1>1. s \in SnapshotKeys /\ s \in Keys /\ s # current_key /\ s # writer_key
  BY Zenon, KeyRoles
<1>2. publications \in Seq(Publication) /\ revision \in Nat /\ generation \in Nat
  BY DEF TableInv, StoreInv, TypeOK
<1>3. /\ record \in Publication /\ record.revision = revision + 1 /\ record.pointer = p
      /\ record.token = generation /\ record.base = b /\ record.generation = generation
  BY <1>2 DEF Publication
<1> HIDE DEF record
<1>4. publications' = Append(publications, record)
  BY Zenon DEF record
<1>5. /\ publications' \in Seq(Publication) /\ publications' # <<>>
      /\ n \in Nat /\ Len(publications') = n + 1
      /\ \A i \in 1..n : publications'[i] = publications[i]
      /\ publications'[n + 1] = record
      /\ n # 0 <=> publications # <<>>
      /\ DOMAIN publications = 1..n /\ DOMAIN publications' = 1..(n + 1)
  BY <1>2, <1>3, <1>4
<1>6. CurrentIsLast'
  BY <1>3, <1>5 DEF CurrentIsLast, Present
<1>7. \A k \in Keys \ {current_key, s} :
         values'[k] = values[k] /\ (Present(k)' <=> Present(k))
  BY Zenon DEF Present
<1>8. LockIsLatest'
  BY Zenon, <1>1, <1>7, KeyRoles DEF TableInv, LockIsLatest, LeasesKept
<1>9. SnapshotsUnleased' /\ ReadersPin'
  BY Zenon, <1>1, <1>7, KeyRoles DEF TableInv, SnapshotsUnleased, ReadersPin
<1>10. OneFencedChain'
  <2> SUFFICES ASSUME NEW i \in 1..(n + 1)
               PROVE  /\ publications'[i].base =
                            IF i = 1 THEN 0 ELSE publications'[i - 1].revision
                      /\ publications'[i].token = publications'[i].generation
    BY Zenon, <1>5 DEF OneFencedChain
  <2>1. b = IF n = 0 THEN 0 ELSE publications[n].revision
    BY Zenon, <1>5 DEF TableInv, CurrentIsLast
  <2>2. \A m \in 1..n :
           /\ publications[m].base = IF m = 1 THEN 0 ELSE publications[m - 1].revision
           /\ publications[m].token = publications[m].generation
    BY Zenon, <1>5 DEF TableInv, OneFencedChain
  <2> HIDE DEF n
  <2>3. CASE i \in 1..n
    <3>1. i # 1 => i - 1 \in 1..n
      BY <1>5, <2>3
    <3> QED
      BY <1>5, <2>2, <2>3, <3>1
  <2>4. CASE i = n + 1
    BY <1>3, <1>5, <2>1, <2>4
  <2> QED
    BY <1>5, <2>3, <2>4
<1>11. ReferencedSnapshotsSurvive'
  <2>1. Pointer(current_key)' = p /\ Pointer(s)' = p
    BY Zenon DEF Pointer, Present
  <2>2. (Pointer(snapshot_key[Pointer(current_key)]) = Pointer(current_key))'
    BY Zenon, <2>1 DEF Pointer, Present
  <2>3. ASSUME NEW k \in ReaderKeys, Present(k)' PROVE Present(values[k].value)'
    <3>1. Present(k) /\ values'[k] = values[k]
      BY Zenon, <1>1, <1>7, <2>3, KeyRoles
    <3>2. values[k].value \in SnapshotKeys /\ Present(values[k].value)
      BY Zenon, <3>1 DEF TableInv, ReadersPin, ReferencedSnapshotsSurvive
    <3> QED
      BY Zenon, <1>7, <3>1, <3>2, KeyRoles DEF Present
  <2> QED
    BY Zenon, <2>2, <2>3 DEF ReferencedSnapshotsSurvive
<1> QED
  BY Zenon, <1>2, <1>5, <1>6, <1>8, <1>9, <1>10, <1>11 DEF TableInv

\* A publication is fenced by the writer key's lease and replaces its base.
LEMMA PublicationKeeps ==
    ASSUME TableInv, NEW o \in LeaseOwnership, NEW tick \in Ticks, NEW b \in Nat,
           NEW p \in Pointers, Transact(PublishOf(o, p, b), tick, b)
    PROVE  /\ TableInv'
           /\ Succeeds(PublishOf(o, p, b), tick) =>
                /\ revision' = revision + 1
                /\ publications' =
                     Append(publications,
                            [revision |-> revision + 1, pointer |-> p,
                             token |-> o.fencing_token, base |-> b,
                             generation |-> generation])
<1>0. PICK r : r = PublishOf(o, p, b)
  BY Zenon
<1> DEFINE s == snapshot_key[p]
           record == [revision |-> revision + 1, pointer |-> p,
                      token |-> o.fencing_token, base |-> b,
                      generation |-> generation]
<1>1. /\ r.comparisons = {Equal(current_key, "mod_revision", b),
                          Equal(writer_key, "lease_id", o.id)}
      /\ r.lease_ownership = {o} /\ r.failure = <<>>
      /\ r.success = <<Write(current_key, p, 0), Write(s, p, 0)>>
  BY Zenon, <1>0 DEF PublishOf
<1>2. s \in SnapshotKeys /\ s \in Keys /\ s # current_key /\ s # writer_key
  BY Zenon, KeyRoles
<1> HIDE DEF s
<1>3. transaction(r, tick)
  BY Zenon, <1>0, <1>1, TransactRecords
<1>4. /\ StoreInv' /\ LeasesKept
      /\ \/ /\ Succeeds(r, tick) /\ revision' = revision + 1
            /\ \A k \in Keys \ {current_key, s} : values'[k] = values[k]
            /\ \A k \in {current_key, s} :
                 /\ values'[k] \in KeyValue /\ values'[k].value = p
                 /\ values'[k].lease_id = 0 /\ values'[k].mod_revision = revision + 1
         \/ ~Succeeds(r, tick) /\ UNCHANGED values
  <2>1. StoreInv
    BY DEF TableInv
  <2>2. \A k : /\ Write(k, p, 0).key = k /\ Write(k, p, 0).lease_id = 0
               /\ Write(k, p, 0).value = p
    BY DEF Write
  <2>3. /\ OnlyPuts(r.success, {Write(current_key, p, 0), Write(s, p, 0)})
        /\ PutKeys(r.success) = {current_key, s}
    <3>1. current_key \in Keys /\ s \in Keys /\ p \in Values
      BY Zenon, <1>2, KeyRoles
    <3>2. r.success = <<Write(current_key, p, 0), Write(s, p, 0)>>
      BY Zenon, <1>1
    <3> QED
      BY Zenon, <3>1, <3>2, TwoPuts
  <2>4. /\ StoreInv' /\ LeasesKept
        /\ \/ /\ Succeeds(r, tick) /\ revision' = revision + 1
              /\ \A k \in Keys \ PutKeys(r.success) : values'[k] = values[k]
              /\ \A x \in Puts(r.success) :
                   /\ values'[x.key] \in KeyValue /\ values'[x.key].value = x.value
                   /\ values'[x.key].lease_id = x.lease_id
                   /\ values'[x.key].mod_revision = revision + 1
           \/ ~Succeeds(r, tick) /\ UNCHANGED values
    BY Zenon, <1>1, <1>3, <2>1, <2>3, FencedPuts DEF LeasesKept, OnlyPuts
  <2> QED
    BY <2>2, <2>3, <2>4 DEF OnlyPuts
<1>5. CASE ~Succeeds(r, tick) /\ UNCHANGED values
  BY Zenon, <1>0, <1>1, <1>4, <1>5, RefusedKeeps
<1>6. CASE /\ Succeeds(r, tick) /\ revision' = revision + 1
           /\ \A k \in Keys \ {current_key, s} : values'[k] = values[k]
           /\ \A k \in {current_key, s} :
                /\ values'[k] \in KeyValue /\ values'[k].value = p
                /\ values'[k].lease_id = 0 /\ values'[k].mod_revision = revision + 1
  <2>1. /\ CompareHolds(Equal(current_key, "mod_revision", b))
        /\ CompareHolds(Equal(writer_key, "lease_id", o.id))
        /\ Owns(o, tick)
    BY Zenon, <1>1, <1>6 DEF Succeeds
  <2>2. o.id \in LeaseIds /\ o.id # 0 /\ o.fencing_token \in Nat
    BY DEF LeaseOwnership, LeaseIds
  <2>3. Present(writer_key) /\ values[writer_key].lease_id = o.id
    BY <2>1, <2>2, EqualHolds
  <2>4. o.fencing_token = generation
    BY Zenon, <2>1, <2>3 DEF TableInv, LockIsLatest, Owns
  <2>5. b = IF Present(current_key) THEN values[current_key].mod_revision ELSE 0
    BY <2>1, EqualHolds
  <2>6. /\ values'[current_key] # values[current_key]
        /\ values'[current_key] # Absent /\ values'[s] # Absent
    <3>1. Present(current_key) => /\ values[current_key].mod_revision <= revision
                                  /\ values[current_key] \in KeyValue
      BY Zenon, KeyRoles DEF TableInv, StoreInv, TypeOK, SnapshotAccepted, Present
    <3>2. values'[current_key] # Absent /\ values'[s] # Absent
      BY Zenon, <1>6, AbsentIsNoRecord
    <3>3. revision \in Nat
      BY DEF TableInv, StoreInv, TypeOK
    <3>4. values'[current_key].mod_revision = revision + 1
      BY Zenon, <1>6
    <3> QED
      BY <3>1, <3>2, <3>3, <3>4 DEF Present
  <2>7. publications' = Append(publications, record) /\ generation' = generation
    <3>1. values'[current_key].value = p /\ revision' = revision + 1
      BY Zenon, <1>6
    <3>2. Transact(r, tick, b) /\ r.lease_ownership = {o}
      BY Zenon, <1>0, <1>1
    <3>3. /\ generation' = generation
          /\ publications' =
               Append(publications,
                      [revision |-> revision', pointer |-> values'[current_key].value,
                       token |-> o.fencing_token, base |-> b,
                       generation |-> generation])
      BY Zenon, <2>3, <2>6, <3>2, TransactRecords
    <3> QED
      BY Zenon, <3>1, <3>3
  <2>8. TableInv'
    <3>1. StoreInv' /\ LeasesKept
      BY Zenon, <1>4
    <3> QED
      BY Zenon, <1>6, <2>2, <2>4, <2>5, <2>6, <2>7, <3>1, PublicationRecorded DEF s
  <2> QED
    BY Zenon, <1>0, <1>6, <2>7, <2>8
<1> QED
  BY Zenon, <1>4, <1>5, <1>6

\* The table once a registration has written a reader key that names a present snapshot.
LEMMA ReaderRecorded ==
    ASSUME TableInv, StoreInv', LeasesKept, NEW key \in ReaderKeys, NEW s \in SnapshotKeys,
           Present(s), \A k \in Keys \ {key} : values'[k] = values[k],
           values'[key].value = s, generation' = generation, publications' = publications
    PROVE  TableInv'
<1>1. key \in Keys /\ key # current_key /\ key # writer_key /\ key \notin SnapshotKeys
  BY Zenon, KeyRoles
<1>2. \A k \in Keys \ {key} : values'[k] = values[k] /\ (Present(k)' <=> Present(k))
  BY Zenon DEF Present
<1>3. LockIsLatest'
  BY Zenon, <1>1, <1>2, KeyRoles DEF TableInv, LockIsLatest, LeasesKept
<1>4. CurrentIsLast' /\ SnapshotsUnleased'
  BY Zenon, <1>1, <1>2, KeyRoles DEF TableInv, CurrentIsLast, SnapshotsUnleased
<1>5. ReadersPin'
  BY Zenon, <1>1, <1>2, KeyRoles DEF TableInv, ReadersPin
<1>6. OneFencedChain'
  BY Zenon DEF TableInv, OneFencedChain
<1>7. ReferencedSnapshotsSurvive'
  <2>1. ASSUME Present(current_key)'
        PROVE  (Pointer(snapshot_key[Pointer(current_key)]) = Pointer(current_key))'
    <3>1. Present(current_key) /\ Pointer(current_key)' = Pointer(current_key)
      BY Zenon, <1>1, <1>2, <2>1, KeyRoles DEF Pointer
    <3>2. snapshot_key[Pointer(current_key)] \in SnapshotKeys
      BY Zenon, <3>1, CurrentPointer
    <3> QED
      BY Zenon, <1>1, <1>2, <3>1, <3>2, KeyRoles
         DEF TableInv, ReferencedSnapshotsSurvive, Pointer
  <2>2. ASSUME NEW k \in ReaderKeys, Present(k)' PROVE Present(values[k].value)'
    <3>1. CASE k = key
      BY Zenon, <1>1, <1>2, <3>1, KeyRoles DEF Present
    <3>2. CASE k # key
      <4>1. Present(k) /\ values'[k] = values[k]
        BY Zenon, <1>2, <2>2, <3>2, KeyRoles
      <4>2. values[k].value \in SnapshotKeys /\ Present(values[k].value)
        BY Zenon, <4>1 DEF TableInv, ReadersPin, ReferencedSnapshotsSurvive
      <4> QED
        BY Zenon, <1>1, <1>2, <4>1, <4>2, KeyRoles DEF Present
    <3> QED
      BY Zenon, <3>1, <3>2
  <2> QED
    BY Zenon, <2>1, <2>2 DEF ReferencedSnapshotsSurvive
<1> QED
  BY Zenon, <1>3, <1>4, <1>5, <1>6, <1>7 DEF TableInv

\* A registration succeeds only while the snapshot's record is present.
LEMMA RegistrationKeeps ==
    ASSUME TableInv, NEW o \in LeaseOwnership, NEW tick \in Ticks, NEW b,
           NEW p \in Pointers, NEW key \in ReaderKeys,
           Transact(RegisterOf(o, p, key), tick, b)
    PROVE  TableInv'
<1>0. PICK r : r = RegisterOf(o, p, key)
  BY Zenon
<1> DEFINE s == snapshot_key[p]
<1>1. /\ r.comparisons = {Equal(s, "value", p)} /\ r.lease_ownership = {o}
      /\ r.success = <<Write(key, s, o.id)>> /\ r.failure = <<>>
  BY Zenon, <1>0 DEF RegisterOf
<1>2. /\ s \in SnapshotKeys /\ s \in Values /\ p # 0
      /\ key \in Keys /\ key # current_key /\ key # writer_key /\ key \notin SnapshotKeys
  BY Zenon, KeyRoles
<1> HIDE DEF s
<1>3. Transact(r, tick, b) /\ transaction(r, tick)
  BY Zenon, <1>0, <1>1, TransactRecords
<1>4. /\ StoreInv' /\ LeasesKept
      /\ \/ /\ Succeeds(r, tick)
            /\ \A k \in Keys \ {key} : values'[k] = values[k]
            /\ values'[key].value = s
         \/ UNCHANGED values
  <2>1. StoreInv
    BY Zenon DEF TableInv
  <2>2. Write(key, s, o.id).key = key /\ Write(key, s, o.id).value = s
    BY Zenon DEF Write
  <2>3. OnlyPuts(r.success, {Write(key, s, o.id)}) /\ PutKeys(r.success) = {key}
    <3>1. o.id \in {0} \cup LeaseIds
      BY Zenon DEF LeaseOwnership
    <3>2. r.success = <<Write(key, s, o.id)>>
      BY Zenon, <1>1
    <3> QED
      BY Zenon, <1>2, <3>1, <3>2, OnePut
  <2>4. /\ StoreInv' /\ LeasesKept
        /\ \/ /\ Succeeds(r, tick)
              /\ \A k \in Keys \ PutKeys(r.success) : values'[k] = values[k]
              /\ \A x \in Puts(r.success) : values'[x.key].value = x.value
           \/ UNCHANGED values
    BY Zenon, <1>1, <1>3, <2>1, <2>3, FencedPuts DEF LeasesKept, OnlyPuts
  <2> QED
    BY Zenon, <2>2, <2>3, <2>4 DEF OnlyPuts
<1>5. CASE UNCHANGED values
  BY Zenon, <1>1, <1>3, <1>4, <1>5, RefusedKeeps
<1>6. CASE /\ Succeeds(r, tick)
           /\ \A k \in Keys \ {key} : values'[k] = values[k]
           /\ values'[key].value = s
  <2>1. Present(s)
    <3>1. CompareHolds(Equal(s, "value", p))
      BY Zenon, <1>1, <1>6 DEF Succeeds
    <3> QED
      BY <1>2, <3>1, EqualHolds
  <2>2. generation' = generation /\ publications' = publications
    <3>1. /\ values'[current_key] = values[current_key]
          /\ values'[writer_key] = values[writer_key]
      BY Zenon, <1>2, <1>6, KeyRoles
    <3> QED
      BY Zenon, <1>1, <1>3, <3>1, TransactRecords DEF Present
  <2> QED
    BY Zenon, <1>2, <1>4, <1>6, <2>1, <2>2, ReaderRecorded
<1> QED
  BY Zenon, <1>4, <1>5, <1>6

-----------------------------------------------------------------------------
(* Requests applied late, leases that end, and the collector *)

\* Every request a client sends, whenever it is applied.
LEMMA AttemptKeeps ==
    ASSUME TableInv, NEW r, NEW b, Attempt(r, b), NEW tick \in Ticks, Transact(r, tick, b)
    PROVE  TableInv'
  BY Zenon, ClaimKeeps, PublicationKeeps, RegistrationKeeps DEF Attempt

\* revoke_lease and expire_leases take the leased keys and no others.
LEMMA RemovalKeeps ==
    ASSUME TableInv, NEW ids \in SUBSET LiveLeases, remove_leases_locked(ids),
           NEW tick \in Ticks, tick >= logical_tick, logical_tick' = tick,
           UNCHANGED <<next_lease_id, next_fencing_token, publications, generation>>
    PROVE  TableInv'
<1>1. StoreInv'
  BY Zenon, RemovePreserves DEF TableInv
<1>2. values' = [k \in Keys |-> IF Present(k) /\ values[k].lease_id \in ids
                               THEN Absent ELSE values[k]]
  BY RemovalEffect DEF TableInv
<1>3. \A id \in LiveLeases \ ids : leases'[id] = leases[id]
  <2>1. CASE ids = {}
    BY Zenon, <2>1 DEF remove_leases_locked
  <2>2. CASE ids # {}
    BY Zenon, <2>2 DEF remove_leases_locked, CommitRevision, LiveLeases
  <2> QED
    BY <2>1, <2>2
<1>4. 0 \notin ids
  BY DEF LiveLeases, LeaseIds
<1>5. \A k \in Keys : Present(k)' =>
         Present(k) /\ values'[k] = values[k] /\ values[k].lease_id \notin ids
  BY <1>2 DEF Present
<1>6. \A k \in Keys : Present(k) /\ values[k].lease_id = 0 =>
         Present(k)' /\ values'[k] = values[k]
  BY Zenon, <1>2, <1>4 DEF Present
<1>7. LockIsLatest'
  <2> SUFFICES ASSUME Present(writer_key)'
               PROVE  LET id == values'[writer_key].lease_id
                      IN  /\ id \in LeaseIds /\ leases'[id] # Absent
                          /\ leases'[id].fencing_token = generation'
    BY Zenon DEF LockIsLatest, Live
  <2>1. /\ Present(writer_key) /\ values'[writer_key] = values[writer_key]
        /\ values[writer_key].lease_id \notin ids
    BY Zenon, <1>5, KeyRoles
  <2> DEFINE id == values[writer_key].lease_id
  <2>2. id \in LeaseIds /\ Live(id) /\ leases[id].fencing_token = generation
    BY Zenon, <2>1 DEF TableInv, LockIsLatest
  <2>3. leases'[id] = leases[id]
    BY Zenon, <1>3, <2>1, <2>2 DEF LiveLeases
  <2> QED
    BY Zenon, <2>1, <2>2, <2>3 DEF Live
<1>8. CurrentIsLast'
  <2>1. publications = <<>> => ~Present(current_key)'
    BY Zenon, <1>5, KeyRoles DEF TableInv, CurrentIsLast
  <2>2. publications # <<>> => Present(current_key)' /\ values'[current_key] = values[current_key]
    BY Zenon, <1>6, KeyRoles DEF TableInv, CurrentIsLast
  <2> QED
    BY Zenon, <2>1, <2>2 DEF TableInv, CurrentIsLast
<1>9. SnapshotsUnleased' /\ ReadersPin' /\ OneFencedChain'
  BY <1>5, KeyRoles DEF TableInv, SnapshotsUnleased, ReadersPin, OneFencedChain
<1>10. ReferencedSnapshotsSurvive'
  <2>1. ASSUME Present(current_key)'
        PROVE  (Pointer(snapshot_key[Pointer(current_key)]) = Pointer(current_key))'
    <3>1. Present(current_key) /\ Pointer(current_key)' = Pointer(current_key)
      BY Zenon, <1>5, <2>1, KeyRoles DEF Pointer
    <3> DEFINE s == snapshot_key[Pointer(current_key)]
    <3>2. s \in SnapshotKeys /\ s \in Keys /\ Pointer(s) = Pointer(current_key)
          /\ Pointer(current_key) # 0
      BY Zenon, <3>1, CurrentPointer, KeyRoles DEF TableInv, ReferencedSnapshotsSurvive
    <3>3. Present(s) /\ values[s].lease_id = 0
      BY Zenon, <3>2 DEF TableInv, SnapshotsUnleased, Pointer
    <3>4. values'[s] = values[s]
      BY Zenon, <1>6, <3>2, <3>3
    <3> QED
      BY Zenon, <3>1, <3>2, <3>3, <3>4 DEF Pointer, Present
  <2>2. ASSUME NEW k \in ReaderKeys, Present(k)' PROVE Present(values[k].value)'
    <3>1. Present(k) /\ values'[k] = values[k]
      BY Zenon, <1>5, <2>2, KeyRoles
    <3>2. /\ values[k].value \in SnapshotKeys /\ Present(values[k].value)
          /\ values[values[k].value].lease_id = 0
      BY Zenon, <3>1 DEF TableInv, ReadersPin, ReferencedSnapshotsSurvive, SnapshotsUnleased
    <3> QED
      BY Zenon, <1>6, <3>1, <3>2, KeyRoles DEF Present
  <2> QED
    BY Zenon, <2>1, <2>2 DEF ReferencedSnapshotsSurvive
<1> QED
  BY Zenon, <1>1, <1>7, <1>8, <1>9, <1>10 DEF TableInv

\* collect_snapshot deletes one snapshot that nothing refers to.
LEMMA CollectKeeps ==
    ASSUME TableInv, NEW s \in SnapshotKeys, collect_snapshot_if_unreferenced(s)
    PROVE  TableInv'
<1>0. PICK r : r = CollectRequest(s)
  BY Zenon
<1> DEFINE d == [op |-> "delete", start |-> s, end |-> s + 1]
<1>1. /\ r.comparisons = {Equal(s, "mod_revision", ModRevision(s))}
      /\ r.lease_ownership = {} /\ r.success = <<d>> /\ r.failure = <<>>
  BY Zenon, <1>0 DEF CollectRequest
<1>2. /\ Present(s) /\ Unreferenced(s) /\ transaction(r, logical_tick)
      /\ UNCHANGED <<publications, generation>>
  BY Zenon, <1>0 DEF collect_snapshot_if_unreferenced, historyVars
<1>3. /\ s \in Keys /\ s \in Nat /\ s # current_key /\ s # writer_key
      /\ s \notin ReaderKeys
  BY Zenon, KeyRoles, WatchConstants
<1>4. /\ d \in RequestOperation /\ d.op = "delete"
      /\ \A k \in Keys : InRange(k, d) <=> k = s
  BY <1>3, WatchConstants DEF RequestOperation, InRange
<1> HIDE DEF d
<1>5. r.success \in Seq(RequestOperation) /\ r.failure \in Seq(RequestOperation)
  BY <1>1, <1>4
<1>6. StoreInv'
  <2>1. StoreInv /\ logical_tick \in Ticks
    BY Zenon DEF TableInv, StoreInv, TypeOK
  <2>2. r.lease_ownership \subseteq LeaseOwnership
    BY <1>1
  <2> QED
    BY Zenon, <1>2, <1>5, <2>1, <2>2, TransactionPreserves
<1>7. /\ LeasesKept
      /\ UNCHANGED values \/ values' = [values EXCEPT ![s] = Absent]
  <2> DEFINE verified == {x \in r.lease_ownership : Owns(x, logical_tick)}
             succeeded == /\ \A c \in r.comparisons : CompareHolds(c)
                          /\ verified = r.lease_ownership
             ops == IF succeeded THEN r.success ELSE r.failure
             touched == PutKeys(ops) \cup DeletedKeys(ops)
             attach == [id \in LeaseIds |->
                          {p.key : p \in {q \in Puts(ops) : q.lease_id = id}}]
             nv == ApplyOperations(ops, revision + 1)
  <2>1. \/ CommitRevision(nv, Reattach(touched, attach), TransactionEvents(ops))
        \/ UNCHANGED <<revision, hubVars, values, leases>>
    BY Zenon, <1>2 DEF transaction
  <2>2. ops \in Seq(RequestOperation) /\ (ops = <<d>> \/ ops = <<>>)
    BY Zenon, <1>1, <1>5
  <2> HIDE DEF ops
  <2>3. attach \in [LeaseIds -> SUBSET Keys]
    BY Zenon, <2>2, OperationTypes
  <2>4. CASE UNCHANGED <<revision, hubVars, values, leases>>
    BY <2>4 DEF LeasesKept, Live
  <2>5. CASE CommitRevision(nv, Reattach(touched, attach), TransactionEvents(ops))
    <3>1. values' = nv /\ leases' = Reattach(touched, attach)
      BY Zenon, <2>5 DEF CommitRevision
    <3>2. LeasesKept
      <4> HIDE DEF attach, touched
      <4> QED
        BY Zenon, <2>3, <3>1, ReattachKeeps DEF TableInv, StoreInv, LeasesKept
    <3>3. PutKeys(ops) = {} /\ (DeletedKeys(ops) = {s} \/ DeletedKeys(ops) = {})
      <4>1. CASE ops = <<>>
        BY <4>1 DEF PutKeys, Puts, DeletedKeys, Deletes
      <4>2. CASE ops = <<d>>
        <5>1. DOMAIN ops = {1} /\ ops[1] = d
          BY <4>2
        <5>2. Puts(ops) = {} /\ Deletes(ops) = {d}
          BY Zenon, <1>4, <5>1 DEF Puts, Deletes
        <5>3. DeletedKeys(ops) = {s}
          BY Zenon, <1>2, <1>3, <1>4, <5>2 DEF DeletedKeys
        <5> QED
          BY <5>2, <5>3 DEF PutKeys
      <4> QED
        BY Zenon, <2>2, <4>1, <4>2
    <3>4. nv = [k \in Keys |-> IF k \in DeletedKeys(ops) THEN Absent ELSE values[k]]
      BY Zenon, <3>3 DEF ApplyOperations
    <3>5. values \in [Keys -> KeyValue \cup {Absent}]
      BY DEF TableInv, StoreInv, TypeOK
    <3> HIDE DEF nv
    <3> QED
      BY Zenon, <1>3, <3>1, <3>2, <3>3, <3>4, <3>5
  <2> QED
    BY Zenon, <2>1, <2>4, <2>5
<1>8. CASE UNCHANGED values
  BY Zenon, <1>2, <1>6, <1>7, <1>8, QuietKeeps
<1>9. CASE values' = [values EXCEPT ![s] = Absent]
  <2>1. /\ values'[s] = Absent
        /\ \A k \in Keys \ {s} : values'[k] = values[k] /\ (Present(k)' <=> Present(k))
    BY Zenon, <1>3, <1>9 DEF TableInv, StoreInv, TypeOK, Present
  <2>2. CurrentIsLast' /\ OneFencedChain' /\ ReadersPin'
    BY Zenon, <1>2, <1>3, <2>1, KeyRoles DEF TableInv, CurrentIsLast, OneFencedChain, ReadersPin
  <2>3. LockIsLatest'
    BY Zenon, <1>2, <1>3, <1>7, <2>1, KeyRoles DEF TableInv, LockIsLatest, LeasesKept
  <2>4. SnapshotsUnleased'
    BY Zenon, <2>1, KeyRoles DEF TableInv, SnapshotsUnleased, Present
  <2>5. ReferencedSnapshotsSurvive'
    <3>1. ASSUME Present(current_key)'
          PROVE  (Pointer(snapshot_key[Pointer(current_key)]) = Pointer(current_key))'
      <4>1. Present(current_key) /\ Pointer(current_key)' = Pointer(current_key)
        BY Zenon, <1>3, <2>1, <3>1, KeyRoles DEF Pointer
      <4> DEFINE t == snapshot_key[Pointer(current_key)]
      <4>2. t \in SnapshotKeys /\ t \in Keys /\ t # s
        BY Zenon, <1>2, <4>1, CurrentPointer, KeyRoles DEF Unreferenced
      <4>3. Pointer(t) = Pointer(current_key) /\ Pointer(current_key) # 0
        BY Zenon, <4>1, CurrentPointer, KeyRoles DEF TableInv, ReferencedSnapshotsSurvive
      <4>4. Present(t) /\ values'[t] = values[t]
        BY Zenon, <2>1, <4>2, <4>3 DEF Pointer
      <4> QED
        BY Zenon, <4>1, <4>2, <4>3, <4>4 DEF Pointer, Present
    <3>2. ASSUME NEW k \in ReaderKeys, Present(k)' PROVE Present(values[k].value)'
      <4>1. Present(k) /\ values'[k] = values[k]
        BY Zenon, <1>3, <2>1, <3>2, KeyRoles
      <4>2. /\ values[k].value \in SnapshotKeys /\ Present(values[k].value)
            /\ values[k].value # s
        BY Zenon, <1>2, <4>1 DEF TableInv, ReadersPin, ReferencedSnapshotsSurvive, Unreferenced
      <4> QED
        BY Zenon, <2>1, <4>1, <4>2, KeyRoles DEF Present
    <3> QED
      BY Zenon, <3>1, <3>2 DEF ReferencedSnapshotsSurvive
  <2> QED
    BY Zenon, <1>2, <1>6, <2>2, <2>3, <2>4, <2>5 DEF TableInv
<1> QED
  BY Zenon, <1>7, <1>8, <1>9
=============================================================================
