--------------------------- MODULE MetadataStore ----------------------------
(***************************************************************************)
(* InMemoryMetadataStore: revisioned key values, If/Then/Else transactions *)
(* and leases with fencing tokens.  Each public operation holds the mutex  *)
(* from its first check to its last assignment and changes nothing when it *)
(* throws, so an operation is one action and a throw is a disabled action. *)
(*                                                                         *)
(* Int64Max and Uint64Max are the integer widths: the code's exhaustion    *)
(* checks are guards against them.  Values are numbers in byte order, 0    *)
(* being the empty value.                                                  *)
(***************************************************************************)
EXTENDS WatchHub

CONSTANTS
    Values,             \* values clients write
    Uint64Max,          \* largest unsigned 64-bit value: ticks and tokens
    MaxActiveLeases,    \* StoreLimits::max_active_leases
    InitialRevision,    \* constructor argument
    InitialValues,      \* constructor arguments: maps from Keys
    Transactions        \* transaction requests clients make

VARIABLES
    values,             \* values_
    leases,             \* leases_
    logical_tick,       \* logical_tick_
    next_lease_id,      \* next_lease_id_
    next_fencing_token  \* next_fencing_token_

leaseVars == <<logical_tick, next_lease_id, next_fencing_token>>
vars == <<revision, hubVars, values, leases, leaseVars>>

maximum_lease_id == Int64Max - 1

LeaseIds == 1..maximum_lease_id
Ticks == 0..Uint64Max

KeyValue ==
    [value : Values, version : 1..Int64Max, create_revision : 1..Int64Max,
     mod_revision : 1..Int64Max, lease_id : {0} \cup LeaseIds]

StoredLease ==
    [fencing_token : 1..Uint64Max, granted_ttl : 1..Uint64Max,
     expiry_tick : Ticks, attached_keys : SUBSET Keys]

CompareTargets ==
    {"value", "version", "create_revision", "mod_revision", "lease_id"}

Compare ==
    [key : Keys, target : CompareTargets,
     result : {"equal", "not_equal", "greater", "less"}, expected : Nat]

LeaseOwnership == [id : LeaseIds, fencing_token : 1..Uint64Max]

\* A range read only matters for the requests it invalidates.
RequestOperation ==
    [op : {"range"}, start : Keys, end : Nat, revision : Nat]
    \cup [op : {"put"}, key : Keys, value : Values, lease_id : {0} \cup LeaseIds]
    \cup [op : {"delete"}, start : Keys, end : Nat]

TransactionRequest ==
    [comparisons : SUBSET Compare, lease_ownership : SUBSET LeaseOwnership,
     success : Seq(RequestOperation), failure : Seq(RequestOperation)]

ASSUME StoreConstants ==
    /\ Values \subseteq Nat
    /\ Uint64Max \in Nat \ {0}
    /\ MaxActiveLeases \in Nat
    /\ InitialRevision \in 0..Int64Max
    /\ \A v \in InitialValues : v \in [Keys -> KeyValue \cup {Absent}]
    /\ \A t \in Transactions :
         /\ t.comparisons \subseteq Compare
         /\ t.lease_ownership \subseteq LeaseOwnership
         /\ t.success \in Seq(RequestOperation)
         /\ t.failure \in Seq(RequestOperation)

ASSUME AbsentIsNoRecord == Absent \notin KeyValue /\ Absent \notin StoredLease

-----------------------------------------------------------------------------

Present(k) == values[k] # Absent
Live(id) == leases[id] # Absent

\* detach_key throws "lease attachment index is inconsistent" otherwise.
Detachable(k) ==
    LET id == values[k].lease_id
    IN  Present(k) /\ id # 0 => Live(id) /\ k \in leases[id].attached_keys

\* attach_key throws when the lease is missing or already holds the key.
Attachable(p) ==
    p.lease_id # 0 =>
      /\ Live(p.lease_id)
      /\ p.key \in leases[p.lease_id].attached_keys =>
           Present(p.key) /\ values[p.key].lease_id = p.lease_id

\* Mutant: a rewritten key stays in the index of its old lease.
MutReattach(ks, attach) ==
    [id \in LeaseIds |->
       IF ~Live(id) THEN Absent
       ELSE [leases[id] EXCEPT !.attached_keys = @ \cup attach[id]]]

\* detach_key for each of ks, then attach_key for the keys attach[id].
Reattach(ks, attach) ==
    [id \in LeaseIds |->
       IF ~Live(id) THEN Absent
       ELSE [leases[id] EXCEPT !.attached_keys =
               {k \in @ : ~(k \in ks /\ Present(k) /\ values[k].lease_id = id)}
               \cup attach[id]]]

NoKeys == [id \in LeaseIds |-> {}]

\* Mutant: a rewrite starts a new creation.
MutPutValue(k, v, lease_id, rev) ==
    [value |-> v,
     version |-> IF Present(k) THEN values[k].version + 1 ELSE 1,
     create_revision |-> rev,
     mod_revision |-> rev,
     lease_id |-> lease_id]

\* The stored record of a put at revision rev, keeping the key's creation.
PutValue(k, v, lease_id, rev) ==
    [value |-> v,
     version |-> IF Present(k) THEN values[k].version + 1 ELSE 1,
     create_revision |-> IF Present(k) THEN values[k].create_revision ELSE rev,
     mod_revision |-> rev,
     lease_id |-> lease_id]

VersionsLeft(k) == Present(k) => values[k].version < Int64Max

\* next_revision_locked, the swaps, and the publication of the same batch.
CommitRevision(newValues, newLeases, events) ==
    /\ revision < Int64Max
    /\ revision' = revision + 1
    /\ values' = newValues
    /\ leases' = newLeases
    /\ Publish(events, revision + 1)

-----------------------------------------------------------------------------
(* Point mutations *)

put_locked(k, v) ==
    /\ VersionsLeft(k)
    /\ Detachable(k)
    /\ CommitRevision([values EXCEPT ![k] = PutValue(k, v, 0, revision + 1)],
                      Reattach({k}, NoKeys),
                      {[type |-> "put", key |-> k]})
    /\ UNCHANGED leaseVars

put(k, v) == put_locked(k, v)

erase(k) ==
    /\ Present(k)
    /\ Detachable(k)
    /\ CommitRevision([values EXCEPT ![k] = Absent],
                      Reattach({k}, NoKeys),
                      {[type |-> "erase", key |-> k]})
    /\ UNCHANGED leaseVars

compare_and_set(k, expected_mod_revision, v) ==
    /\ expected_mod_revision = IF Present(k) THEN values[k].mod_revision ELSE 0
    /\ put_locked(k, v)

-----------------------------------------------------------------------------
(* Transactions *)

comparison_matches(actual, expected, result) ==
    CASE result = "equal" -> actual = expected
      [] result = "not_equal" -> actual # expected
      [] result = "greater" -> actual > expected
      [] result = "less" -> actual < expected

\* A missing key compares as zeros and the empty value.
CompareHolds(c) ==
    comparison_matches(IF Present(c.key) THEN values[c.key][c.target] ELSE 0,
                       c.expected, c.result)

\* Mutant: the deadline itself still counts as owned.
MutOwns(o, tick) ==
    /\ Live(o.id)
    /\ tick <= leases[o.id].expiry_tick
    /\ leases[o.id].fencing_token = o.fencing_token

\* Ownership is checked at the tick the request carries.
Owns(o, tick) ==
    /\ Live(o.id)
    /\ tick < leases[o.id].expiry_tick
    /\ leases[o.id].fencing_token = o.fencing_token

InRange(k, operation) == operation.start <= k /\ k < operation.end

Puts(ops) == {ops[i] : i \in {j \in DOMAIN ops : ops[j].op = "put"}}
Deletes(ops) == {ops[i] : i \in {j \in DOMAIN ops : ops[j].op = "delete"}}

PutKeys(ops) == {p.key : p \in Puts(ops)}
DeletedKeys(ops) == {k \in Keys : Present(k) /\ \E d \in Deletes(ops) : InRange(k, d)}

\* Two operations of one branch that may not stand together.
Conflict(a, b) ==
    \/ a.op = "put" /\ b.op = "put" /\ a.key = b.key
    \/ a.op = "put" /\ b.op = "delete" /\ InRange(a.key, b)
    \/ a.op = "delete" /\ b.op = "put" /\ InRange(b.key, a)
    \/ a.op = "delete" /\ b.op = "delete" /\ a.start < b.end /\ b.start < a.end

\* The validation pass over the selected branch.
ValidOperations(ops, verified) ==
    /\ \A i \in DOMAIN ops :
         /\ ops[i].op \in {"range", "delete"} => ops[i].start < ops[i].end
         /\ ops[i].op = "range" => ops[i].revision = 0
         /\ ops[i].op = "put" =>
              /\ ops[i].lease_id = 0 \/ \E o \in verified : o.id = ops[i].lease_id
              /\ VersionsLeft(ops[i].key)
    /\ \A i, j \in DOMAIN ops : i < j => ~Conflict(ops[i], ops[j])

\* values_ after the puts and range deletes of a valid branch.
ApplyOperations(ops, rev) ==
    [k \in Keys |->
       IF k \in PutKeys(ops)
       THEN LET p == CHOOSE q \in Puts(ops) : q.key = k
            IN  PutValue(k, p.value, p.lease_id, rev)
       ELSE IF k \in DeletedKeys(ops) THEN Absent ELSE values[k]]

TransactionEvents(ops) ==
    {[type |-> "put", key |-> k] : k \in PutKeys(ops)}
    \cup {[type |-> "erase", key |-> k] : k \in DeletedKeys(ops)}

transaction(request, tick) ==
    LET fenced == request.lease_ownership # {}
        verified == {o \in request.lease_ownership : Owns(o, tick)}
        succeeded == /\ \A c \in request.comparisons : CompareHolds(c)
                     /\ verified = request.lease_ownership
        ops == IF succeeded THEN request.success ELSE request.failure
        touched == PutKeys(ops) \cup DeletedKeys(ops)
        attach == [id \in LeaseIds |->
                     {p.key : p \in {q \in Puts(ops) : q.lease_id = id}}]
    IN  /\ fenced => tick >= logical_tick
        /\ ValidOperations(ops, verified)
        /\ \A k \in touched : Detachable(k)
        /\ \A p \in Puts(ops) : Attachable(p)
        /\ \/ /\ touched # {}
              /\ CommitRevision(ApplyOperations(ops, revision + 1),
                                Reattach(touched, attach),
                                TransactionEvents(ops))
           \/ /\ touched = {}
              /\ UNCHANGED <<revision, hubVars, values, leases>>
        /\ logical_tick' = IF fenced THEN tick ELSE logical_tick
        /\ UNCHANGED <<next_lease_id, next_fencing_token>>

-----------------------------------------------------------------------------
(* Leases *)

LiveLeases == {id \in LeaseIds : Live(id)}

\* Mutant: fencing tokens may run out.
MutGrantTokens(requested, ttl, tick) ==
    LET id == IF requested = 0 THEN next_lease_id ELSE requested
    IN  /\ tick >= logical_tick
        /\ tick <= Uint64Max - ttl
        /\ Cardinality(LiveLeases) < MaxActiveLeases
        /\ id \in LeaseIds
        /\ ~Live(id)
        /\ leases' = [leases EXCEPT ![id] =
               [fencing_token |-> next_fencing_token, granted_ttl |-> ttl,
                expiry_tick |-> tick + ttl, attached_keys |-> {}]]
        /\ next_lease_id' = IF id >= next_lease_id THEN id + 1 ELSE next_lease_id
        /\ next_fencing_token' = next_fencing_token + 1
        /\ logical_tick' = tick
        /\ UNCHANGED <<revision, hubVars, values>>

\* Mutant: a requested ID does not move the allocator.
MutGrantIds(requested, ttl, tick) ==
    LET id == IF requested = 0 THEN next_lease_id ELSE requested
    IN  /\ tick >= logical_tick
        /\ tick <= Uint64Max - ttl
        /\ next_fencing_token < Uint64Max
        /\ Cardinality(LiveLeases) < MaxActiveLeases
        /\ id \in LeaseIds
        /\ ~Live(id)
        /\ leases' = [leases EXCEPT ![id] =
               [fencing_token |-> next_fencing_token, granted_ttl |-> ttl,
                expiry_tick |-> tick + ttl, attached_keys |-> {}]]
        /\ next_lease_id' = IF requested = 0 THEN id + 1 ELSE next_lease_id
        /\ next_fencing_token' = next_fencing_token + 1
        /\ logical_tick' = tick
        /\ UNCHANGED <<revision, hubVars, values>>

\* requested = 0 asks for automatic allocation.
grant_lease(requested, ttl, tick) ==
    LET id == IF requested = 0 THEN next_lease_id ELSE requested
    IN  /\ tick >= logical_tick
        /\ tick <= Uint64Max - ttl
        /\ next_fencing_token < Uint64Max
        /\ Cardinality(LiveLeases) < MaxActiveLeases
        /\ id \in LeaseIds
        /\ ~Live(id)
        /\ leases' = [leases EXCEPT ![id] =
               [fencing_token |-> next_fencing_token, granted_ttl |-> ttl,
                expiry_tick |-> tick + ttl, attached_keys |-> {}]]
        /\ next_lease_id' = IF id >= next_lease_id THEN id + 1 ELSE next_lease_id
        /\ next_fencing_token' = next_fencing_token + 1
        /\ logical_tick' = tick
        /\ UNCHANGED <<revision, hubVars, values>>

\* Mutant: a keepalive with an older tick is not refused.
MutKeepAlive(id, token, tick) ==
    /\ IF Owns([id |-> id, fencing_token |-> token], tick)
       THEN /\ tick <= Uint64Max - leases[id].granted_ttl
            /\ leases' = [leases EXCEPT ![id].expiry_tick =
                            tick + leases[id].granted_ttl]
       ELSE UNCHANGED leases
    /\ logical_tick' = tick
    /\ UNCHANGED <<revision, hubVars, values, next_lease_id, next_fencing_token>>

\* A missing, expired or fenced lease is reported; time still advances.
keep_alive(id, token, tick) ==
    /\ tick >= logical_tick
    /\ IF Owns([id |-> id, fencing_token |-> token], tick)
       THEN /\ tick <= Uint64Max - leases[id].granted_ttl
            /\ leases' = [leases EXCEPT ![id].expiry_tick =
                            tick + leases[id].granted_ttl]
       ELSE UNCHANGED leases
    /\ logical_tick' = tick
    /\ UNCHANGED <<revision, hubVars, values, next_lease_id, next_fencing_token>>

\* The attachment index agrees with the key it is about to delete.
Removable(id) ==
    \A k \in leases[id].attached_keys : Present(k) /\ values[k].lease_id = id

AttachedKeys(ids) == UNION {leases[id].attached_keys : id \in ids}

\* Mutant: the keys of the removed leases stay.
MutRemoveLeases(ids) ==
    /\ \A id \in ids : Removable(id)
    /\ \/ /\ ids # {}
          /\ CommitRevision(
               values,
               [id \in LeaseIds |-> IF id \in ids THEN Absent ELSE leases[id]],
               {[type |-> "erase", key |-> k] : k \in AttachedKeys(ids)})
       \/ /\ ids = {}
          /\ UNCHANGED <<revision, hubVars, values, leases>>

\* One revision for the batch, none when nothing is removed.
remove_leases_locked(ids) ==
    LET deleted == AttachedKeys(ids)
    IN  /\ \A id \in ids : Removable(id)
        /\ \/ /\ ids # {}
              /\ CommitRevision(
                   [k \in Keys |-> IF k \in deleted THEN Absent ELSE values[k]],
                   [id \in LeaseIds |-> IF id \in ids THEN Absent ELSE leases[id]],
                   {[type |-> "erase", key |-> k] : k \in deleted})
           \/ /\ ids = {}
              /\ UNCHANGED <<revision, hubVars, values, leases>>

\* Revocation is fenced by the token alone; an expired lease may be revoked.
revoke_lease(id, token, tick) ==
    /\ tick >= logical_tick
    /\ remove_leases_locked(
         IF Live(id) /\ leases[id].fencing_token = token THEN {id} ELSE {})
    /\ logical_tick' = tick
    /\ UNCHANGED <<next_lease_id, next_fencing_token>>

expire_leases(tick) ==
    /\ tick >= logical_tick
    /\ remove_leases_locked({id \in LiveLeases : leases[id].expiry_tick <= tick})
    /\ logical_tick' = tick
    /\ UNCHANGED <<next_lease_id, next_fencing_token>>

-----------------------------------------------------------------------------
(* Snapshots: snapshot() and the constructor that checks one *)

\* What the snapshot constructor verifies before it accepts a snapshot.
SnapshotAccepted ==
    /\ next_lease_id > 0 /\ next_fencing_token > 0
    /\ Cardinality(LiveLeases) <= MaxActiveLeases
    /\ \A id \in LiveLeases :
         /\ leases[id].fencing_token > 0 /\ leases[id].granted_ttl > 0
         /\ id < next_lease_id
         /\ leases[id].fencing_token < next_fencing_token
         /\ Removable(id)
    /\ \A k \in Keys : Present(k) =>
         /\ values[k].version > 0 /\ values[k].create_revision > 0
         /\ values[k].create_revision <= values[k].mod_revision
         /\ values[k].mod_revision <= revision
         /\ Detachable(k)

\* Mutant: the token counter is rebuilt from the leases that are live.
MutRestoreSnapshot ==
    /\ SnapshotAccepted
    /\ ResetHub
    /\ next_fencing_token' =
         CHOOSE t \in 1..Uint64Max :
            /\ \A id \in LiveLeases : leases[id].fencing_token < t
            /\ t = 1 \/ \E id \in LiveLeases : leases[id].fencing_token = t - 1
    /\ UNCHANGED <<revision, values, leases, logical_tick, next_lease_id>>

\* A process restarted from snapshot(): watch state is not part of it.
RestoreSnapshot ==
    /\ SnapshotAccepted
    /\ ResetHub
    /\ UNCHANGED <<revision, values, leases, leaseVars>>

-----------------------------------------------------------------------------

\* What the initial-values constructor verifies.
InitialAccepted(initial) ==
    \A k \in Keys : initial[k] # Absent =>
       /\ initial[k].create_revision <= initial[k].mod_revision
       /\ initial[k].mod_revision <= InitialRevision
       /\ initial[k].lease_id = 0

Init ==
    /\ revision = InitialRevision
    /\ values \in {v \in InitialValues : InitialAccepted(v)}
    /\ leases = [id \in LeaseIds |-> Absent]
    /\ logical_tick = 0
    /\ next_lease_id = 1
    /\ next_fencing_token = 1
    /\ InitHub

Mutation ==
    \/ \E k \in Keys, v \in Values : put(k, v)
    \/ \E k \in Keys : erase(k)
    \/ \E k \in Keys, v \in Values, r \in 0..Int64Max : compare_and_set(k, r, v)
    \/ \E t \in Transactions :
         \E tick \in IF t.lease_ownership = {} THEN {0} ELSE Ticks :
            transaction(t, tick)

LeaseOperation ==
    \/ \E id \in {0} \cup LeaseIds, ttl \in 1..Uint64Max, tick \in Ticks :
         grant_lease(id, ttl, tick)
    \/ \E id \in LeaseIds, token \in 1..Uint64Max, tick \in Ticks :
         keep_alive(id, token, tick) \/ revoke_lease(id, token, tick)
    \/ \E tick \in Ticks : expire_leases(tick)

WatchOperation ==
    /\ \E w \in WatchIds :
         \/ \E q \in WatchRequests, r \in 0..Int64Max : create_watch(w, q, r)
         \/ poll_watch(w)
         \/ request_watch_progress(w)
         \/ cancel_watch(w)
    /\ UNCHANGED <<values, leases, leaseVars>>

Next == Mutation \/ LeaseOperation \/ WatchOperation \/ RestoreSnapshot

Spec == Init /\ [][Next]_vars

-----------------------------------------------------------------------------
(* Properties *)

\* revision_, the lease counters and every stored record stay in range: none
\* of the 64-bit counters passes its maximum, zero is never handed out.
TypeOK ==
    /\ revision \in 0..Int64Max
    /\ values \in [Keys -> KeyValue \cup {Absent}]
    /\ leases \in [LeaseIds -> StoredLease \cup {Absent}]
    /\ logical_tick \in Ticks
    /\ next_lease_id \in 1..Int64Max
    /\ next_fencing_token \in 1..Uint64Max

(***************************************************************************)
(* The key records and the lease attachment index name each other, so none *)
(* of the std::logic_error checks of detach_key, attach_key and            *)
(* remove_leases_locked can fire, whatever sequence of puts, transactions, *)
(* grants, revocations and expiries came before.                           *)
(***************************************************************************)
AttachmentIndexConsistent ==
    /\ \A id \in LiveLeases : Removable(id)
    /\ \A k \in Keys : Detachable(k)

(***************************************************************************)
(* Every snapshot the store can produce passes every check of the          *)
(* snapshot constructor: a restart from it never throws.                   *)
(***************************************************************************)
EverySnapshotRestores == SnapshotAccepted

Generation(id, token) == Live(id) /\ leases[id].fencing_token = token

(***************************************************************************)
(* A lease generation, the pair of an ID and a fencing token, that is not  *)
(* live after its token was issued never becomes live again, even when the *)
(* ID is granted again: a paused holder stays fenced out.                  *)
(***************************************************************************)
NoGenerationReturns ==
    [][/\ next_fencing_token' >= next_fencing_token
       /\ \A id \in LeaseIds, token \in 1..Uint64Max :
            token < next_fencing_token /\ ~Generation(id, token)
              => ~Generation(id, token)']_vars

\* No deadline lies further ahead than one full TTL from the applied tick.
DeadlineWithinTtl ==
    \A id \in LiveLeases :
       leases[id].expiry_tick <= logical_tick + leases[id].granted_ttl

(***************************************************************************)
(* While a lease generation lives its deadline never moves back, whichever *)
(* ticks its keepalives and the other operations carry, and a lease past   *)
(* its deadline is never revived.                                          *)
(***************************************************************************)
DeadlineNeverMovesBack ==
    [][\A id \in LeaseIds :
         Live(id) /\ Generation(id, leases[id].fencing_token)' =>
           /\ leases'[id].expiry_tick >= leases[id].expiry_tick
           /\ leases[id].expiry_tick <= logical_tick =>
                leases'[id].expiry_tick = leases[id].expiry_tick]_vars

(***************************************************************************)
(* A step that writes a key under a lease does it within that lease's      *)
(* deadline, at the tick the step itself applies.                          *)
(***************************************************************************)
LeasedWriteBeforeDeadline ==
    [][\A k \in Keys :
         LET v == values'[k]
         IN  v # values[k] /\ v # Absent /\ v.lease_id # 0 =>
               /\ Live(v.lease_id)
               /\ logical_tick' < leases[v.lease_id].expiry_tick]_vars

(***************************************************************************)
(* A lease ends together with exactly the keys written under it, in one    *)
(* revision: no key outlives its lease and no other key goes with it.      *)
(***************************************************************************)
LeaseEndsWithItsKeys ==
    [][LET ended == {id \in LiveLeases : leases'[id] = Absent}
           owned(k) == Present(k) /\ values[k].lease_id \in ended
       IN  ended # {} =>
             /\ revision' = revision + 1
             /\ values' = [k \in Keys |-> IF owned(k) THEN Absent ELSE values[k]]]_vars

(***************************************************************************)
(* Key metadata follows the revision: a step commits at most one revision, *)
(* every key it writes carries that revision as mod_revision, a rewrite    *)
(* keeps create_revision and counts one version, a new key starts over.    *)
(***************************************************************************)
KeyMetadataFollowsRevision ==
    [][/\ revision' \in {revision, revision + 1}
       /\ values' # values => revision' = revision + 1
       /\ \A k \in Keys : values'[k] # values[k] /\ values'[k] # Absent =>
            /\ values'[k].mod_revision = revision'
            /\ values'[k].create_revision = IF Present(k)
                                            THEN values[k].create_revision
                                            ELSE revision'
            /\ values'[k].version = IF Present(k) THEN values[k].version + 1 ELSE 1]_vars
=============================================================================
