-------------------------- MODULE KuraClientProofs --------------------------
(***************************************************************************)
(* Proofs about KuraClient for every number of writers, readers and        *)
(* followers, every set of snapshots and keys, every bound on calls and    *)
(* faults, every lease duration and every integer width: every step of     *)
(* every client keeps the table's invariant and what the clients rely on   *)
(* between their calls, the answers stay true, and the theorems.           *)
(***************************************************************************)
EXTENDS KuraTableProofs

-----------------------------------------------------------------------------
(* The clients *)

\* Places where a client has been granted a lease.
Granted == {"claim", "register", "held", "revoke", "publish", "conflict", "resolve"}

Places ==
    Granted \cup {"idle", "grant_writer", "grant_reader",
                 "poll", "wait", "done", "unwind", "resync", "failed"}

PublishResult ==
    [status : {"none", "published", "recovered", "conflict"},
     revision : Nat, pointer : Nat, token : Nat, base : Nat]

(***************************************************************************)
(* A client that may send a request has a lease and the arguments of its   *)
(* call, and an orphan is a request some client sent.                      *)
(***************************************************************************)
ClientTypes ==
    /\ roster \in DOMAIN Rosters
    /\ pc \in [Clients -> Places]
    /\ session \in [Guards -> LeaseOwnership \cup {NoLease}]
    /\ DOMAIN active = Guards
    /\ base \in [Guards -> Nat]
    /\ pointer \in [Guards -> Pointers \cup {0}]
    /\ outcome \in [Guards -> PublishResult]
    /\ reader_key \in [Readers -> ReaderKeys \cup {0}]

ClientAt(c) ==
    /\ pc[c] \in Granted \/ active[c] => session[c] \in LeaseOwnership
    /\ pc[c] \in {"publish", "conflict", "resolve"} => pointer[c] \in Pointers
    /\ pc[c] \in {"grant_reader", "register"} =>
         c \in Readers /\ pointer[c] \in Pointers /\ reader_key[c] \in ReaderKeys

OrphansSent == \A a \in orphans : Attempt(a.request, a.base)

ClientInv == ClientTypes /\ (\A c \in Guards : ClientAt(c)) /\ OrphansSent

KuraInv == TableInv /\ ClientInv /\ OutcomesAreTrue

\* The roster's bounds are in range.
LEMMA BoundsTypes ==
    ASSUME KuraInv
    PROVE  /\ Now \subseteq Ticks /\ \A tick \in Now : tick >= logical_tick
           /\ Bounds.ttl \in 1..Uint64Max
           /\ \A c \in Bounds.clients \cap Guards : Bounds.pointers[c] \subseteq Pointers
<1>1. /\ Bounds.ttl \in 1..Uint64Max /\ Bounds.ticks \in Ticks
      /\ \A c \in Bounds.clients \cap Guards : Bounds.pointers[c] \subseteq Pointers
  BY Zenon, KuraConstants DEF KuraInv, ClientInv, ClientTypes, ClientAt, OrphansSent, Bounds
<1>2. logical_tick \in Ticks
  BY Zenon DEF KuraInv, TableInv, StoreInv, TypeOK
<1>3. Now \subseteq Ticks /\ \A tick \in Now : tick >= logical_tick
  BY <1>1, <1>2, StoreConstants DEF Now, Ticks
<1> QED
  BY Zenon, <1>1, <1>3

\* What a client sends is one of the three requests.
LEMMA RequestIsAttempt ==
    ASSUME ClientInv, NEW c \in Guards
    PROVE  /\ pc[c] \in {"claim", "register"} => Attempt(Request(c), 0)
           /\ pc[c] = "publish" => Attempt(PublishRequest(c), base[c])
<1>1. CASE pc[c] = "claim"
  <2>1. Request(c) = ClaimOf(session[c])
    BY <1>1 DEF Request, ClaimRequest, ClaimOf, Fenced
  <2>2. session[c] \in LeaseOwnership
    BY Zenon, <1>1 DEF ClientInv, ClientTypes, ClientAt, OrphansSent, Granted
  <2> QED
    BY Zenon, <1>1, <2>1, <2>2 DEF Attempt
<1>2. CASE pc[c] = "register"
  <2>1. Request(c) = RegisterOf(session[c], pointer[c], reader_key[c])
    BY Zenon, <1>2 DEF Request, RegisterRequest, RegisterOf, Fenced
  <2>2. session[c] \in LeaseOwnership /\ pointer[c] \in Pointers /\ reader_key[c] \in ReaderKeys
    BY Zenon, <1>2 DEF ClientInv, ClientTypes, ClientAt, OrphansSent, Granted
  <2> QED
    BY Zenon, <1>2, <2>1, <2>2 DEF Attempt
<1>3. CASE pc[c] = "publish"
  <2>1. PublishRequest(c) = PublishOf(session[c], pointer[c], base[c])
    BY Zenon DEF PublishRequest, PublishOf, Fenced
  <2>2. session[c] \in LeaseOwnership /\ pointer[c] \in Pointers /\ base[c] \in Nat
    BY Zenon, <1>3 DEF ClientInv, ClientTypes, ClientAt, OrphansSent, Granted
  <2> QED
    BY Zenon, <1>3, <2>1, <2>2 DEF Attempt
<1> QED
  BY Zenon, <1>1, <1>2, <1>3

-----------------------------------------------------------------------------
(* What a step does to the table *)

Quiet ==
    /\ StoreInv' /\ LeasesKept
    /\ UNCHANGED <<values, publications, generation>>

Sent == \E r, b : \E tick \in Ticks : Attempt(r, b) /\ Transact(r, tick, b)

Ended ==
    \E ids \in SUBSET LiveLeases, tick \in Ticks :
       /\ remove_leases_locked(ids)
       /\ tick >= logical_tick /\ logical_tick' = tick
       /\ UNCHANGED <<next_lease_id, next_fencing_token, publications, generation>>

Collected == \E s \in SnapshotKeys : collect_snapshot_if_unreferenced(s)

TableStep == Quiet \/ Sent \/ Ended \/ Collected

\* Any such step keeps the table, and publications are only appended.
LEMMA TableStepKeeps ==
    ASSUME TableInv, TableStep
    PROVE  /\ TableInv'
           /\ publications' = publications
              \/ \E x : publications' = Append(publications, x)
<1>1. CASE Quiet
  BY <1>1, QuietKeeps DEF Quiet
<1>2. CASE Sent
  <2>1. PICK r, b : \E tick \in Ticks : Attempt(r, b) /\ Transact(r, tick, b)
    BY <1>2 DEF Sent
  <2>2. TableInv'
    BY <2>1, AttemptKeeps
  <2>3. publications' = publications \/ \E x : publications' = Append(publications, x)
    BY Zenon, <2>1 DEF Transact
  <2> QED
    BY <2>2, <2>3
<1>3. CASE Ended
  BY <1>3, RemovalKeeps DEF Ended
<1>4. CASE Collected
  BY Zenon, <1>4, CollectKeeps DEF Collected, collect_snapshot_if_unreferenced, historyVars
<1> QED
  BY Zenon, <1>1, <1>2, <1>3, <1>4 DEF TableStep

\* The store is not touched at all, or only its watches are.
LEMMA UntouchedIsQuiet ==
    ASSUME KuraInv, UNCHANGED <<revision, values, leases, leaseVars, historyVars>>
    PROVE  Quiet
<1>1. StoreInv'
  BY Zenon DEF KuraInv, TableInv, leaseVars, StoreInv, TypeOK, SnapshotAccepted,
         DeadlineWithinTtl, LiveLeases, Live, Present, Removable, Detachable
<1> QED
  BY Zenon, <1>1 DEF Quiet, LeasesKept, Live, historyVars

\* A renewal moves nothing but a deadline.
LEMMA KeepAliveIsQuiet ==
    ASSUME KuraInv, NEW id \in LeaseIds, NEW token \in 1..Uint64Max, NEW tick \in Ticks,
           keep_alive(id, token, tick), UNCHANGED historyVars
    PROVE  Quiet
<1>1. StoreInv /\ StoreInv'
  BY Zenon, KeepAlivePreserves DEF KuraInv, TableInv
<1>2. UNCHANGED <<values, publications, generation>>
  BY Zenon DEF keep_alive, historyVars
<1>3. LeasesKept
  <2>1. CASE UNCHANGED leases
    BY Zenon, <2>1 DEF LeasesKept, Live
  <2>2. CASE leases' = [leases EXCEPT ![id].expiry_tick = tick + leases[id].granted_ttl]
    <3> SUFFICES ASSUME NEW j \in LeaseIds, Live(j)
                 PROVE  leases'[j] # Absent
                        /\ leases'[j].fencing_token = leases[j].fencing_token
      BY Zenon DEF LeasesKept, Live
    <3>1. leases[j] \in StoredLease
      BY Zenon, <1>1 DEF Live, StoreInv, TypeOK
    <3>2. CASE j # id
      BY <1>1, <2>2, <3>2 DEF Live, StoreInv, TypeOK
    <3>3. CASE j = id
      <4>1. leases'[j] = [leases[j] EXCEPT !.expiry_tick = tick + leases[j].granted_ttl]
        BY <1>1, <2>2, <3>3 DEF StoreInv, TypeOK
      <4>2. leases'[j].fencing_token = leases[j].fencing_token
        BY <3>1, <4>1 DEF StoredLease
      <4>3. Live(j)'
        <5>1. tick + leases[j].granted_ttl \in Ticks \/ UNCHANGED leases
          BY <3>1, <3>3, StoreConstants DEF keep_alive, StoredLease, Ticks
        <5>2. CASE tick + leases[j].granted_ttl \in Ticks
          <6>1. leases'[j] \in StoredLease
            BY Zenon, <3>1, <4>1, <5>2 DEF StoredLease
          <6> QED
            BY Zenon, <6>1, AbsentIsNoRecord DEF Live
        <5> QED
          BY Zenon, <5>1, <5>2 DEF Live
      <4> QED
        BY <4>2, <4>3 DEF Live
    <3> QED
      BY Zenon, <3>2, <3>3
  <2> QED
    BY Zenon, <2>1, <2>2 DEF keep_alive
<1> QED
  BY <1>1, <1>2, <1>3 DEF Quiet

\* A grant adds a lease, and the client learns its ID and token.
LEMMA GrantIsQuiet ==
    ASSUME KuraInv, NEW ttl \in 1..Uint64Max, NEW tick \in Ticks,
           grant_lease(0, ttl, tick), UNCHANGED historyVars
    PROVE  /\ Quiet
           /\ [id |-> next_lease_id, fencing_token |-> next_fencing_token] \in LeaseOwnership
<1> DEFINE lease == [fencing_token |-> next_fencing_token, granted_ttl |-> ttl,
                     expiry_tick |-> tick + ttl, attached_keys |-> {}]
<1>1. StoreInv /\ StoreInv'
  BY Zenon, GrantPreserves DEF KuraInv, TableInv
<1>2. /\ next_lease_id \in LeaseIds /\ ~Live(next_lease_id)
      /\ leases' = [leases EXCEPT ![next_lease_id] = lease]
      /\ UNCHANGED <<values, publications, generation>>
  BY Zenon DEF grant_lease, historyVars
<1> HIDE DEF lease
<1>3. LeasesKept
  BY Zenon, <1>1, <1>2 DEF LeasesKept, Live, StoreInv, TypeOK
<1>4. next_fencing_token \in 1..Uint64Max
  BY Zenon, <1>1 DEF StoreInv, TypeOK
<1> QED
  BY Zenon, <1>1, <1>2, <1>3, <1>4 DEF Quiet, LeaseOwnership

\* A call that ends uncertain was applied, or is left as an orphan.
LEMMA UncertainIsTableStep ==
    ASSUME KuraInv, NEW r, NEW b, Attempt(r, b), TransactUncertain(r, b)
    PROVE  TableStep /\ OrphansSent'
<1>1. CASE (\E tick \in Now : Transact(r, tick, b)) /\ UNCHANGED orphans
  <2>1. Sent
    BY Zenon, <1>1, BoundsTypes DEF Sent
  <2> QED
    BY Zenon, <1>1, <2>1 DEF TableStep, KuraInv, ClientInv, ClientTypes, ClientAt, OrphansSent
<1>2. CASE /\ orphans' = orphans \cup {[request |-> r, base |-> b]}
           /\ UNCHANGED <<vars, historyVars>>
  <2>1. Quiet
    BY <1>2, UntouchedIsQuiet DEF vars
  <2> QED
    BY <1>2, <2>1 DEF TableStep, KuraInv, ClientInv, ClientTypes, ClientAt, OrphansSent
<1> QED
  BY <1>1, <1>2 DEF TransactUncertain

(***************************************************************************)
(* Every step of every client, and of the host, is such a step.            *)
(***************************************************************************)
LEMMA KuraStepIsTableStep ==
    ASSUME KuraInv, [KuraNext]_kuraVars
    PROVE  TableStep
<1>1. CASE UNCHANGED <<revision, values, leases, leaseVars, historyVars>>
  BY Zenon, <1>1, UntouchedIsQuiet DEF TableStep
<1>2. ASSUME NEW c \in Guards, c \in Bounds.clients, Acquire(c) PROVE TableStep
  <2>1. CASE AcquireRead(c) \/ RegisterBegin(c)
    BY Zenon, <1>1, <2>1 DEF AcquireRead, RegisterBegin, vars
  <2>2. CASE Grant(c)
    <3>1. PICK tick \in Now : grant_lease(0, Bounds.ttl, tick)
      BY Zenon, <2>2 DEF Grant
    <3>2. UNCHANGED historyVars
      BY Zenon, <2>2 DEF Grant
    <3>3. Quiet
      BY Zenon, <3>1, <3>2, BoundsTypes, GrantIsQuiet
    <3> QED
      BY Zenon, <3>3 DEF TableStep
  <2>3. CASE Claim(c)
    <3>1. PICK r : r = Request(c)
      OBVIOUS
    <3>2. Attempt(r, 0)
      BY Zenon, <2>3, <3>1, RequestIsAttempt DEF Claim, KuraInv
    <3>3. \E tick \in Ticks : Transact(r, tick, 0)
      BY Zenon, <2>3, <3>1, BoundsTypes DEF Claim
    <3> QED
      BY Zenon, <3>2, <3>3 DEF TableStep, Sent
  <2>4. CASE ClaimUncertain(c)
    <3>1. PICK r : r = Request(c)
      BY Zenon
    <3>2. Attempt(r, 0)
      BY Zenon, <2>4, <3>1, RequestIsAttempt DEF ClaimUncertain, KuraInv
    <3>3. TransactUncertain(r, 0)
      BY Zenon, <2>4, <3>1 DEF ClaimUncertain
    <3> QED
      BY Zenon, <3>2, <3>3, UncertainIsTableStep
  <2> QED
    BY Zenon, <1>2, <2>1, <2>2, <2>3, <2>4 DEF Acquire
<1>3. ASSUME NEW c \in Guards, Session(c) PROVE TableStep
  <2>1. CASE Revoke(c)
    <3>1. session[c].id \in LeaseIds /\ session[c].fencing_token \in 1..Uint64Max
      BY Zenon, <2>1 DEF Revoke, KuraInv, ClientInv, ClientTypes, ClientAt, OrphansSent, Granted,
         LeaseOwnership
    <3>2. PICK tick \in Now : revoke_lease(session[c].id, session[c].fencing_token, tick)
      BY Zenon, <2>1 DEF Revoke
    <3>3. UNCHANGED <<publications, generation>>
      BY Zenon, <2>1 DEF Revoke, historyVars
    <3>4. TypeOK /\ tick \in Ticks
      BY Zenon, BoundsTypes DEF KuraInv, TableInv, StoreInv
    <3>5. Ended
      BY Zenon, <3>1, <3>2, <3>3, <3>4, RemovalForms DEF Ended
    <3> QED
      BY Zenon, <3>5 DEF TableStep
  <2>2. CASE Abandon(c)
    BY Zenon, <1>1, <2>2 DEF Abandon, vars
  <2>3. ASSUME active[c], UNCHANGED historyVars, NEW tick \in Now,
               keep_alive(session[c].id, session[c].fencing_token, tick)
        PROVE  TableStep
    <3>1. session[c].id \in LeaseIds /\ session[c].fencing_token \in 1..Uint64Max
      BY Zenon, <2>3 DEF KuraInv, ClientInv, ClientTypes, ClientAt, OrphansSent, LeaseOwnership
    <3>2. Quiet
      BY Zenon, <2>3, <3>1, BoundsTypes, KeepAliveIsQuiet
    <3> QED
      BY <3>2 DEF TableStep
  <2>4. CASE SessionKeepAlive(c)
    BY Zenon, <2>3, <2>4 DEF SessionKeepAlive
  <2>5. CASE SessionKeepAliveFails(c)
    BY Zenon, <1>1, <2>3, <2>5 DEF SessionKeepAliveFails, vars
  <2> QED
    BY Zenon, <1>3, <2>1, <2>2, <2>4, <2>5 DEF Session
<1>4. ASSUME NEW c \in Guards, publish_snapshot(c) PROVE TableStep
  <2>1. CASE PublishBegin(c) \/ PublishConflict(c) \/ PublishResolve(c)
    BY Zenon, <1>1, <2>1 DEF PublishBegin, PublishConflict, PublishResolve, vars
  <2>2. PICK r, b : r = PublishRequest(c) /\ b = base[c]
    BY Zenon
  <2>3. pc[c] = "publish" => Attempt(r, b)
    BY Zenon, <2>2, RequestIsAttempt DEF KuraInv
  <2>4. CASE PublishCall(c)
    <3>1. \E tick \in Ticks : Transact(r, tick, b)
      BY Zenon, <2>2, <2>4, BoundsTypes DEF PublishCall
    <3> QED
      BY Zenon, <2>3, <2>4, <3>1 DEF PublishCall, TableStep, Sent
  <2>5. CASE PublishUncertain(c)
    <3>1. TransactUncertain(r, b)
      BY Zenon, <2>2, <2>5 DEF PublishUncertain
    <3> QED
      BY Zenon, <2>3, <2>5, <3>1, UncertainIsTableStep DEF PublishUncertain
  <2> QED
    BY Zenon, <1>4, <2>1, <2>4, <2>5 DEF publish_snapshot
<1>5. ASSUME NEW f \in Followers, await_snapshot_change(f) PROVE TableStep
  <2>1. UNCHANGED <<values, leases, leaseVars, historyVars>>
    BY Zenon, <1>5 DEF await_snapshot_change, AwaitCreate, AwaitPoll, AwaitTimeout,
                AwaitCleanup, current_snapshot, FollowerFrame
  <2>2. UNCHANGED revision
    BY Zenon, <1>5 DEF await_snapshot_change, AwaitCreate, AwaitPoll, AwaitTimeout,
                AwaitCleanup, current_snapshot, create_watch, poll_watch, cancel_watch
  <2> QED
    BY Zenon, <1>1, <2>1, <2>2
<1>6. ASSUME NEW s \in SnapshotKeys, collect_snapshot_if_unreferenced(s) PROVE TableStep
  BY <1>6 DEF TableStep, Collected
<1>7. CASE ApplyOrphan
  <2>1. PICK a \in orphans : \E tick \in Now : Transact(a.request, tick, a.base)
    BY Zenon, <1>7 DEF ApplyOrphan
  <2>2. Attempt(a.request, a.base)
    BY Zenon DEF KuraInv, ClientInv, ClientTypes, ClientAt, OrphansSent
  <2>3. Sent
    BY Zenon, <2>1, <2>2, BoundsTypes DEF Sent
  <2> QED
    BY <2>3 DEF TableStep
<1>8. CASE ExpireLeases
  <2>1. PICK tick \in Now : expire_leases(tick)
    BY <1>8 DEF ExpireLeases
  <2>2. UNCHANGED <<publications, generation>>
    BY <1>8 DEF ExpireLeases, historyVars
  <2>3. TypeOK /\ tick \in Ticks
    BY BoundsTypes DEF KuraInv, TableInv, StoreInv
  <2>4. Ended
    BY Zenon, <2>1, <2>2, <2>3, RemovalForms DEF Ended
  <2> QED
    BY Zenon, <2>4 DEF TableStep
<1>9. CASE UNCHANGED kuraVars
  BY <1>1, <1>9 DEF kuraVars, vars
<1>10. CASE KuraNext
  BY Zenon, <1>2, <1>3, <1>4, <1>5, <1>6, <1>7, <1>8, <1>10 DEF KuraNext
<1> QED
  BY <1>9, <1>10

-----------------------------------------------------------------------------
(* What a step does to the clients *)

\* The other clients stay where they are.
OnlyMoves(c) ==
    \A d \in Guards \ {c} :
       /\ pc'[d] = pc[d] /\ session'[d] = session[d] /\ active'[d] = active[d]
       /\ pointer'[d] = pointer[d]
       /\ d \in Readers => reader_key'[d] = reader_key[d]

\* A step of one client disturbs the invariant of that client only.
LEMMA ClientMoves ==
    ASSUME ClientInv, NEW c, ClientTypes', OnlyMoves(c),
           c \in Guards => ClientAt(c)', OrphansSent'
    PROVE  ClientInv'
<1>1. ASSUME NEW d \in Guards PROVE ClientAt(d)'
  BY Zenon, <1>1 DEF ClientInv, ClientAt, OnlyMoves
<1> QED
  BY Zenon, <1>1 DEF ClientInv

\* Leave puts a client back to its first state.
LEMMA LeaveMoves ==
    ASSUME KuraInv, NEW c \in Guards, Leave(c), UNCHANGED <<roster, reader_key>>, OrphansSent'
    PROVE  ClientInv'
<1>1. ClientInv
  BY DEF KuraInv
<1>2. ClientTypes'
  BY Zenon, <1>1 DEF ClientInv, ClientTypes, Leave, Goto, NoOutcome, PublishResult, Places, Clients
<1>3. OnlyMoves(c)
  BY Zenon, <1>1 DEF ClientInv, ClientTypes, Leave, Goto, OnlyMoves, Clients, Guards
<1>4. ClientAt(c)'
  BY Zenon, <1>1 DEF ClientInv, ClientTypes, Leave, Goto, ClientAt, Granted, Clients, Guards
<1> QED
  BY <1>1, <1>2, <1>3, <1>4, ClientMoves

\* Acquiring and registering.
LEMMA AcquireMoves ==
    ASSUME KuraInv, NEW c \in Guards, c \in Bounds.clients, Acquire(c)
    PROVE  ClientInv'
<1>1. ClientInv /\ ClientTypes /\ ClientAt(c) /\ OrphansSent /\ c \in Clients
  BY Zenon DEF KuraInv, ClientInv, Clients, Guards
<1>2. CASE AcquireRead(c)
  <2>1. ModRevision(current_key) \in Nat
    BY KeyRoles DEF KuraInv, TableInv, StoreInv, TypeOK, KeyValue, ModRevision, Present
  <2>2. ClientTypes'
    BY Zenon, <1>1, <1>2, <2>1 DEF ClientTypes, AcquireRead, Goto, Places
  <2>3. OnlyMoves(c)
    BY Zenon, <1>1, <1>2 DEF ClientTypes, AcquireRead, Goto, OnlyMoves, Clients, Guards
  <2>4. ClientAt(c)' /\ OrphansSent'
    BY Zenon, <1>1, <1>2 DEF ClientTypes, AcquireRead, Goto, ClientAt, Granted, OrphansSent
  <2> QED
    BY Zenon, <1>1, <2>2, <2>3, <2>4, ClientMoves
<1>3. CASE RegisterBegin(c)
  <2>1. PICK p \in Pointers : pointer' = [pointer EXCEPT ![c] = p]
    BY Zenon, <1>3, BoundsTypes DEF RegisterBegin
  <2>2. PICK k \in ReaderKeys : reader_key' = [reader_key EXCEPT ![c] = k]
    BY Zenon, <1>3 DEF RegisterBegin
  <2>3. ClientTypes'
    BY Zenon, <1>1, <1>3, <2>1, <2>2 DEF ClientTypes, RegisterBegin, Goto, Places, writerVars
  <2>4. OnlyMoves(c)
    BY Zenon, <1>1, <1>3, <2>1, <2>2
       DEF ClientTypes, RegisterBegin, Goto, OnlyMoves, Clients, Guards
  <2>5. ClientAt(c)' /\ OrphansSent'
    BY Zenon, <1>1, <1>3, <2>1, <2>2
       DEF ClientTypes, RegisterBegin, Goto, ClientAt, Granted, OrphansSent
  <2> QED
    BY Zenon, <1>1, <2>3, <2>4, <2>5, ClientMoves
<1>4. CASE Grant(c)
  <2> DEFINE new == [id |-> next_lease_id, fencing_token |-> next_fencing_token]
  <2>1. new \in LeaseOwnership
    <3>1. PICK tick \in Now : grant_lease(0, Bounds.ttl, tick)
      BY Zenon, <1>4 DEF Grant
    <3>2. UNCHANGED historyVars
      BY Zenon, <1>4 DEF Grant
    <3> QED
      BY Zenon, <3>1, <3>2, BoundsTypes, GrantIsQuiet
  <2>2. session' = [session EXCEPT ![c] = new]
    BY Zenon, <1>4 DEF Grant
  <2> HIDE DEF new
  <2>3. ClientTypes'
    BY <1>1, <1>4, <2>1, <2>2 DEF ClientTypes, Grant, Goto, Places, Granted, writerVars
  <2>4. OnlyMoves(c)
    BY Zenon, <1>1, <1>4, <2>2 DEF ClientTypes, Grant, Goto, OnlyMoves, Clients, Guards
  <2>5. ClientAt(c)' /\ OrphansSent'
    BY Zenon, <1>1, <1>4, <2>1, <2>2 DEF ClientTypes, Grant, Goto, ClientAt, Granted, OrphansSent
  <2> QED
    BY Zenon, <1>1, <2>3, <2>4, <2>5, ClientMoves
<1>5. CASE Claim(c)
  <2>1. /\ pc' = [pc EXCEPT ![c] = "held"] \/ pc' = [pc EXCEPT ![c] = "revoke"]
        /\ \E a : active' = [active EXCEPT ![c] = a]
        /\ pc[c] \in Granted
        /\ UNCHANGED <<roster, session, pointer, writerVars, reader_key, orphans>>
    BY Zenon, <1>5 DEF Claim, Goto, Granted
  <2>2. ClientTypes'
    BY Zenon, <1>1, <2>1 DEF ClientTypes, Places, Granted, writerVars
  <2>3. OnlyMoves(c)
    BY Zenon, <1>1, <2>1 DEF ClientTypes, OnlyMoves, Clients, Guards
  <2>4. ClientAt(c)' /\ OrphansSent'
    BY Zenon, <1>1, <2>1 DEF ClientTypes, ClientAt, Granted, OrphansSent
  <2> QED
    BY <1>1, <2>2, <2>3, <2>4, ClientMoves
<1>6. CASE ClaimUncertain(c)
  <2>1. PICK r : r = Request(c)
    BY Zenon
  <2>2. Attempt(r, 0)
    BY Zenon, <1>6, <2>1, RequestIsAttempt DEF ClaimUncertain, KuraInv
  <2>3. OrphansSent'
    BY Zenon, <1>6, <2>1, <2>2, UncertainIsTableStep DEF ClaimUncertain
  <2> QED
    BY Zenon, <1>6, <2>3, LeaveMoves DEF ClaimUncertain
<1> QED
  BY Zenon, <1>2, <1>3, <1>4, <1>5, <1>6 DEF Acquire

\* Revocations and renewals.
LEMMA SessionMoves ==
    ASSUME KuraInv, NEW c \in Guards, Session(c)
    PROVE  ClientInv'
<1>1. ClientInv /\ ClientTypes /\ ClientAt(c) /\ OrphansSent
  BY Zenon DEF KuraInv, ClientInv
<1>2. CASE Revoke(c) \/ Abandon(c)
  BY Zenon, <1>1, <1>2, LeaveMoves DEF Revoke, Abandon, OrphansSent
<1>3. CASE SessionKeepAlive(c) \/ SessionKeepAliveFails(c)
  <2>1. /\ active[c] /\ \E a : active' = [active EXCEPT ![c] = a]
        /\ UNCHANGED <<roster, pc, session, pointer, writerVars, reader_key, orphans>>
    BY Zenon, <1>3 DEF SessionKeepAlive, SessionKeepAliveFails
  <2>2. ClientTypes' /\ OnlyMoves(c)
    BY Zenon, <1>1, <2>1 DEF ClientTypes, OnlyMoves, writerVars
  <2>3. ClientAt(c)' /\ OrphansSent'
    BY Zenon, <1>1, <2>1 DEF ClientAt, OrphansSent
  <2> QED
    BY Zenon, <1>1, <2>2, <2>3, ClientMoves
<1> QED
  BY Zenon, <1>2, <1>3 DEF Session

\* Publishing.
LEMMA PublishMoves ==
    ASSUME KuraInv, NEW c \in Guards, c \in Bounds.clients, publish_snapshot(c)
    PROVE  ClientInv'
<1>1. ClientInv /\ ClientTypes /\ ClientAt(c) /\ OrphansSent /\ c \in Clients
  BY Zenon DEF KuraInv, ClientInv, Clients, Guards
<1>2. TableInv'
  <2>1. [KuraNext]_kuraVars
    BY Zenon DEF KuraNext
  <2> QED
    BY <2>1, KuraStepIsTableStep, TableStepKeeps DEF KuraInv
<1>3. /\ revision' \in Nat
      /\ ModRevision(current_key) \in Nat /\ Pointer(current_key) \in Nat
  <2>1. revision' \in Nat
    BY <1>2 DEF TableInv, StoreInv, TypeOK
  <2>2. Present(current_key) => values[current_key] \in KeyValue
    BY Zenon, KeyRoles DEF KuraInv, TableInv, StoreInv, TypeOK, Present
  <2>3. Present(current_key) =>
           values[current_key].mod_revision \in Nat /\ values[current_key].value \in Values
    BY <2>2, WatchConstants DEF KeyValue
  <2>4. ModRevision(current_key) \in Nat
    BY Zenon, <2>3 DEF ModRevision
  <2>5. Pointer(current_key) \in Nat
    BY Zenon, <2>3, StoreConstants DEF Pointer
  <2> QED
    BY <2>1, <2>4, <2>5
<1>4. /\ session[c].fencing_token \in Nat /\ base[c] \in Nat /\ pointer[c] \in Nat
  <2>1. session[c] \in LeaseOwnership \cup {NoLease}
    BY Zenon, <1>1 DEF ClientTypes
  <2>2. session[c].fencing_token \in Nat
    BY <2>1 DEF LeaseOwnership, NoLease
  <2>3. base[c] \in Nat /\ pointer[c] \in Pointers \cup {0}
    BY Zenon, <1>1 DEF ClientTypes
  <2> QED
    BY Zenon, <2>2, <2>3, KeyRoles, StoreConstants
<1>5. ASSUME NEW status \in {"published", "recovered", "conflict"},
             NEW rev \in Nat, NEW p \in Nat, Outcome(c, status, rev, p),
             UNCHANGED <<roster, session, active, reader_key, orphans>>,
             pc[c] \in Granted
      PROVE  ClientInv'
  <2> DEFINE result == [status |-> status, revision |-> rev, pointer |-> p,
                        token |-> session[c].fencing_token, base |-> base[c]]
  <2>1. result \in PublishResult
    BY Zenon, <1>4 DEF PublishResult
  <2>2. /\ outcome' = [outcome EXCEPT ![c] = result]
        /\ base' = [base EXCEPT ![c] = rev]
        /\ pointer' = [pointer EXCEPT ![c] = 0]
        /\ pc' = [pc EXCEPT ![c] = "held"]
    BY Zenon, <1>5 DEF Outcome, Goto
  <2> HIDE DEF result
  <2>3. ClientTypes'
    BY Zenon, <1>1, <1>5, <2>1, <2>2 DEF ClientTypes, Places, Granted
  <2>4. OnlyMoves(c)
    BY Zenon, <1>1, <1>5, <2>2 DEF ClientTypes, OnlyMoves, Clients, Guards
  <2>5. ClientAt(c)' /\ OrphansSent'
    BY Zenon, <1>1, <1>5, <2>2 DEF ClientTypes, ClientAt, Granted, OrphansSent
  <2> QED
    BY Zenon, <1>1, <2>3, <2>4, <2>5, ClientMoves
<1>6. ASSUME NEW place \in {"held", "conflict", "resolve"}, Goto(c, place),
             UNCHANGED <<roster, session, active, writerVars, reader_key>>,
             OrphansSent', pc[c] \in Granted,
             \/ UNCHANGED pointer /\ pointer[c] \in Pointers
             \/ place = "held" /\ pointer' = [pointer EXCEPT ![c] = 0]
      PROVE  ClientInv'
  <2>1. ClientTypes'
    BY Zenon, <1>1, <1>6 DEF ClientTypes, Places, Granted, Goto, writerVars
  <2>2. OnlyMoves(c)
    BY Zenon, <1>1, <1>6 DEF ClientTypes, OnlyMoves, Clients, Guards, Goto
  <2>3. ClientAt(c)'
    BY Zenon, <1>1, <1>6 DEF ClientTypes, ClientAt, Granted, Goto
  <2> QED
    BY Zenon, <1>1, <1>6, <2>1, <2>2, <2>3, ClientMoves
<1>7. CASE PublishBegin(c)
  <2>1. PICK p \in Pointers : pointer' = [pointer EXCEPT ![c] = p]
    BY Zenon, <1>7, BoundsTypes DEF PublishBegin
  <2>2. NoOutcome \in PublishResult
    BY Zenon DEF NoOutcome, PublishResult
  <2>3. /\ pc' = [pc EXCEPT ![c] = "publish"] /\ pc[c] \in Granted
        /\ outcome' = [outcome EXCEPT ![c] = NoOutcome]
        /\ UNCHANGED <<roster, session, active, base, reader_key, orphans>>
    BY Zenon, <1>7 DEF PublishBegin, Goto, Granted
  <2>4. ClientTypes'
    BY Zenon, <1>1, <2>1, <2>2, <2>3 DEF ClientTypes, Places, Granted
  <2>5. OnlyMoves(c)
    BY Zenon, <1>1, <2>1, <2>3 DEF ClientTypes, OnlyMoves, Clients, Guards
  <2>6. ClientAt(c)' /\ OrphansSent'
    BY Zenon, <1>1, <2>1, <2>3 DEF ClientTypes, ClientAt, Granted, OrphansSent
  <2> QED
    BY Zenon, <1>1, <2>4, <2>5, <2>6, ClientMoves
<1>8. CASE PublishCall(c)
  <2>1. /\ UNCHANGED <<roster, session, active, reader_key, orphans>>
        /\ pc[c] \in Granted /\ pointer[c] \in Pointers
        /\ \/ Outcome(c, "published", revision', pointer[c])
           \/ Goto(c, "conflict") /\ UNCHANGED <<pointer, writerVars>>
    BY Zenon, <1>1, <1>8 DEF PublishCall, Granted, ClientAt
  <2>2. OrphansSent'
    BY Zenon, <1>1, <2>1 DEF OrphansSent
  <2> QED
    BY Zenon, <1>3, <1>4, <1>5, <1>6, <2>1, <2>2
<1>9. CASE PublishUncertain(c)
  <2>1. PICK r, b : r = PublishRequest(c) /\ b = base[c]
    BY Zenon
  <2>2. Attempt(r, b) /\ TransactUncertain(r, b)
    BY Zenon, <1>1, <1>9, <2>1, RequestIsAttempt DEF PublishUncertain
  <2>3. OrphansSent'
    BY Zenon, <2>2, UncertainIsTableStep
  <2> QED
    BY Zenon, <1>1, <1>6, <1>9, <2>3 DEF PublishUncertain, Granted, ClientAt
<1>10. CASE PublishConflict(c)
  <2>1. /\ UNCHANGED <<roster, session, active, reader_key, orphans>>
        /\ pc[c] \in Granted /\ pointer[c] \in Pointers
        /\ \/ Outcome(c, "conflict", ModRevision(current_key), Pointer(current_key))
           \/ Goto(c, "resolve") /\ UNCHANGED <<pointer, writerVars>>
    BY Zenon, <1>1, <1>10 DEF PublishConflict, Granted, ClientAt
  <2>2. OrphansSent'
    BY Zenon, <1>1, <2>1 DEF OrphansSent
  <2> QED
    BY Zenon, <1>3, <1>5, <1>6, <2>1, <2>2
<1>11. CASE PublishResolve(c)
  <2>1. /\ UNCHANGED <<roster, session, active, reader_key, orphans>>
        /\ pc[c] \in Granted
        /\ \/ Outcome(c, "recovered", ModRevision(current_key), pointer[c])
           \/ /\ pointer' = [pointer EXCEPT ![c] = 0]
              /\ Goto(c, "held") /\ UNCHANGED writerVars
    BY Zenon, <1>11 DEF PublishResolve, Rethrow, Granted
  <2>2. OrphansSent'
    BY Zenon, <1>1, <2>1 DEF OrphansSent
  <2> QED
    BY Zenon, <1>3, <1>4, <1>5, <1>6, <2>1, <2>2
<1> QED
  BY Zenon, <1>7, <1>8, <1>9, <1>10, <1>11 DEF publish_snapshot

\* Every step keeps the clients' invariant.
LEMMA ClientInvNext ==
    ASSUME KuraInv, [KuraNext]_kuraVars
    PROVE  ClientInv'
<1>1. ClientInv /\ ClientTypes /\ OrphansSent
  BY Zenon DEF KuraInv, ClientInv
<1>2. ASSUME UNCHANGED <<roster, sessionVars, writerVars, reader_key>>,
             orphans' \subseteq orphans
      PROVE  ClientInv'
  BY Zenon, <1>1, <1>2 DEF ClientInv, ClientTypes, ClientAt, OrphansSent, sessionVars, writerVars
<1>3. ASSUME NEW f \in Followers, await_snapshot_change(f) PROVE ClientInv'
  <2>1. f \notin Guards /\ f \in Clients
    BY Zenon, KuraConstants DEF Clients
  <2>2. PICK place \in Places : pc' = [pc EXCEPT ![f] = place]
    BY Zenon, <1>3 DEF await_snapshot_change, AwaitCreate, AwaitPoll, AwaitTimeout,
                AwaitCleanup, current_snapshot, Goto, Places
  <2>3. UNCHANGED <<roster, session, active, pointer, writerVars, reader_key, orphans>>
    BY Zenon, <1>3 DEF await_snapshot_change, AwaitCreate, AwaitPoll, AwaitTimeout,
                AwaitCleanup, current_snapshot, FollowerFrame
  <2>4. ClientTypes'
    BY Zenon, <1>1, <2>2, <2>3 DEF ClientTypes, writerVars
  <2>5. OnlyMoves(f) /\ OrphansSent'
    BY Zenon, <1>1, <2>1, <2>2, <2>3 DEF ClientTypes, OnlyMoves, OrphansSent, Clients, Guards
  <2> QED
    BY Zenon, <1>1, <2>1, <2>4, <2>5, ClientMoves
<1>4. ASSUME NEW s \in SnapshotKeys, collect_snapshot_if_unreferenced(s) PROVE ClientInv'
  BY Zenon, <1>2, <1>4 DEF collect_snapshot_if_unreferenced
<1>5. CASE ApplyOrphan \/ ExpireLeases \/ UNCHANGED kuraVars
  BY Zenon, <1>2, <1>5 DEF ApplyOrphan, ExpireLeases, kuraVars
<1>6. CASE KuraNext
  BY Zenon, <1>3, <1>4, <1>5, <1>6, AcquireMoves, SessionMoves, PublishMoves DEF KuraNext
<1> QED
  BY Zenon, <1>5, <1>6

-----------------------------------------------------------------------------
(* What publish_snapshot answered *)

TrueOutcome(o) ==
    \/ o.status = "none"
    \/ o.status = "conflict" /\ o.revision = 0
    \/ \E i \in PublishedAt(o.revision) :
         /\ publications[i].pointer = o.pointer
         /\ o.status = "published" =>
              publications[i].token = o.token /\ publications[i].base = o.base

\* An answer stays true while publications are only appended.
LEMMA AnswersStayTrue ==
    ASSUME NEW o, TrueOutcome(o), publications \in Seq(Publication),
           publications' = publications \/ \E x : publications' = Append(publications, x)
    PROVE  TrueOutcome(o)'
<1>1. \A i \in DOMAIN publications :
         i \in DOMAIN publications' /\ publications'[i] = publications[i]
  <2>1. CASE publications' = publications
    BY Zenon, <2>1
  <2>2. ASSUME NEW x, publications' = Append(publications, x)
        PROVE  \A i \in DOMAIN publications :
                  i \in DOMAIN publications' /\ publications'[i] = publications[i]
    BY <2>2
  <2> QED
    BY Zenon, <2>1, <2>2
<1> QED
  BY Zenon, <1>1 DEF TrueOutcome, PublishedAt

\* The publication that is current answers a conflict and a recovery.
LEMMA CurrentAnswers ==
    ASSUME TableInv, Present(current_key), NEW o, o.status # "published",
           o.revision = ModRevision(current_key), o.pointer = Pointer(current_key)
    PROVE  TrueOutcome(o)
<1>1. /\ Len(publications) \in DOMAIN publications
      /\ ModRevision(current_key) = publications[Len(publications)].revision
      /\ Pointer(current_key) = publications[Len(publications)].pointer
  BY Zenon, CurrentPointer DEF TableInv, CurrentIsLast, ModRevision, Pointer
<1> QED
  BY Zenon, <1>1 DEF TrueOutcome, PublishedAt

\* The two disjuncts of a call: it answers, or it goes on.
LEMMA NewAnswersAreTrue ==
    ASSUME KuraInv, NEW c \in Guards, publish_snapshot(c), NEW w \in Writers
    PROVE  outcome'[w] = outcome[w] \/ TrueOutcome(outcome[w])'
<1>1. TableInv /\ ClientInv /\ ClientTypes /\ ClientAt(c)
  BY DEF KuraInv, ClientInv
<1>2. w \in Guards /\ DOMAIN outcome = Guards
  BY <1>1 DEF Guards, ClientTypes
<1>3. CASE UNCHANGED outcome
  BY <1>3
<1>4. CASE PublishBegin(c)
  <2>1. outcome' = [outcome EXCEPT ![c] = NoOutcome]
    BY Zenon, <1>4 DEF PublishBegin
  <2>2. NoOutcome.status = "none"
    BY DEF NoOutcome
  <2> QED
    BY Zenon, <1>2, <2>1, <2>2 DEF TrueOutcome
<1>5. ASSUME NEW status, NEW rev, Outcome(c, status, rev, pointer[c])
      PROVE  \/ outcome'[w] = outcome[w]
             \/ outcome'[w] = [status |-> status, revision |-> rev, pointer |-> pointer[c],
                               token |-> session[c].fencing_token, base |-> base[c]]
  BY Zenon, <1>2, <1>5 DEF Outcome
<1>6. CASE PublishCall(c)
  <2>1. PICK o, p, b : o = session[c] /\ p = pointer[c] /\ b = base[c]
    OBVIOUS
  <2>2. o \in LeaseOwnership /\ p \in Pointers /\ b \in Nat
    BY Zenon, <1>1, <1>6, <2>1 DEF PublishCall, ClientAt, ClientTypes, Granted
  <2>3. PublishRequest(c) = PublishOf(o, p, b)
    BY <2>1 DEF PublishRequest, PublishOf, Fenced
  <2>4. PICK tick \in Ticks :
           /\ Transact(PublishOf(o, p, b), tick, b)
           /\ IF Succeeds(PublishOf(o, p, b), tick)
              THEN Outcome(c, "published", revision', p)
              ELSE UNCHANGED outcome
    BY Zenon, <1>6, <2>1, <2>3, BoundsTypes DEF PublishCall, writerVars
  <2>5. CASE Succeeds(PublishOf(o, p, b), tick)
    <3> DEFINE record == [revision |-> revision + 1, pointer |-> p,
                          token |-> o.fencing_token, base |-> b,
                          generation |-> generation]
               answer == [status |-> "published", revision |-> revision + 1,
                          pointer |-> p, token |-> o.fencing_token, base |-> b]
    <3>1. revision' = revision + 1 /\ publications' = Append(publications, record)
      BY <1>1, <2>2, <2>4, <2>5, PublicationKeeps
    <3>2. outcome'[w] = outcome[w] \/ outcome'[w] = answer
      BY Zenon, <1>2, <2>1, <2>4, <2>5, <3>1 DEF Outcome
    <3>3. /\ record.revision = answer.revision /\ record.pointer = answer.pointer
          /\ record.token = answer.token /\ record.base = answer.base
      BY Zenon
    <3> HIDE DEF record, answer
    <3>4. /\ Len(publications) + 1 \in DOMAIN publications'
          /\ publications'[Len(publications) + 1] = record
      BY <1>1, <3>1 DEF TableInv
    <3>5. CASE outcome'[w] = answer
      BY <3>3, <3>4, <3>5 DEF TrueOutcome, PublishedAt
    <3> QED
      BY <3>2, <3>5
  <2>6. CASE ~Succeeds(PublishOf(o, p, b), tick)
    BY <1>3, <2>4, <2>6
  <2> QED
    BY Zenon, <2>5, <2>6
<1>7. CASE PublishConflict(c)
  <2>1. UNCHANGED publications
    BY <1>7 DEF PublishConflict, historyVars
  <2>2. PICK o : o = [status |-> "conflict", revision |-> ModRevision(current_key),
                      pointer |-> Pointer(current_key),
                      token |-> session[c].fencing_token, base |-> base[c]]
    BY Zenon
  <2>3. outcome'[w] = outcome[w] \/ outcome'[w] = o
    BY Zenon, <1>2, <1>7, <2>2 DEF PublishConflict, Outcome, writerVars
  <2>4. TrueOutcome(o)
    <3>1. CASE Present(current_key)
      BY Zenon, <1>1, <2>2, <3>1, CurrentAnswers
    <3>2. CASE ~Present(current_key)
      BY Zenon, <2>2, <3>2 DEF TrueOutcome, ModRevision
    <3> QED
      BY Zenon, <3>1, <3>2
  <2> QED
    BY <2>1, <2>3, <2>4 DEF TrueOutcome, PublishedAt
<1>8. CASE PublishResolve(c)
  <2>1. UNCHANGED publications /\ pointer[c] \in Pointers
    BY Zenon, <1>1, <1>8 DEF PublishResolve, historyVars, ClientAt
  <2>2. PICK o : o = [status |-> "recovered", revision |-> ModRevision(current_key),
                      pointer |-> pointer[c],
                      token |-> session[c].fencing_token, base |-> base[c]]
    BY Zenon
  <2>3. outcome'[w] = outcome[w] \/ (Pointer(current_key) = pointer[c] /\ outcome'[w] = o)
    BY Zenon, <1>2, <1>8, <2>2 DEF PublishResolve, Outcome, Rethrow, writerVars
  <2>4. ASSUME Pointer(current_key) = pointer[c] PROVE TrueOutcome(o)
    <3>1. Present(current_key)
      BY Zenon, <2>1, <2>4, KeyRoles DEF Pointer
    <3> QED
      BY Zenon, <1>1, <2>2, <2>4, <3>1, CurrentAnswers
  <2> QED
    BY Zenon, <2>1, <2>3, <2>4 DEF TrueOutcome, PublishedAt
<1>9. CASE PublishUncertain(c)
  BY Zenon, <1>3, <1>9 DEF PublishUncertain, writerVars
<1> QED
  BY Zenon, <1>4, <1>6, <1>7, <1>8, <1>9 DEF publish_snapshot

\* Every other step leaves the answers alone, or the guard is gone with them.
LEMMA OutcomesNext ==
    ASSUME KuraInv, [KuraNext]_kuraVars
    PROVE  OutcomesAreTrue'
<1>1. TableInv /\ ClientTypes
  BY DEF KuraInv, ClientInv
<1>2. publications' = publications \/ \E x : publications' = Append(publications, x)
  BY <1>1, KuraStepIsTableStep, TableStepKeeps
<1>3. \A w \in Writers : TrueOutcome(outcome[w])
  BY Zenon DEF KuraInv, OutcomesAreTrue, TrueOutcome
<1>4. ASSUME NEW w \in Writers
      PROVE  outcome'[w] = outcome[w] \/ TrueOutcome(outcome[w])'
  <2>1. CASE UNCHANGED outcome
    BY <2>1
  <2>2. ASSUME NEW c \in Guards, Leave(c)
        PROVE  outcome'[w] = outcome[w] \/ TrueOutcome(outcome[w])'
    <3>1. outcome' = [outcome EXCEPT ![c] = NoOutcome] /\ NoOutcome.status = "none"
      BY Zenon, <2>2 DEF Leave, NoOutcome
    <3> QED
      BY Zenon, <1>1, <3>1 DEF TrueOutcome, ClientTypes, Guards
  <2>3. ASSUME NEW c \in Guards, Acquire(c) \/ Session(c)
        PROVE  UNCHANGED outcome \/ Leave(c)
    BY Zenon, <2>3 DEF Acquire, AcquireRead, RegisterBegin, Grant, Claim, ClaimUncertain,
                Session, Revoke, Abandon, SessionKeepAlive, SessionKeepAliveFails, writerVars
  <2>4. ASSUME NEW f \in Followers, await_snapshot_change(f) PROVE UNCHANGED outcome
    BY Zenon, <2>4 DEF await_snapshot_change, AwaitCreate, AwaitPoll, AwaitTimeout,
                AwaitCleanup, current_snapshot, FollowerFrame, writerVars
  <2>5. CASE ApplyOrphan \/ ExpireLeases \/ UNCHANGED kuraVars
    BY Zenon, <2>1, <2>5 DEF ApplyOrphan, ExpireLeases, kuraVars, writerVars
  <2>6. ASSUME NEW s \in SnapshotKeys, collect_snapshot_if_unreferenced(s)
        PROVE  UNCHANGED outcome
    BY <2>6 DEF collect_snapshot_if_unreferenced, writerVars
  <2>7. CASE KuraNext
    BY Zenon, <2>1, <2>2, <2>3, <2>4, <2>5, <2>6, <2>7, NewAnswersAreTrue DEF KuraNext
  <2> QED
    BY <2>5, <2>7
<1>5. ASSUME NEW w \in Writers PROVE TrueOutcome(outcome[w])'
  <2>1. CASE outcome'[w] = outcome[w]
    <3>1. PICK o : o = outcome[w]
      OBVIOUS
    <3>2. TrueOutcome(o)'
      BY <1>1, <1>2, <1>3, <3>1, AnswersStayTrue DEF TableInv
    <3> QED
      BY <2>1, <3>1, <3>2 DEF TrueOutcome
  <2> QED
    BY <1>4, <2>1
<1> QED
  BY Zenon, <1>5 DEF OutcomesAreTrue, TrueOutcome

-----------------------------------------------------------------------------
(* The invariant *)

\* It holds before any client has called.
LEMMA KuraInvInit == KuraInit => KuraInv
<1> SUFFICES ASSUME KuraInit PROVE KuraInv
  OBVIOUS
<1>1. StoreInv
  BY StoreInvInit DEF KuraInit
<1>2. \A k \in TableKeys : ~Present(k)
  BY Zenon, KuraConstants DEF KuraInit, Init, Present
<1>3. publications = <<>> /\ generation = 0
  BY Zenon DEF KuraInit
<1>4. CurrentIsLast /\ LockIsLatest /\ SnapshotsUnleased /\ ReadersPin
  BY Zenon, <1>2, <1>3 DEF CurrentIsLast, LockIsLatest, SnapshotsUnleased, ReadersPin, TableKeys
<1>5. OneFencedChain /\ ReferencedSnapshotsSurvive
  BY <1>2, <1>3 DEF OneFencedChain, ReferencedSnapshotsSurvive, TableKeys
<1>6. TableInv
  BY <1>1, <1>3, <1>4, <1>5 DEF TableInv
<1>7. NoOutcome \in PublishResult /\ NoOutcome.status = "none"
  BY Zenon DEF NoOutcome, PublishResult
<1>8. ClientTypes
  BY Zenon, <1>7 DEF KuraInit, ClientTypes, Places
<1>9. (\A c \in Guards : ClientAt(c)) /\ OrphansSent
  BY Zenon DEF KuraInit, ClientAt, OrphansSent, Granted, Clients, Guards
<1>10. OutcomesAreTrue
  BY Zenon, <1>7 DEF KuraInit, OutcomesAreTrue, Guards
<1> QED
  BY <1>6, <1>8, <1>9, <1>10 DEF KuraInv, ClientInv

\* Every step of a client, the collector or the host keeps it.
LEMMA KuraInvNext == KuraInv /\ [KuraNext]_kuraVars => KuraInv'
<1> SUFFICES ASSUME KuraInv, [KuraNext]_kuraVars PROVE KuraInv'
  OBVIOUS
<1>1. TableInv'
  BY KuraStepIsTableStep, TableStepKeeps DEF KuraInv
<1> QED
  BY <1>1, ClientInvNext, OutcomesNext DEF KuraInv

(***************************************************************************)
(* The inductive invariant of the client library holds in every behaviour. *)
(***************************************************************************)
THEOREM KuraInvariant == KuraSpec => []KuraInv
  BY KuraInvInit, KuraInvNext, PTL DEF KuraSpec

(***************************************************************************)
(* publish_snapshot is fenced for any number of writers: publications form *)
(* one chain, each replaces the base its writer named, and each comes from *)
(* the generation that claimed the table last, late requests included.     *)
(***************************************************************************)
THEOREM PublicationsAreFenced == KuraSpec => []OneFencedChain
<1>1. KuraInv => OneFencedChain
  BY Zenon DEF KuraInv, TableInv
<1> QED
  BY <1>1, KuraInvariant, PTL

(***************************************************************************)
(* What publish_snapshot returned stays true, after uncertain calls and    *)
(* takeovers as well.                                                      *)
(***************************************************************************)
THEOREM AnswersAreTrue == KuraSpec => []OutcomesAreTrue
<1>1. KuraInv => OutcomesAreTrue
  BY Zenon DEF KuraInv
<1> QED
  BY <1>1, KuraInvariant, PTL

(***************************************************************************)
(* collect_snapshot never takes a snapshot that is current or pinned.      *)
(***************************************************************************)
THEOREM SnapshotsSurvive == KuraSpec => []ReferencedSnapshotsSurvive
<1>1. KuraInv => ReferencedSnapshotsSurvive
  BY DEF KuraInv, TableInv
<1> QED
  BY <1>1, KuraInvariant, PTL
=============================================================================
