----------------------------- MODULE KuraClient -----------------------------
(***************************************************************************)
(* KuraClient over MetadataStore: writers that claim a table and publish   *)
(* snapshots under a lease, readers that pin a snapshot, the collector,    *)
(* and followers of the current pointer.  Every backend call takes the     *)
(* adapter's mutex, so a call is one step; what a client does between two  *)
(* calls, and the thread that renews its lease, interleave freely.         *)
(*                                                                         *)
(* A backend that answers not_leader, no_quorum or deadline_exceeded may   *)
(* have applied the transaction, or may still apply it later: orphans      *)
(* holds the requests whose callers have given up.                         *)
(*                                                                         *)
(* A pointer is a number, its encoding; its snapshot ID is the number of   *)
(* the key snapshots/<id>.                                                 *)
(***************************************************************************)
EXTENDS MetadataStore

CONSTANTS
    Writers, Readers, Followers,    \* clients by what they do
    current_key, writer_key,
    ReaderKeys,         \* readers/<id>, one for each registration
    Pointers,           \* snapshot pointers callers publish and read
    snapshot_key,       \* pointer -> the key of its snapshot ID
    Rosters             \* name -> the bounds of a behaviour:
                        \*   clients     the clients that take part
                        \*   grants      leases granted
                        \*   ttl         lease duration they ask for
                        \*   ticks       largest tick a call carries
                        \*   publishes   calls of publish_snapshot
                        \*   faults      calls that end in an uncertain status
                        \*               and clients that die
                        \*   pointers    client -> pointers it publishes or reads
                        \*   collects    whether snapshots are collected

VARIABLES
    roster,         \* the name of this behaviour's roster
    pc,             \* where each client is in its current call
    session,        \* LeaseSession::id and token, [id, fencing_token]
    active,         \* LeaseSession::active
    base,           \* the revision of current a writer last learned
    pointer,        \* argument of the call in progress, or what a reader pins
    reader_key,     \* the key a registration writes
    outcome,        \* the last PublishResult of each writer
    seen,           \* the last SnapshotUpdate of each follower
    watch_id,       \* next_watch_id_ of each follower
    orphans,        \* requests that may still be applied
    publications,   \* history: every publication, in order
    generation,     \* history: token of the latest successful claim
    calls           \* calls and faults so far, against the roster's bounds

Clients == Writers \cup Readers \cup Followers
Guards == Writers \cup Readers

SnapshotKeys == {snapshot_key[p] : p \in Pointers}
TableKeys == {current_key, writer_key} \cup ReaderKeys \cup SnapshotKeys

\* The table's keys are distinct and start unused; a pointer is not empty.
ASSUME KuraConstants ==
    /\ TableKeys \subseteq Keys
    /\ current_key # writer_key
    /\ ReaderKeys \cap (SnapshotKeys \cup {current_key, writer_key}) = {}
    /\ SnapshotKeys \cap {current_key, writer_key} = {}
    /\ {0} \cup Pointers \cup SnapshotKeys \subseteq Values /\ 0 \notin Pointers
    /\ Writers \cap Readers = {} /\ Guards \cap Followers = {}
    /\ \A v \in InitialValues, k \in TableKeys : v[k] = Absent
    /\ \A name \in DOMAIN Rosters :
         /\ Rosters[name].ttl \in 1..Uint64Max
         /\ Rosters[name].ticks \in Ticks
         /\ \A c \in Rosters[name].clients \cap Guards :
              Rosters[name].pointers[c] \subseteq Pointers

sessionVars == <<pc, session, active, pointer>>
writerVars == <<base, outcome>>
followerVars == <<seen, watch_id>>
historyVars == <<publications, generation>>
kuraVars == <<vars, roster, sessionVars, writerVars, reader_key,
              followerVars, orphans, historyVars, calls>>

Bounds == Rosters[roster]

\* TickSource::current_tick is read under the mutex: a call never carries a
\* tick behind the last applied one.
Now == logical_tick..Bounds.ticks

Count(kind) == calls' = [calls EXCEPT ![kind] = @ + 1] /\ calls[kind] < Bounds[kind]

NoLease == [id |-> 0, fencing_token |-> 0]
NoUpdate == [revision |-> 0, pointer |-> 0]
NoOutcome == [status |-> "none", revision |-> 0, pointer |-> 0, token |-> 0, base |-> 0]

Goto(c, place) == pc' = [pc EXCEPT ![c] = place]

\* The call is over, or the guard is gone, with everything it held.
Leave(c) ==
    /\ Goto(c, "idle")
    /\ session' = [session EXCEPT ![c] = NoLease]
    /\ active' = [active EXCEPT ![c] = FALSE]
    /\ pointer' = [pointer EXCEPT ![c] = 0]
    /\ base' = [base EXCEPT ![c] = 0]
    /\ outcome' = [outcome EXCEPT ![c] = NoOutcome]

ModRevision(k) == IF Present(k) THEN values[k].mod_revision ELSE 0
Pointer(k) == IF Present(k) THEN values[k].value ELSE 0


\* backend get(current): what current_snapshot returns, the store's revision.
CurrentUpdate == [revision |-> revision, pointer |-> Pointer(current_key)]

-----------------------------------------------------------------------------
(* The transactions. *)

Equal(k, target, expected) ==
    [key |-> k, target |-> target, result |-> "equal", expected |-> expected]

Write(k, v, lease_id) == [op |-> "put", key |-> k, value |-> v, lease_id |-> lease_id]

Fenced(c, comparisons, success) ==
    [comparisons |-> comparisons, lease_ownership |-> {session[c]},
     success |-> success, failure |-> <<>>]

\* Mutant: the writer key is not attached to the lease.
MutClaimRequest(c) ==
    Fenced(c, {Equal(writer_key, "version", 0)}, <<Write(writer_key, 0, 0)>>)

\* The writer key's own text is never read.
ClaimRequest(c) ==
    Fenced(c, {Equal(writer_key, "version", 0)},
           <<Write(writer_key, 0, session[c].id)>>)

\* Mutant: the base revision is not compared.
MutPublishBase(c) ==
    Fenced(c, {Equal(writer_key, "lease_id", session[c].id)},
           <<Write(current_key, pointer[c], 0),
             Write(snapshot_key[pointer[c]], pointer[c], 0)>>)

PublishRequest(c) ==
    Fenced(c, {Equal(current_key, "mod_revision", base[c]),
               Equal(writer_key, "lease_id", session[c].id)},
           <<Write(current_key, pointer[c], 0),
             Write(snapshot_key[pointer[c]], pointer[c], 0)>>)

RegisterRequest(c) ==
    Fenced(c, {Equal(snapshot_key[pointer[c]], "value", pointer[c])},
           <<Write(reader_key[c], snapshot_key[pointer[c]], session[c].id)>>)

Request(c) ==
    CASE pc[c] = "claim" -> ClaimRequest(c)
      [] pc[c] = "publish" -> PublishRequest(c)
      [] pc[c] = "register" -> RegisterRequest(c)

Succeeds(request, tick) ==
    /\ \A c \in request.comparisons : CompareHolds(c)
    /\ \A o \in request.lease_ownership : Owns(o, tick)

\* backend_->transaction, and the histories of claims and publications.
Transact(request, tick, expected) ==
    LET owner == CHOOSE o \in request.lease_ownership : TRUE
    IN  /\ transaction(request, tick)
        /\ generation' = IF ~Present(writer_key) /\ values'[writer_key] # Absent
                         THEN owner.fencing_token ELSE generation
        /\ publications' =
             IF values'[current_key] = values[current_key] THEN publications
             ELSE Append(publications,
                         [revision |-> revision', pointer |-> values'[current_key].value,
                          token |-> owner.fencing_token, base |-> expected,
                          generation |-> generation])

\* The call ends uncertain: applied now, or left to be applied later or never.
TransactUncertain(request, expected) ==
    /\ Count("faults")
    /\ \/ /\ \E tick \in Now : Transact(request, tick, expected)
          /\ UNCHANGED orphans
       \/ /\ orphans' = orphans \cup {[request |-> request, base |-> expected]}
          /\ UNCHANGED <<vars, historyVars>>

ApplyOrphan ==
    /\ \E r \in orphans, tick \in Now :
         /\ Transact(r.request, tick, r.base)
         /\ orphans' = orphans \ {r}
    /\ UNCHANGED <<roster, sessionVars, writerVars, reader_key, followerVars, calls>>

-----------------------------------------------------------------------------
(* acquire_writer and register_reader *)

MayGrant ==
    next_fencing_token
      + Cardinality({c \in Guards : pc[c] \in {"grant_writer", "grant_reader"}})
      <= Bounds.grants

AcquireRead(c) ==
    /\ c \in Writers /\ pc[c] = "idle" /\ MayGrant
    /\ Goto(c, "grant_writer")
    /\ base' = [base EXCEPT ![c] = ModRevision(current_key)]
    /\ UNCHANGED <<vars, roster, session, active, pointer, outcome, reader_key,
                   followerVars, orphans, historyVars, calls>>

RegisterBegin(c) ==
    /\ c \in Readers /\ pc[c] = "idle" /\ MayGrant
    /\ \E p \in Bounds.pointers[c] : pointer' = [pointer EXCEPT ![c] = p]
    /\ \E k \in ReaderKeys :            \* client ID and sequence: never used before
         /\ \A d \in Readers : reader_key[d] < k
         /\ \A j \in ReaderKeys : (\A d \in Readers : reader_key[d] < j) => k <= j
         /\ reader_key' = [reader_key EXCEPT ![c] = k]
    /\ Goto(c, "grant_reader")
    /\ UNCHANGED <<vars, roster, session, active, writerVars,
                   followerVars, orphans, historyVars, calls>>

Grant(c) ==
    /\ pc[c] \in {"grant_writer", "grant_reader"}
    /\ \E tick \in Now : grant_lease(0, Bounds.ttl, tick)
    /\ session' = [session EXCEPT ![c] =
                     [id |-> next_lease_id, fencing_token |-> next_fencing_token]]
    /\ Goto(c, IF pc[c] = "grant_writer" THEN "claim" ELSE "register")
    /\ UNCHANGED <<roster, active, pointer, writerVars, reader_key,
                   followerVars, orphans, historyVars, calls>>

\* The transaction that writes the leased key, and LeaseSession::start.
Claim(c) ==
    /\ pc[c] \in {"claim", "register"}
    /\ \E tick \in Now :
         /\ Transact(Request(c), tick, 0)
         /\ Goto(c, IF Succeeds(Request(c), tick) THEN "held" ELSE "revoke")
         /\ active' = [active EXCEPT ![c] = Succeeds(Request(c), tick)]
    /\ UNCHANGED <<roster, session, pointer, writerVars, reader_key,
                   followerVars, orphans, calls>>

\* The exception passes through: nobody revokes or renews the lease.
ClaimUncertain(c) ==
    /\ pc[c] \in {"claim", "register"}
    /\ TransactUncertain(Request(c), 0)
    /\ Leave(c)
    /\ UNCHANGED <<roster, reader_key, followerVars>>

\* The failed claim's revocation, or LeaseSession::close.
Revoke(c) ==
    /\ pc[c] \in {"revoke", "held"}
    /\ \E tick \in Now : revoke_lease(session[c].id, session[c].fencing_token, tick)
    /\ Leave(c)
    /\ UNCHANGED <<roster, reader_key, followerVars, orphans, historyVars, calls>>

\* The process dies, or close cannot reach the backend: the lease stays.
Abandon(c) ==
    /\ c \in Guards /\ pc[c] # "idle"
    /\ Count("faults")
    /\ Leave(c)
    /\ UNCHANGED <<vars, roster, reader_key, followerVars, orphans, historyVars>>

-----------------------------------------------------------------------------
(* LeaseSession::keep_alive, from the worker thread or the guard *)

Renewable(c, tick) == tick <= Uint64Max - leases[session[c].id].granted_ttl

SessionKeepAlive(c) ==
    /\ c \in Guards /\ active[c]
    /\ \E tick \in Now :
         /\ keep_alive(session[c].id, session[c].fencing_token, tick)
         /\ active' = [active EXCEPT ![c] = Owns(session[c], tick)]
    /\ UNCHANGED <<roster, pc, session, pointer, writerVars, reader_key,
                   followerVars, orphans, historyVars, calls>>

\* The store throws at its last ticks, or the answer is lost.
SessionKeepAliveFails(c) ==
    /\ c \in Guards /\ active[c]
    /\ \E tick \in Now :
         \/ /\ Owns(session[c], tick) /\ ~Renewable(c, tick)
            /\ UNCHANGED <<vars, calls>>
         \/ /\ Count("faults")
            /\ \/ keep_alive(session[c].id, session[c].fencing_token, tick)
               \/ UNCHANGED vars
    /\ active' = [active EXCEPT ![c] = FALSE]
    /\ UNCHANGED <<roster, pc, session, pointer, writerVars, reader_key,
                   followerVars, orphans, historyVars>>

-----------------------------------------------------------------------------
(* publish_snapshot *)

\* active is read here; the transaction is applied later.
PublishBegin(c) ==
    /\ c \in Writers /\ pc[c] = "held" /\ active[c]
    /\ Count("publishes")
    /\ \E p \in Bounds.pointers[c] : pointer' = [pointer EXCEPT ![c] = p]
    /\ Goto(c, "publish")
    /\ outcome' = [outcome EXCEPT ![c] = NoOutcome]
    /\ UNCHANGED <<vars, roster, session, active, base, reader_key,
                   followerVars, orphans, historyVars>>

Outcome(c, status, rev, p) ==
    /\ outcome' = [outcome EXCEPT ![c] =
                     [status |-> status, revision |-> rev, pointer |-> p,
                      token |-> session[c].fencing_token, base |-> base[c]]]
    /\ base' = [base EXCEPT ![c] = rev]
    /\ pointer' = [pointer EXCEPT ![c] = 0]
    /\ Goto(c, "held")

\* The exception goes to the caller, who still has the old base.
Rethrow(c) ==
    /\ pointer' = [pointer EXCEPT ![c] = 0]
    /\ Goto(c, "held")
    /\ UNCHANGED writerVars

PublishCall(c) ==
    /\ pc[c] = "publish"
    /\ \E tick \in Now :
         /\ Transact(PublishRequest(c), tick, base[c])
         /\ IF Succeeds(PublishRequest(c), tick)
            THEN Outcome(c, "published", revision', pointer[c])
            ELSE Goto(c, "conflict") /\ UNCHANGED <<pointer, writerVars>>
    /\ UNCHANGED <<roster, session, active, reader_key,
                   followerVars, orphans, calls>>

PublishUncertain(c) ==
    /\ pc[c] = "publish"
    /\ TransactUncertain(PublishRequest(c), base[c])
    /\ Goto(c, "resolve")
    /\ UNCHANGED <<roster, session, active, pointer, writerVars, reader_key,
                   followerVars>>

\* The read that fills a conflict result.  When that read ends uncertain the
\* handler of the uncertain transaction runs instead.
PublishConflict(c) ==
    /\ pc[c] = "conflict"
    /\ \/ /\ Outcome(c, "conflict", ModRevision(current_key), Pointer(current_key))
          /\ UNCHANGED calls
       \/ /\ Count("faults")
          /\ Goto(c, "resolve")
          /\ UNCHANGED <<pointer, writerVars>>
    /\ UNCHANGED <<vars, roster, session, active, reader_key,
                   followerVars, orphans, historyVars>>

\* Mutant: any published pointer passes for the one that was sent.
MutPublishResolve(c) ==
    /\ pc[c] = "resolve"
    /\ \/ /\ Present(current_key)
          /\ Outcome(c, "recovered", ModRevision(current_key), pointer[c])
       \/ Rethrow(c)
    /\ UNCHANGED <<vars, roster, session, active, reader_key,
                   followerVars, orphans, historyVars, calls>>

\* Success only when current holds exactly the encoded pointer.  The caller
\* gets an exception when it does not, or when this read throws as well.
PublishResolve(c) ==
    /\ pc[c] = "resolve"
    /\ \/ /\ Pointer(current_key) = pointer[c]
          /\ Outcome(c, "recovered", ModRevision(current_key), pointer[c])
       \/ Rethrow(c)
    /\ UNCHANGED <<vars, roster, session, active, reader_key,
                   followerVars, orphans, historyVars, calls>>

-----------------------------------------------------------------------------
(* collect_snapshot: the checks and the deletion hold the adapter's mutex *)

Unreferenced(s) ==
    /\ Present(current_key) => snapshot_key[Pointer(current_key)] # s
    /\ \A k \in ReaderKeys : Present(k) => values[k].value # s

CollectRequest(s) ==
    [comparisons |-> {Equal(s, "mod_revision", ModRevision(s))},
     lease_ownership |-> {},
     success |-> <<[op |-> "delete", start |-> s, end |-> s + 1]>>,
     failure |-> <<>>]

\* Mutant: readers are not consulted.
MutCollect(s) ==
    /\ Present(s)
    /\ Present(current_key) => snapshot_key[Pointer(current_key)] # s
    /\ transaction(CollectRequest(s), logical_tick)
    /\ UNCHANGED <<roster, sessionVars, writerVars, reader_key,
                   followerVars, orphans, historyVars, calls>>

collect_snapshot_if_unreferenced(s) ==
    /\ Present(s)
    /\ Unreferenced(s)
    /\ transaction(CollectRequest(s), logical_tick)
    /\ UNCHANGED <<roster, sessionVars, writerVars, reader_key,
                   followerVars, orphans, historyVars, calls>>

-----------------------------------------------------------------------------
(* await_snapshot_change and current_snapshot, called in a loop: each await *)
(* resumes from the last update; an exception makes the caller read again.  *)

CurrentWatch ==
    [start |-> current_key, end |-> 0, filter |-> "none", progress |-> FALSE]

Sees(f, update) == seen' = [seen EXCEPT ![f] = update]

\* The published pointer an event of the watched key carries.
EventPointer(rev) ==
    (CHOOSE p \in {publications[i] : i \in DOMAIN publications} : p.revision = rev).pointer

FollowerFrame ==
    UNCHANGED <<values, leases, leaseVars, roster, session, active, pointer,
                writerVars, reader_key, orphans, historyVars, calls>>

ResumeFrom(f) == seen[f].revision + 1

\* The ID is taken, or no more watchers are admitted.
Crowded(w) == watchers[w] # Absent \/ Cardinality(ActiveWatches) >= MaxWatchers

\* create_watch throws an error that goes to the caller.
Refused(w, from) ==
    \/ Crowded(w)
    \/ from > compact_revision /\ Len(Replay(CurrentWatch, from)) > MaxWatchPending

\* next_watch_id_ counts up in every client; here it wraps after WatchIds.
\* create_watch throws compacted, which is answered by a full read, or an
\* error that goes to the caller.
AwaitCreate(f) ==
    LET w == watch_id[f]
        from == ResumeFrom(f)
    IN  /\ f \in Followers /\ pc[f] = "idle"
        /\ \/ create_watch(w, CurrentWatch, from) /\ Goto(f, "poll")
           \/ /\ ~Crowded(w) /\ from <= compact_revision
              /\ Goto(f, "resync")
              /\ UNCHANGED <<revision, hubVars>>
           \/ /\ Refused(w, from)
              /\ Goto(f, "failed")
              /\ UNCHANGED <<revision, hubVars>>
        /\ watch_id' = [watch_id EXCEPT ![f] = (@ % Cardinality(WatchIds)) + 1]
        /\ UNCHANGED seen
        /\ FollowerFrame

\* The ID of the await in progress.
AwaitId(f) == IF watch_id[f] = 1 THEN Cardinality(WatchIds) ELSE watch_id[f] - 1

\* One round of the polling loop.  After an overflow the terminal response
\* has released the watch; polling an unknown ID throws, past the cleanup.
AwaitPoll(f) ==
    LET w == AwaitId(f)
        watch == watchers[w]
    IN  /\ pc[f] \in {"poll", "wait"}
        /\ \/ /\ watch = Absent
              /\ Goto(f, "unwind")
              /\ UNCHANGED <<revision, hubVars, seen>>
           \/ /\ watch # Absent /\ watch.terminal # <<>>
              /\ poll_watch(w)
              /\ Goto(f, "wait")
              /\ UNCHANGED seen
           \/ /\ watch # Absent /\ watch.terminal = <<>> /\ watch.pending # <<>>
              /\ poll_watch(w)
              /\ LET rev == Head(watch.pending).revision
                 IN  Sees(f, [revision |-> rev, pointer |-> EventPointer(rev)])
              /\ Goto(f, "done")
           \/ /\ watch # Absent /\ watch.terminal = <<>> /\ watch.pending = <<>>
              /\ Goto(f, "wait")
              /\ UNCHANGED <<revision, hubVars, seen>>
        /\ UNCHANGED watch_id
        /\ FollowerFrame

AwaitTimeout(f) ==
    /\ pc[f] = "wait"
    /\ Goto(f, "done")
    /\ UNCHANGED <<revision, hubVars, followerVars>>
    /\ FollowerFrame

\* Mutant: cancelling a watch that is gone ends the follower's process.
MutAwaitCleanup(f) ==
    /\ pc[f] \in {"done", "unwind"}
    /\ cancel_watch(AwaitId(f))
    /\ Goto(f, IF pc[f] = "done" THEN "idle" ELSE "failed")
    /\ UNCHANGED followerVars
    /\ FollowerFrame

\* WatchCleanup: cancels whatever is registered under the ID.
AwaitCleanup(f) ==
    /\ pc[f] \in {"done", "unwind"}
    /\ \/ cancel_watch(AwaitId(f))
       \/ watchers[AwaitId(f)] = Absent /\ UNCHANGED <<revision, hubVars>>
    /\ Goto(f, IF pc[f] = "done" THEN "idle" ELSE "failed")
    /\ UNCHANGED followerVars
    /\ FollowerFrame

\* The full read after a compacted watch, or after an exception.
current_snapshot(f) ==
    /\ pc[f] \in {"resync", "failed"}
    /\ IF Present(current_key) THEN Sees(f, CurrentUpdate) ELSE UNCHANGED seen
    /\ Goto(f, "idle")
    /\ UNCHANGED <<revision, hubVars, watch_id>>
    /\ FollowerFrame

-----------------------------------------------------------------------------
(* The host calls expire_leases *)

\* A call that finds nothing expired changes no key and no lease.
ExpireLeases ==
    /\ UNCHANGED <<roster, sessionVars, writerVars, reader_key, followerVars,
                   orphans, historyVars, calls>>
    /\ \E tick \in Now :
         /\ \E id \in LiveLeases : leases[id].expiry_tick <= tick
         /\ expire_leases(tick)

KuraInit ==
    /\ Init
    /\ roster \in DOMAIN Rosters
    /\ pc = [c \in Clients |-> "idle"]
    /\ session = [c \in Guards |-> NoLease]
    /\ active = [c \in Guards |-> FALSE]
    /\ pointer = [c \in Guards |-> 0]
    /\ base = [c \in Guards |-> 0]
    /\ outcome = [c \in Guards |-> NoOutcome]
    /\ reader_key = [c \in Readers |-> 0]
    /\ seen = [f \in Followers |-> NoUpdate]
    /\ watch_id = [f \in Followers |-> 1]
    /\ orphans = {}
    /\ publications = <<>>
    /\ generation = 0
    /\ calls = [kind \in {"publishes", "faults"} |-> 0]

Acquire(c) ==
    AcquireRead(c) \/ RegisterBegin(c) \/ Grant(c) \/ Claim(c) \/ ClaimUncertain(c)

Session(c) == Revoke(c) \/ Abandon(c) \/ SessionKeepAlive(c) \/ SessionKeepAliveFails(c)

publish_snapshot(c) ==
    \/ PublishBegin(c) \/ PublishCall(c) \/ PublishUncertain(c)
    \/ PublishConflict(c) \/ PublishResolve(c)

await_snapshot_change(f) ==
    \/ AwaitCreate(f) \/ AwaitPoll(f) \/ AwaitTimeout(f) \/ AwaitCleanup(f)
    \/ current_snapshot(f)

KuraNext ==
    \/ \E c \in Bounds.clients \cap Guards :
         Acquire(c) \/ Session(c) \/ publish_snapshot(c)
    \/ \E f \in Bounds.clients \cap Followers : await_snapshot_change(f)
    \/ Bounds.collects /\ \E s \in SnapshotKeys : collect_snapshot_if_unreferenced(s)
    \/ ApplyOrphan \/ ExpireLeases

(***************************************************************************)
(* Time passes and the host calls expire_leases again; a follower's call   *)
(* goes on, ends by its timeout, and is made again.  No writer or reader   *)
(* has to act.                                                             *)
(***************************************************************************)
KuraSpec ==
    /\ KuraInit /\ [][KuraNext]_kuraVars
    /\ WF_kuraVars(ExpireLeases)
    /\ \A f \in Followers :
         WF_kuraVars(f \in Bounds.clients /\ await_snapshot_change(f))

-----------------------------------------------------------------------------
(* Properties *)

(***************************************************************************)
(* Publications form one chain: each replaces exactly the one its writer   *)
(* named as base, so no base is consumed twice and no update is lost; and  *)
(* each comes from the generation that claimed the table last, so a paused *)
(* writer, its retries and its late requests never publish after another   *)
(* writer has taken over.                                                  *)
(***************************************************************************)
OneFencedChain ==
    \A i \in DOMAIN publications :
       /\ publications[i].base = IF i = 1 THEN 0 ELSE publications[i - 1].revision
       /\ publications[i].token = publications[i].generation

PublishedAt(rev) == {i \in DOMAIN publications : publications[i].revision = rev}

(***************************************************************************)
(* What publish_snapshot returned stays true: "published" names the        *)
(* writer's own publication, "recovered" a publication of exactly the      *)
(* pointer that was sent, "conflict" the publication that was current.     *)
(***************************************************************************)
OutcomesAreTrue ==
    \A c \in Writers :
       LET o == outcome[c]
       IN  \/ o.status = "none"
           \/ o.status = "conflict" /\ o.revision = 0
           \/ \E i \in PublishedAt(o.revision) :
                /\ publications[i].pointer = o.pointer
                /\ o.status = "published" =>
                     publications[i].token = o.token /\ publications[i].base = o.base

(***************************************************************************)
(* collect_snapshot never removes the record of the current snapshot nor   *)
(* of one a reader key pins, whichever registrations, expiries and         *)
(* publications it interleaves with.                                       *)
(***************************************************************************)
ReferencedSnapshotsSurvive ==
    /\ Present(current_key) =>
         Pointer(snapshot_key[Pointer(current_key)]) = Pointer(current_key)
    /\ \A k \in ReaderKeys : Present(k) => Present(values[k].value)

\* The table is locked under a lease that no guard renews.
Abandoned ==
    /\ Present(writer_key)
    /\ \A c \in Writers : active[c] => session[c].id # values[writer_key].lease_id

(***************************************************************************)
(* A writer key whose owner died, lost its renewals or never learned that  *)
(* its claim succeeded does not lock the table for ever: lease expiry      *)
(* removes it.                                                             *)
(***************************************************************************)
AbandonedLockIsFreed == []<>~Abandoned

\* The publications a reader of revision rev could know of.
PublishedBy(rev) == {i \in DOMAIN publications : publications[i].revision <= rev}


(***************************************************************************)
(* A follower ends up with the last published pointer, through overflowed  *)
(* and compacted watches and through clients that use the same watch ID.   *)
(***************************************************************************)
FollowersCatchUp ==
    <>[](\A f \in Followers \cap Bounds.clients :
           /\ seen[f].pointer = Pointer(current_key)
           /\ seen[f].revision >= ModRevision(current_key))
=============================================================================
