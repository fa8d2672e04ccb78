---------------------------- MODULE WatchClients ----------------------------
(***************************************************************************)
(* MetadataStore with clients that keep a watch each and follow the        *)
(* protocol of docs/design/0003: read the current range, watch from the    *)
(* revision after the read, remember the header revision of every          *)
(* response, resume one past it after losing the watch, and read again     *)
(* when the store answers compacted.                                       *)
(*                                                                         *)
(* changes is the ground truth the deliveries are compared with.  It is    *)
(* taken from how values_ differs before and after a step, never from the  *)
(* events the store publishes.                                             *)
(***************************************************************************)
EXTENDS MetadataStore

CONSTANT MaxDisruptions     \* bound on cancellations, progress requests, restarts

VARIABLES
    changes,        \* changes[r]: what revision r did to the key values
    request,        \* request[w]: what client w watches
    base,           \* base[w]: revision of client w's last range read
    next,           \* next[w]: revision to resume from, 0 before any read
    got,            \* got[w]: responses with events received since base[w], in order
    disruptions

clientVars == <<request, base, next, got>>
allVars == <<vars, changes, clientVars, disruptions>>

Diff ==
    {[type |-> "put", key |-> k] :
        k \in {j \in Keys : values'[j] # values[j] /\ values'[j] # Absent}}
    \cup {[type |-> "erase", key |-> k] :
        k \in {j \in Keys : values'[j] # values[j] /\ values'[j] = Absent}}

StoreStep ==
    /\ Mutation \/ LeaseOperation
    /\ changes' = IF revision' = revision
                  THEN changes
                  ELSE [changes EXCEPT ![revision'] = Diff]
    /\ UNCHANGED <<clientVars, disruptions>>

\* A client without a position, or behind the compaction boundary.
Rebuild(w) ==
    /\ watchers[w] = Absent
    /\ next[w] = 0 \/ next[w] <= compact_revision
    /\ base' = [base EXCEPT ![w] = revision]
    /\ next' = [next EXCEPT ![w] = revision + 1]
    /\ got' = [got EXCEPT ![w] = <<>>]
    /\ UNCHANGED <<vars, changes, request, disruptions>>

Subscribe(w) ==
    /\ next[w] # 0
    /\ create_watch(w, request[w], next[w])
    /\ UNCHANGED <<values, leases, leaseVars, changes, clientVars, disruptions>>

\* The terminal response only tells the client that its watch is gone.
Poll(w) ==
    /\ poll_watch(w)
    /\ IF watchers[w].terminal # <<>>
       THEN UNCHANGED <<next, got>>
       ELSE LET r == Head(watchers[w].pending)
            IN  /\ next' = [next EXCEPT ![w] = r.revision + 1]
                /\ got' = IF r.events = {} THEN got ELSE [got EXCEPT ![w] = Append(@, r)]
    /\ UNCHANGED <<values, leases, leaseVars, changes, request, base, disruptions>>

Disruption ==
    /\ disruptions < MaxDisruptions
    /\ disruptions' = disruptions + 1
    /\ \/ /\ \E w \in WatchIds : cancel_watch(w) \/ request_watch_progress(w)
          /\ UNCHANGED <<values, leases, leaseVars>>
       \/ RestoreSnapshot
    /\ UNCHANGED <<changes, clientVars>>

ClientInit ==
    /\ Init
    /\ changes = [r \in 1..Int64Max |-> {}]
    /\ request \in [WatchIds -> WatchRequests]
    /\ base = [w \in WatchIds |-> 0]
    /\ next = [w \in WatchIds |-> 0]
    /\ got = [w \in WatchIds |-> <<>>]
    /\ disruptions = 0

ClientStep(w) == Rebuild(w) \/ Subscribe(w) \/ Poll(w)

ClientNext == StoreStep \/ Disruption \/ \E w \in WatchIds : ClientStep(w)

ClientSpec == ClientInit /\ [][ClientNext]_allVars

\* A client keeps polling, resuming and rebuilding as long as it can.
FairClientSpec == ClientSpec /\ \A w \in WatchIds : WF_allVars(ClientStep(w))

-----------------------------------------------------------------------------

\* One response for each of the revisions from..to that has a matching change.
Owed(w, from, to) ==
    LET All == [i \in 1..to - from + 1 |->
                  Response(from + i - 1, Matching(request[w], changes[from + i - 1]))]
        HasEvents(r) == r.events # {}
    IN  SelectSeq(All, HasEvents)

(***************************************************************************)
(* What a client has received is exactly one response for each revision    *)
(* with a matching change, from its last read up to the position it would  *)
(* resume from, in order: no gap, nothing twice, nothing made up, across   *)
(* replay, live delivery, overflow, cancellation, resumption, compaction   *)
(* and restart of the store.                                               *)
(***************************************************************************)
DeliveryIsExact ==
    \A w \in WatchIds : next[w] # 0 => got[w] = Owed(w, base[w] + 1, next[w] - 1)

(***************************************************************************)
(* A registered watch with nothing queued and no terminal response has     *)
(* delivered every matching change: poll_watch never answers "nothing      *)
(* yet" to a client that misses one.                                       *)
(***************************************************************************)
QuietWatchIsCurrent ==
    \A w \in WatchIds :
       /\ watchers[w] # Absent
       /\ watchers[w].pending = <<>>
       /\ watchers[w].terminal = <<>>
       => Owed(w, next[w], revision) = <<>>

CaughtUp(w) == next[w] # 0 /\ Owed(w, next[w], revision) = <<>>

(***************************************************************************)
(* Once writers stop, every client that keeps polling catches up, through  *)
(* overflow, compaction, resumption and a restart of the store.            *)
(***************************************************************************)
EveryClientCatchesUp == \A w \in WatchIds : <>[]CaughtUp(w)
=============================================================================
