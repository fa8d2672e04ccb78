------------------------------ MODULE WatchHub ------------------------------
(***************************************************************************)
(* The watch side of InMemoryMetadataStore: the bounded event history, the *)
(* registered watchers with their bounded queues, and the publication of   *)
(* one batch of events per store revision.  Every operation runs under the *)
(* store's mutex, so each is one atomic step.                              *)
(*                                                                         *)
(* Keys are positive numbers in the order of their bytes; 0 is the empty   *)
(* byte sequence.  A batch is the set of its events: a transaction touches *)
(* a key at most once, so an event is named by its type and key.           *)
(***************************************************************************)
EXTENDS Integers, Sequences, FiniteSets

CONSTANTS
    Keys,               \* non-empty byte sequences used as keys
    Int64Max,           \* largest signed 64-bit value: revisions, versions
    WatchIds,           \* watch identifiers callers use
    WatchRequests,      \* requests callers make, see WatchRequest
    MaxWatchers,        \* StoreLimits::max_watchers
    MaxWatchPending,    \* StoreLimits::max_watch_pending_responses
    MaxWatchHistory,    \* StoreLimits::max_watch_history_revisions
    Absent              \* no key value, no lease, no watcher

VARIABLES
    revision,           \* revision_
    compact_revision,   \* compact_revision_
    history,            \* history_: retained EventBatch records, oldest first
    watchers            \* watchers_

hubVars == <<compact_revision, history, watchers>>

Event == [type : {"put", "erase"}, key : Keys]

EventBatch == [revision : 1..Int64Max, events : SUBSET Event]

\* range.end = 0 is the empty end bound: watch exactly range.start.
WatchRequest ==
    [start : Keys, end : Nat, filter : {"none", "exclude_put", "exclude_erase"},
     progress : BOOLEAN]

\* A queued response: its header revision and the events it carries.
WatchResponse == [revision : 0..Int64Max, events : SUBSET Event]

\* terminal is std::optional<WatchResponse>: a sequence of length 0 or 1.
WatchState ==
    [request : WatchRequest, pending : Seq(WatchResponse),
     terminal : {<<>>} \cup {<<r>> : r \in WatchResponse}]

ASSUME WatchConstants ==
    /\ Keys \subseteq Nat \ {0}
    /\ Int64Max \in Nat \ {0}
    /\ {MaxWatchers, MaxWatchPending, MaxWatchHistory} \subseteq Nat

-----------------------------------------------------------------------------

watch_matches(request, event) ==
    /\ ~(request.filter = "exclude_put" /\ event.type = "put")
    /\ ~(request.filter = "exclude_erase" /\ event.type = "erase")
    /\ IF request.end = 0
       THEN event.key = request.start
       ELSE request.start <= event.key /\ event.key < request.end

Matching(request, events) == {e \in events : watch_matches(request, e)}

\* A batch reaches a watcher when it matches or progress is asked for.
Wanted(request, events) == request.progress \/ Matching(request, events) # {}

Response(rev, events) == [revision |-> rev, events |-> events]

\* Mutant: a full queue is dropped without a terminal response.
MutEnqueueSilent(state, rev, events) ==
    IF Len(state.pending) >= MaxWatchPending
    THEN [state EXCEPT !.pending = <<>>]
    ELSE [state EXCEPT !.pending = Append(@, Response(rev, events))]

\* Queue one more response; a full queue is dropped for a terminal error.
Enqueue(state, rev, events) ==
    IF Len(state.pending) >= MaxWatchPending
    THEN [state EXCEPT !.pending = <<>>, !.terminal = <<Response(rev, {})>>]
    ELSE [state EXCEPT !.pending = Append(@, Response(rev, events))]

Deliver(state, rev, events) ==
    IF state.terminal # <<>> \/ ~Wanted(state.request, events)
    THEN state
    ELSE Enqueue(state, rev, Matching(state.request, events))

\* Mutant: one batch too few is dropped.
MutSurplus(batches) ==
    IF Len(batches) > MaxWatchHistory + 1 THEN Len(batches) - MaxWatchHistory ELSE 0

\* Drop oldest batches until the history fits its limit.
Surplus(batches) ==
    IF Len(batches) > MaxWatchHistory THEN Len(batches) - MaxWatchHistory ELSE 0

\* stage_watch_publication_locked and commit_watch_publication_locked.
Publish(events, rev) ==
    LET batches == Append(history, [revision |-> rev, events |-> events])
        surplus == Surplus(batches)
    IN  /\ history' = SubSeq(batches, surplus + 1, Len(batches))
        /\ compact_revision' = IF surplus = 0
                               THEN compact_revision
                               ELSE batches[surplus].revision
        /\ watchers' = [w \in WatchIds |->
                          IF watchers[w] = Absent
                          THEN Absent
                          ELSE Deliver(watchers[w], rev, events)]

-----------------------------------------------------------------------------

ActiveWatches == {w \in WatchIds : watchers[w] # Absent}

\* The first revision a watch covers: 0 asks for the next one.
StartRevision(requested) == IF requested = 0 THEN revision + 1 ELSE requested

\* Mutant: the revision before the start is replayed again.
MutReplay(request, start) ==
    LET wanted(batch) == /\ batch.revision + 1 >= start
                         /\ Wanted(request, batch.events)
        batches == SelectSeq(history, wanted)
    IN  [i \in 1..Len(batches) |->
           Response(batches[i].revision, Matching(request, batches[i].events))]

\* The retained batches the new watch has to replay, as responses.
Replay(request, start) ==
    LET wanted(batch) == /\ batch.revision >= start
                         /\ Wanted(request, batch.events)
        batches == SelectSeq(history, wanted)
    IN  [i \in 1..Len(batches) |->
           Response(batches[i].revision, Matching(request, batches[i].events))]

create_watch(w, request, requested) ==
    LET start == StartRevision(requested)
        replay == Replay(request, start)
    IN  /\ request.end = 0 \/ request.start < request.end
        /\ watchers[w] = Absent
        /\ Cardinality(ActiveWatches) < MaxWatchers
        /\ start <= Int64Max                    \* else future_revision
        /\ start > compact_revision             \* else compacted
        /\ start <= revision + 1                \* else future_revision
        /\ Len(replay) <= MaxWatchPending       \* else quota_exceeded
        /\ watchers' = [watchers EXCEPT ![w] =
               [request |-> request, pending |-> replay, terminal |-> <<>>]]
        /\ UNCHANGED <<revision, compact_revision, history>>

\* Mutant: a terminal response does not release the watch.
MutPollWatch(w) ==
    /\ watchers[w] # Absent
    /\ \/ /\ watchers[w].terminal # <<>>
          /\ UNCHANGED watchers
       \/ /\ watchers[w].terminal = <<>>
          /\ watchers[w].pending # <<>>
          /\ watchers' = [watchers EXCEPT ![w].pending = Tail(@)]
    /\ UNCHANGED <<revision, compact_revision, history>>

\* A terminal response is returned once and releases the watch.
poll_watch(w) ==
    /\ watchers[w] # Absent
    /\ \/ /\ watchers[w].terminal # <<>>
          /\ watchers' = [watchers EXCEPT ![w] = Absent]
       \/ /\ watchers[w].terminal = <<>>
          /\ watchers[w].pending # <<>>
          /\ watchers' = [watchers EXCEPT ![w].pending = Tail(@)]
    /\ UNCHANGED <<revision, compact_revision, history>>

request_watch_progress(w) ==
    /\ watchers[w] # Absent
    /\ watchers[w].terminal = <<>>
    /\ watchers' = [watchers EXCEPT ![w] = Enqueue(@, revision, {})]
    /\ UNCHANGED <<revision, compact_revision, history>>

cancel_watch(w) ==
    /\ watchers[w] # Absent
    /\ watchers' = [watchers EXCEPT ![w] = Absent]
    /\ UNCHANGED <<revision, compact_revision, history>>

\* A new process: no history and no watchers survive a snapshot.
ResetHub ==
    /\ history' = <<>>
    /\ watchers' = [w \in WatchIds |-> Absent]
    /\ compact_revision' = revision

InitHub ==
    /\ history = <<>>
    /\ watchers = [w \in WatchIds |-> Absent]
    /\ compact_revision = revision

(***************************************************************************)
(* The retained history is the unbroken run of revisions after the         *)
(* compaction boundary, within its limit.  create_watch relies on it: a    *)
(* start revision past compact_revision can always be replayed in full.    *)
(***************************************************************************)
HistoryUnbroken ==
    /\ Len(history) = revision - compact_revision
    /\ Len(history) <= MaxWatchHistory
    /\ \A i \in 1..Len(history) : history[i].revision = compact_revision + i
=============================================================================
