------------------------------ MODULE RaftCore ------------------------------
(***************************************************************************)
(* raft::election::Core of src/src/raft_election.cpp: the figure2 server   *)
(* with its timers, the gate that holds messages back until the log is     *)
(* durable, one-at-a-time application, snapshots, and ReadIndex.           *)
(*                                                                         *)
(* An input maps a core to [core, sent, answers]: the new core, the        *)
(* messages it sends and the reads it answers.  Timer IDs are abstracted   *)
(* to whether the timer is armed, since a deadline of an older timer is    *)
(* ignored.  The code draws snapshot transfer IDs from one counter; here   *)
(* each peer has its own, and an ID is only ever compared per peer.        *)
(***************************************************************************)
EXTENDS Figure2

CONSTANTS MaxPendingReads, MaxReadHistory

NoTransfer == [id |-> 0, index |-> 0]

Unused == [index |-> 0]     \* no pending snapshot, restore or installation

Outcome(c, sent) == [core |-> c, sent |-> sent, answers |-> {}]

\* What the driver finds on disk when it constructs a core.
EmptyDisk ==
    [term |-> 0, vote |-> None, base |-> 0, log |-> <<>>, machine |-> <<>>,
     snapshot |-> NoSnapshot]

-----------------------------------------------------------------------------
(* Construction from recovered storage. *)

\* The recovered log ends before, at or after the snapshot's index.
LogCovers(d, i) == i \in d.base + 1..d.base + Len(d.log)

RecoveredLog(d) ==
    IF d.snapshot.index # 0 /\ LogCovers(d, d.snapshot.index)
    THEN SubSeq(d.log, d.snapshot.index - d.base + 1, Len(d.log))
    ELSE d.log

RecoveredApplied(d) == Max({Len(d.machine), d.snapshot.index})

Core(n, d) ==
    [node |-> n, role |-> "follower", current_term |-> d.term, voted_for |-> d.vote,
     log |-> RecoveredLog(d), snapshot |-> d.snapshot,
     commit_index |-> RecoveredApplied(d), last_applied |-> RecoveredApplied(d),
     votes_received |-> {}, next_index |-> [p \in peers(n) |-> 1],
     match_index |-> [p \in peers(n) |-> 0], pending_clients |-> {},
     pending_hard_state |-> <<>>, pending_log |-> <<>>,
     pending_application |-> <<>>, blocked |-> FALSE,
     election_timer |-> TRUE, heartbeat_timer |-> FALSE,
     pending_snapshot |-> Unused, pending_restore |-> Unused,
     install_after_hard_state |-> Unused,
     transfers |-> [p \in peers(n) |-> NoTransfer],
     last_transfer |-> [p \in peers(n) |-> 0],
     reads |-> <<>>, last_context |-> 0]

\* The constructor returns: none of its checks on recovered storage throws.
Recovers(n, d) ==
    LET i == d.snapshot.index
    IN  /\ i # 0 =>
             /\ d.snapshot.term \in 1..d.term
             /\ IF LogCovers(d, i) THEN d.log[i - d.base].term = d.snapshot.term
                ELSE d.log # <<>> => d.base = i
        /\ RecoveredApplied(d) <= last_index(Core(n, d))
        /\ validate(Core(n, d))

-----------------------------------------------------------------------------
(* When an input is accepted. *)

SnapshotBusy(c) == c.pending_snapshot # Unused \/ c.pending_restore # Unused

waiting_for_persistence(c) ==
    c.pending_hard_state # <<>> \/ c.pending_log # <<>> \/ SnapshotBusy(c)

-----------------------------------------------------------------------------
(* Effects of a figure2 transition. *)

schedule_application(c) ==
    IF c.pending_application = <<>> /\ c.last_applied < c.commit_index
    THEN [c EXCEPT !.pending_application =
                      <<c.log[c.last_applied + 1 - c.snapshot.index]>>]
    ELSE c

\* Messages to a peer behind the snapshot become InstallSnapshot.
Compacted(c, m) ==
    /\ c.snapshot.index # 0 /\ c.role = "leader"
    /\ m.type = "append" /\ c.next_index[m.to] <= c.snapshot.index

InstallRequest(c, m) ==
    [type |-> "install", term |-> c.current_term, from |-> c.node, to |-> m.to,
     transfer |-> c.last_transfer[m.to] + 1, snapshot |-> c.snapshot, ctx |-> m.ctx]

replace_compacted_appends(c, sent) ==
    LET old == {m \in sent : Compacted(c, m)}
        to == {m.to : m \in old}
    IN  Outcome([c EXCEPT !.last_transfer = [p \in DOMAIN @ |-> IF p \in to THEN @[p] + 1 ELSE @[p]],
                          !.transfers = [p \in DOMAIN @ |->
                                           IF p \in to
                                           THEN [id |-> c.last_transfer[p] + 1,
                                                 index |-> c.snapshot.index]
                                           ELSE @[p]]],
                (sent \ old) \cup {InstallRequest(c, m) : m \in old})

\* Mutant: a deposed leader does not arm its election timer.
MutRoleChanged(c, previous, resets) ==
    IF c.role = "leader" /\ previous # "leader" /\ c.election_timer
    THEN [c EXCEPT !.election_timer = FALSE, !.heartbeat_timer = TRUE]
    ELSE IF previous = "leader" /\ c.role # "leader"
    THEN [c EXCEPT !.heartbeat_timer = FALSE,
                   !.reads = <<>>,
                   !.transfers = [p \in DOMAIN @ |-> NoTransfer]]
    ELSE c

\* The timers, reads and transfers that a change of role disturbs.
RoleChanged(c, previous, resets) ==
    IF c.role = "leader" /\ previous # "leader" /\ c.election_timer
    THEN [c EXCEPT !.election_timer = FALSE, !.heartbeat_timer = TRUE]
    ELSE IF previous = "leader" /\ c.role # "leader"
    THEN [c EXCEPT !.heartbeat_timer = FALSE,
                   !.election_timer = @ \/ ~resets,
                   !.reads = <<>>,
                   !.transfers = [p \in DOMAIN @ |-> NoTransfer]]
    ELSE c

Messages(effects) == UNION {e.msgs : e \in {x \in ToSet(effects) : x.kind = "send"}}

\* gate_log_persistence: what follows the log request waits for it.
translate(r, previous) ==
    LET Log(e) == e.kind = "log"
        i == SelectInSeq(r.effects, Log)
        resets == ResetElectionTimer \in ToSet(r.effects)
        turned == RoleChanged(r.state, previous, resets)
        armed == [turned EXCEPT !.election_timer = @ \/ resets]
        now == IF i = 0 THEN r.effects ELSE SubSeq(r.effects, 1, i)
        gated == IF i = 0 THEN armed
                 ELSE [armed EXCEPT !.pending_log =
                         <<Messages(SubSeq(r.effects, i + 1, Len(r.effects)))>>]
        done == replace_compacted_appends(gated, Messages(now))
    IN  IF gated.pending_hard_state = <<>> /\ gated.pending_log = <<>>
        THEN [done EXCEPT !.core = schedule_application(@)]
        ELSE done

Step(c, r) == translate(gate_on_hard_state(r), c.role)

-----------------------------------------------------------------------------
(* ReadIndex. *)

complete_ready_reads(o) ==
    LET c == o.core
        ready == {x \in DOMAIN c.reads :
                    c.reads[x].confirmed /\ c.last_applied >= c.reads[x].index}
    IN  [o EXCEPT !.core.reads = [x \in DOMAIN @ \ ready |-> @[x]],
                  !.answers = @ \cup {c.reads[x] : x \in ready}]

\* Mutant: any answer of the term confirms the pending reads.
MutAcknowledgeRead(o, m) ==
    LET c == o.core
    IN  IF c.role = "leader" /\ m.term = c.current_term /\ m.ok
        THEN complete_ready_reads(
               [o EXCEPT !.core.reads = [x \in DOMAIN @ |-> [@[x] EXCEPT !.confirmed = TRUE]]])
        ELSE o

\* Deposits the follower's answer; failed or unknown contexts change nothing.
acknowledge_read(o, m) ==
    LET c == o.core
        acks == c.reads[m.ctx].acknowledgements \cup {m.from}
    IN  IF /\ c.role = "leader" /\ m.term = c.current_term
           /\ m.ok /\ m.ctx \in DOMAIN c.reads
        THEN complete_ready_reads(
               [o EXCEPT !.core.reads[m.ctx].acknowledgements = acks,
                         !.core.reads[m.ctx].confirmed = @ \/ Cardinality(acks) >= majority])
        ELSE o

ReadAccepted(c) ==
    /\ c.role = "leader"
    /\ c.commit_index # 0 /\ term_at(c, c.commit_index) = c.current_term
    /\ Cardinality(DOMAIN c.reads) < MaxPendingReads
    /\ c.last_context < MaxReadHistory

\* floor records what the reader may already know; the code has no such field.
begin_read(c, floor) ==
    LET ctx == c.last_context + 1
        read == [index |-> c.commit_index, acknowledgements |-> {c.node},
                 confirmed |-> FALSE, floor |-> floor]
        noted == [c EXCEPT !.last_context = ctx,
                           !.reads = [x \in DOMAIN @ \cup {ctx} |->
                                        IF x = ctx THEN read ELSE @[x]]]
        beat == Step(noted, heartbeat(noted))
    IN  [beat EXCEPT !.sent = {[m EXCEPT !.ctx = ctx] : m \in @}]

\* cancel_read and timeout_read, which differ only in the reason given.
drop_read(c, ctx) ==
    Outcome([c EXCEPT !.reads = [x \in DOMAIN @ \ {ctx} |-> @[x]]], {})

-----------------------------------------------------------------------------
(* Timers, messages and client commands. *)

election_deadline(c) ==
    LET fired == [c EXCEPT !.election_timer = FALSE]
    IN  Step(fired, IF c.role = "leader" THEN Result(fired, <<>>) ELSE start_election(fired))

\* The heartbeat timer is armed again at once.
heartbeat_deadline(c) == Step(c, heartbeat(c))

receive_append_response(c, m) ==
    acknowledge_read(Step(c, handle_append_entries_response(c, m)), m)

-----------------------------------------------------------------------------
(* Application. *)

log_entry_applied(c) ==
    LET applied == [c EXCEPT !.last_applied = @ + 1, !.pending_application = <<>>,
                             !.pending_clients = @ \ {c.last_applied + 1}]
        done == complete_ready_reads(Outcome(applied, {}))
    IN  [done EXCEPT !.core = schedule_application(@)]

log_persisted(c) ==
    LET done == replace_compacted_appends([c EXCEPT !.pending_log = <<>>],
                                          c.pending_log[1])
    IN  [done EXCEPT !.core = schedule_application(@)]

-----------------------------------------------------------------------------
(* Snapshots. *)

SnapshotAllowed(c) ==
    c.last_applied # 0 /\ c.last_applied > c.snapshot.index

begin_snapshot(c, state) ==
    Outcome([c EXCEPT !.pending_snapshot =
               [index |-> c.last_applied, term |-> term_at(c, c.last_applied),
                state |-> state, from |-> None]], {})

InstallResponse(c, m, ok, index) ==
    [type |-> "installed", term |-> c.current_term, from |-> c.node, to |-> m.from,
     transfer |-> m.transfer, ok |-> ok, index |-> index, ctx |-> m.ctx]

\* receive_snapshot; a higher term is made durable before the rest is read.
receive_snapshot(c, m) ==
    LET accepted == Step(c, Result(BecomeFollower(c), <<ResetElectionTimer>>))
        With(sent) == [accepted EXCEPT !.sent = @ \cup sent]
    IN  IF m.term < c.current_term
        THEN Outcome(c, {InstallResponse(c, m, FALSE, 0)})
        ELSE IF m.term > c.current_term
        THEN LET seen == [c EXCEPT !.install_after_hard_state = m]
             IN  Step(seen, observe_higher_term(seen, m.term))
        ELSE IF m.snapshot.index <= c.snapshot.index
        THEN With({InstallResponse(c, m, m.snapshot = c.snapshot, c.snapshot.index)})
        ELSE IF m.snapshot.index <= c.last_applied
        THEN With({InstallResponse(c, m, FALSE, 0)})
        ELSE [accepted EXCEPT !.core.pending_snapshot =
                [index |-> m.snapshot.index, term |-> m.snapshot.term,
                 state |-> m.snapshot.state, from |-> m.from,
                 response |-> InstallResponse(c, m, TRUE, m.snapshot.index)]]

\* RaftHardStatePersisted, followed by the installation that waited for it.
hard_state_completed(c) ==
    LET done == translate(hard_state_persisted(c), c.role)
        m == c.install_after_hard_state
        next == receive_snapshot([done.core EXCEPT !.install_after_hard_state = Unused], m)
    IN  IF m # Unused /\ done.core.pending_hard_state = <<>>
        THEN [next EXCEPT !.sent = @ \cup done.sent]
        ELSE done

\* Mutant: an installed snapshot does not raise the commit index.
MutCompactTo(c, s) ==
    LET held == s.index \in c.snapshot.index..last_index(c)
                /\ term_at(c, s.index) = s.term
    IN  [c EXCEPT !.log = IF held THEN SubSeq(@, s.index - c.snapshot.index + 1, Len(@))
                          ELSE <<>>,
                  !.snapshot = [index |-> s.index, term |-> s.term, state |-> s.state],
                  !.last_applied = Max({@, s.index}),
                  !.pending_application = IF c.last_applied < s.index THEN <<>> ELSE @,
                  !.blocked = IF c.last_applied < s.index THEN FALSE ELSE @]

\* compact_to: a suffix survives only behind a boundary entry of equal term.
compact_to(c, s) ==
    LET held == s.index \in c.snapshot.index..last_index(c)
                /\ term_at(c, s.index) = s.term
    IN  [c EXCEPT !.log = IF held THEN SubSeq(@, s.index - c.snapshot.index + 1, Len(@))
                          ELSE <<>>,
                  !.snapshot = [index |-> s.index, term |-> s.term, state |-> s.state],
                  !.commit_index = Max({@, s.index}),
                  !.last_applied = Max({@, s.index}),
                  !.pending_application = IF c.last_applied < s.index THEN <<>> ELSE @,
                  !.blocked = IF c.last_applied < s.index THEN FALSE ELSE @]

Resume(c, sent) ==
    LET done == complete_ready_reads(Outcome(c, sent))
    IN  [done EXCEPT !.core = schedule_application(@)]

\* install_persisted_snapshot: compacts, or asks the state machine to restore.
snapshot_persisted(c) ==
    LET s == c.pending_snapshot
        idle == [c EXCEPT !.pending_snapshot = Unused]
    IN  IF s.from = None THEN Resume(compact_to(idle, s), {})
        ELSE Resume([idle EXCEPT !.pending_restore = s], {})

complete_snapshot_restore(c) ==
    LET s == c.pending_restore
    IN  Resume(compact_to([c EXCEPT !.pending_restore = Unused], s), {s.response})

\* Mutant: any success answers whatever transfer is open.
MutSnapshotResponse(c, m) ==
    LET closed == [c EXCEPT !.transfers[m.from] = NoTransfer]
        match == [type |-> "appended", term |-> m.term, from |-> m.from, to |-> c.node,
                  ok |-> TRUE, match |-> c.transfers[m.from].index, ctx |-> m.ctx]
        done == receive_append_response(closed, match)
        resumed == Step(done.core, heartbeat(done.core))
    IN  IF m.term > c.current_term
        THEN Step(c, observe_higher_term(c, m.term))
        ELSE IF /\ c.role = "leader" /\ m.term = c.current_term /\ m.ok
                /\ c.transfers[m.from] # NoTransfer
        THEN [resumed EXCEPT !.sent = @ \cup done.sent, !.answers = @ \cup done.answers]
        ELSE Outcome(c, {})

\* receive_snapshot_response: success of the open transfer counts as a match.
receive_snapshot_response(c, m) ==
    LET closed == [c EXCEPT !.transfers[m.from] = NoTransfer]
        match == [type |-> "appended", term |-> m.term, from |-> m.from, to |-> c.node,
                  ok |-> TRUE, match |-> m.index, ctx |-> m.ctx]
        done == receive_append_response(closed, match)
        resumed == Step(done.core, heartbeat(done.core))
    IN  IF m.term > c.current_term
        THEN Step(c, observe_higher_term(c, m.term))
        ELSE IF /\ c.role = "leader" /\ m.term = c.current_term /\ m.ok
                /\ m.index = c.snapshot.index /\ m.index # 0
                /\ c.transfers[m.from] = [id |-> m.transfer, index |-> m.index]
        THEN [resumed EXCEPT !.sent = @ \cup done.sent, !.answers = @ \cup done.answers]
        ELSE Outcome(c, {})
=============================================================================
