---------------------------- MODULE RaftCluster ----------------------------
(***************************************************************************)
(* A cluster of Raft cores driven as SimulationNode drives them: an input  *)
(* waits while persistence is pending, a completion arrives together with  *)
(* the write it reports, and a restart rebuilds the core from disk.        *)
(* TruncateRaftLogPrefix leaves the disk alone, as in that driver.         *)
(*                                                                         *)
(* Messages are never removed: a message that is lost is never received,   *)
(* one that is duplicated is received again, and any order is possible.  A *)
(* server that is down, or that its disk no longer lets start, is one that *)
(* takes no step.                                                          *)
(***************************************************************************)
EXTENDS RaftCore

CONSTANTS
    Scenarios           \* name -> the bounds and inputs of a behaviour:
                        \*   disks       the storage servers are first started with
                        \*   log         server -> largest index a command may take there
                        \*   transfers   snapshot transfers to one peer
                        \*   restarts    crashes, over the whole cluster
                        \*   crashers    servers that may crash
                        \*   heartbeats  heartbeats that say something new
                        \*   campaigns   term -> servers that may campaign for it
                        \*   reach       term -> servers that its messages reach
                        \*   readers     servers that are asked for a read index
                        \*   inputs      the optional inputs the environment gives

VARIABLES
    scenario,           \* the name of this behaviour's scenario
    core, disk, messages, restarts, beats,
    leaders,            \* history: [term, node] of every initialize_leader
    acked,              \* history: [index, entry, term] of completed commands
    served              \* history: [floor, index] of answered reads

vars == <<scenario, core, disk, messages, restarts, beats, leaders, acked, served>>

Bounds == Scenarios[scenario]

Init ==
    /\ scenario \in DOMAIN Scenarios
    /\ disk = Bounds.disks
    /\ core = [n \in Node |-> Core(n, disk[n])]
    /\ messages = {}
    /\ restarts = 0 /\ beats = 0
    /\ leaders = {} /\ acked = {} /\ served = {}

\* The outcome of an input becomes the server's state and its output.
Do(n, o) ==
    /\ LET most == Bounds.transfers
       IN  \A p \in peers(n) : o.core.last_transfer[p] <= most
    /\ core' = [core EXCEPT ![n] = o.core]
    /\ messages' = messages \cup o.sent
    /\ served' = served \cup
                   {[floor |-> r.floor, index |-> o.core.last_applied] : r \in o.answers}
    /\ leaders' = IF o.core.role = "leader"
                  THEN leaders \cup {[term |-> o.core.current_term, node |-> n]}
                  ELSE leaders
    /\ UNCHANGED <<scenario, restarts>>

Input(n, o) ==
    /\ ~waiting_for_persistence(core[n])
    /\ Do(n, o)
    /\ UNCHANGED <<disk, acked, beats>>

-----------------------------------------------------------------------------
(* Inputs that wait while persistence is pending. *)

ElectionDeadline(n) ==
    /\ core[n].election_timer /\ core[n].current_term < MaxTerm
    /\ n \in Bounds.campaigns[core[n].current_term + 1]
    /\ Input(n, election_deadline(core[n]))

HeartbeatDeadline(n) ==
    LET o == heartbeat_deadline(core[n])
    IN  /\ core[n].heartbeat_timer /\ core[n].role = "leader"
        /\ ~waiting_for_persistence(core[n])
        /\ beats' = IF o.sent \subseteq messages THEN beats ELSE beats + 1
        /\ beats' <= Bounds.heartbeats
        /\ Do(n, o)
        /\ UNCHANGED <<disk, acked>>

\* The messages a server may receive next; a vote request is for every peer.
Inbox(n) ==
    LET reach == Bounds.reach
    IN  {m \in messages :
           /\ IF m.type = "vote" THEN m.from # n ELSE m.to = n
           /\ n \in reach[m.term]}

ReceiveRequestVote(n, m) ==
    /\ m.type = "vote"
    /\ Input(n, Step(core[n], handle_request_vote(core[n], m)))

ReceiveRequestVoteResponse(n, m) ==
    /\ m.type = "voted"
    /\ Input(n, Step(core[n], handle_request_vote_response(core[n], m)))

ReceiveAppendEntries(n, m) ==
    /\ m.type = "append"
    /\ Input(n, Step(core[n], handle_append_entries(core[n], m)))

ReceiveAppendEntriesResponse(n, m) ==
    /\ m.type = "appended"
    /\ m.term = core[n].current_term /\ core[n].role = "leader" => m.match <= last_index(core[n])
    /\ Input(n, receive_append_response(core[n], m))

ReceiveInstallSnapshot(n, m) ==
    /\ m.type = "install"
    /\ Input(n, receive_snapshot(core[n], m))

ReceiveInstallSnapshotResponse(n, m) ==
    /\ m.type = "installed"
    /\ Input(n, receive_snapshot_response(core[n], m))

ReceiveClientCommand(n) ==
    /\ core[n].role = "leader" /\ last_index(core[n]) < Bounds.log[n]
    /\ Input(n, Step(core[n], handle_client(core[n])))

CreateRaftSnapshot(n) ==
    /\ "snapshot" \in Bounds.inputs
    /\ SnapshotAllowed(core[n])
    /\ Input(n, begin_snapshot(core[n], disk[n].machine))

\* A read must see every command acknowledged and every read answered so far.
Known == {a.index : a \in acked} \cup {r.index : r \in served}

ReadIndexRequest(n) ==
    /\ n \in Bounds.readers
    /\ ReadAccepted(core[n])
    /\ Input(n, begin_read(core[n], Max({0} \cup Known)))

CancelReadIndex(n, ctx) ==
    /\ "cancel" \in Bounds.inputs
    /\ ctx \in DOMAIN core[n].reads
    /\ Input(n, drop_read(core[n], ctx))

-----------------------------------------------------------------------------
(* Completions. *)

RaftHardStatePersisted(n) ==
    LET request == core[n].pending_hard_state[1]
    IN  /\ core[n].pending_hard_state # <<>> /\ ~SnapshotBusy(core[n])
        /\ disk' = [disk EXCEPT ![n].term = request.term, ![n].vote = request.vote]
        /\ Do(n, hard_state_completed(core[n]))
        /\ UNCHANGED <<acked, beats>>

RaftLogPersisted(n) ==
    /\ core[n].pending_log # <<>> /\ ~SnapshotBusy(core[n])
    /\ disk' = [disk EXCEPT ![n].log = core[n].log,
                            ![n].base = core[n].snapshot.index]
    /\ Do(n, log_persisted(core[n]))
    /\ UNCHANGED <<acked, beats>>

LogEntryApplied(n) ==
    LET entry == core[n].pending_application[1]
        index == core[n].last_applied + 1
    IN  /\ core[n].pending_application # <<>>
        /\ ~core[n].blocked /\ ~SnapshotBusy(core[n])
        /\ disk' = [disk EXCEPT ![n].machine = Append(@, entry)]
        /\ acked' = IF index \in core[n].pending_clients
                    THEN acked \cup {[index |-> index, entry |-> entry,
                                       term |-> core[n].current_term]}
                    ELSE acked
        /\ Do(n, log_entry_applied(core[n]))
        /\ UNCHANGED beats

LogEntryApplyFailed(n) ==
    /\ "failure" \in Bounds.inputs
    /\ core[n].pending_application # <<>>
    /\ ~core[n].blocked /\ ~SnapshotBusy(core[n])
    /\ Do(n, Outcome([core[n] EXCEPT !.blocked = TRUE], {}))
    /\ UNCHANGED <<disk, acked, beats>>

RetryApplication(n) ==
    /\ core[n].blocked /\ ~SnapshotBusy(core[n])
    /\ Do(n, Outcome([core[n] EXCEPT !.blocked = FALSE], {}))
    /\ UNCHANGED <<disk, acked, beats>>

RaftSnapshotPersisted(n) ==
    LET s == core[n].pending_snapshot
    IN  /\ s # Unused
        /\ disk' = [disk EXCEPT ![n].snapshot =
                      [index |-> s.index, term |-> s.term, state |-> s.state]]
        /\ Do(n, snapshot_persisted(core[n]))
        /\ UNCHANGED <<acked, beats>>

RaftSnapshotRestored(n) ==
    /\ core[n].pending_restore # Unused
    /\ disk' = [disk EXCEPT ![n].machine = core[n].pending_restore.state]
    /\ Do(n, complete_snapshot_restore(core[n]))
    /\ UNCHANGED <<acked, beats>>

\* Crash and restart; a newer snapshot is restored before the core starts.
Restart(n) ==
    /\ n \in Bounds.crashers /\ restarts < Bounds.restarts
    /\ restarts' = restarts + 1
    /\ Recovers(n, disk[n])
    /\ core' = [core EXCEPT ![n] = Core(n, disk[n])]
    /\ disk' = [disk EXCEPT ![n].machine =
                  IF disk[n].snapshot.index > Len(@) THEN disk[n].snapshot.state ELSE @]
    /\ UNCHANGED <<scenario, messages, beats, leaders, acked, served>>

-----------------------------------------------------------------------------

Deliver(n, m) ==
    \/ ReceiveRequestVote(n, m)
    \/ ReceiveRequestVoteResponse(n, m)
    \/ ReceiveAppendEntries(n, m)
    \/ ReceiveAppendEntriesResponse(n, m)
    \/ ReceiveInstallSnapshot(n, m)
    \/ ReceiveInstallSnapshotResponse(n, m)

Local(n) ==
    \/ ElectionDeadline(n)
    \/ HeartbeatDeadline(n)
    \/ ReceiveClientCommand(n)
    \/ CreateRaftSnapshot(n)
    \/ ReadIndexRequest(n)
    \/ \E ctx \in 1..MaxReadHistory : CancelReadIndex(n, ctx)
    \/ RaftHardStatePersisted(n)
    \/ RaftLogPersisted(n)
    \/ LogEntryApplied(n)
    \/ LogEntryApplyFailed(n)
    \/ RetryApplication(n)
    \/ RaftSnapshotPersisted(n)
    \/ RaftSnapshotRestored(n)
    \/ Restart(n)

Next == \E n \in Node : Local(n) \/ \E m \in Inbox(n) : Deliver(n, m)

Spec == Init /\ [][Next]_vars

-----------------------------------------------------------------------------
(* What the state of the cluster means. *)

\* The whole log a server stands for, the part in its snapshot included.
FullLog(n) == core[n].snapshot.state \o core[n].log

Holds(log, a) == a.index \in DOMAIN log /\ log[a.index] = a.entry

\* The entries a disk can bring back: the log up to, and past, the snapshot.
DiskHolds(d, a) ==
    \/ Holds(d.snapshot.state, a)
    \/ LogCovers(d, a.index) /\ d.log[a.index - d.base] = a.entry

Comparable(a, b) == IsPrefix(a, b) \/ IsPrefix(b, a)

(***************************************************************************)
(* No reachable state fails figure2::validate, whose failure would make    *)
(* step throw on every later input: commit and applied indexes, terms,     *)
(* peer progress and pending clients stay within the log across elections, *)
(* truncation, compaction and installation.                                *)
(***************************************************************************)
StatesValid == \A n \in Node : validate(core[n])

Agree(a, b, i) == SubSeq(FullLog(a), 1, i) = SubSeq(FullLog(b), 1, i)

(***************************************************************************)
(* Two servers that hold an entry of the same term at the same index have  *)
(* equal logs up to it, and a positive AppendEntries answer names a prefix *)
(* on which its sender and the leader it answers agree for as long as both *)
(* stay in that term, whatever was truncated or compacted.                 *)
(***************************************************************************)
LogMatching ==
    /\ \A a, b \in Node : \A i \in DOMAIN FullLog(a) \cap DOMAIN FullLog(b) :
         FullLog(a)[i].term = FullLog(b)[i].term => Agree(a, b, i)
    /\ \A m \in messages :
         /\ m.type = "appended" /\ m.ok
         /\ {core[m.from].current_term, core[m.to].current_term} = {m.term}
         /\ core[m.to].role = "leader"
         => Agree(m.from, m.to, m.match)

(***************************************************************************)
(* Servers apply the same commands in the same order: of two state         *)
(* machines one is always a prefix of the other, whether it was reached by *)
(* applying entries, by restoring a snapshot or by restarting.             *)
(***************************************************************************)
StateMachineSafety ==
    \A a, b \in Node : Comparable(disk[a].machine, disk[b].machine)

(***************************************************************************)
(* A command whose client was answered is on the disks of a majority, so   *)
(* no crash of the others can lose it: CompleteClientCommand never runs    *)
(* ahead of durable replication.                                           *)
(***************************************************************************)
AckedOnMajority ==
    \A a \in acked : Cardinality({n \in Node : DiskHolds(disk[n], a)}) >= majority

(***************************************************************************)
(* A leader of the same or a later term than the one in which a command    *)
(* was acknowledged has that command in its log.                           *)
(***************************************************************************)
LeaderCompleteness ==
    \A n \in Node : \A a \in acked :
       core[n].role = "leader" /\ core[n].current_term >= a.term => Holds(FullLog(n), a)

\* The last index a disk can bring back.
DiskEnd(d) == Max({d.snapshot.index, d.base + Len(d.log)})

(***************************************************************************)
(* What a leader counts as replicated is there: a follower of its term has *)
(* its log up to match_index on disk, equal to the leader's, although      *)
(* answers to appends and to snapshots of several transfers come late,     *)
(* twice and out of order, and either side compacts or restarts.           *)
(***************************************************************************)
ProgressIsHeld ==
    \A l \in Node : \A f \in peers(l) :
       core[l].role = "leader" /\ core[f].current_term = core[l].current_term =>
         LET i == core[l].match_index[f]
         IN  i <= DiskEnd(disk[f]) /\ Agree(f, l, i)

Durable(d, m) ==
    CASE m.type = "voted"     -> m.granted => d.term = m.term /\ d.vote = m.to
      [] m.type = "appended"  -> m.ok => d.term = m.term /\ m.match <= DiskEnd(d)
      [] m.type = "installed" -> m.ok => d.snapshot.index >= m.index
      [] OTHER                -> TRUE

(***************************************************************************)
(* A positive answer speaks of what is on disk when it leaves: a granted   *)
(* vote, entries a leader may count as replicated, an installed snapshot.  *)
(***************************************************************************)
RepliesAreDurable ==
    [][\A m \in messages' \ messages : Durable(disk'[m.from], m)]_vars

(***************************************************************************)
(* A server that waits for nothing always has the timer that will move it: *)
(* the heartbeat timer while it leads, else the election timer.            *)
(***************************************************************************)
TimersAlive ==
    \A n \in Node :
       ~waiting_for_persistence(core[n]) =>
         IF core[n].role = "leader" THEN core[n].heartbeat_timer
         ELSE core[n].election_timer /\ ~core[n].heartbeat_timer

(***************************************************************************)
(* A read that is answered sees every command acknowledged to a client     *)
(* before it began, although a quorum may have elected another leader,     *)
(* which acknowledges commands of its own, since the read was taken.       *)
(***************************************************************************)
ReadsAreLinearizable == \A r \in served : r.floor <= r.index

Ballots(ms) ==
    {[type |-> "request", term |-> m.term, from |-> m.from] :
        m \in {x \in ms : x.type = "vote"}}
    \cup
    {[type |-> "grant", term |-> m.term, from |-> m.from, to |-> m.to] :
        m \in {x \in ms : x.type = "voted" /\ x.granted}}

\* The hard states a core waits for; they come before what they hold back.
Stages(c) ==
    LET p == c.pending_hard_state
    IN  [i \in {j \in DOMAIN p : p[j].kind = "hard"} |->
           [term |-> p[i].term, vote |-> p[i].vote]]

Election == INSTANCE RaftElection WITH
    currentTerm <- [n \in Node |-> core[n].current_term],
    votedFor <- [n \in Node |-> core[n].voted_for],
    role <- [n \in Node |-> core[n].role],
    votes_received <- [n \in Node |-> core[n].votes_received],
    pending <- [n \in Node |-> Stages(core[n])],
    deferred <- [n \in Node |-> Ballots(Messages(core[n].pending_hard_state))],
    durable <- [n \in Node |-> [term |-> disk[n].term, vote |-> disk[n].vote]],
    messages <- Ballots(messages),
    leaders <- leaders

(***************************************************************************)
(* Elections within the cluster are those of RaftElection: hard states     *)
(* persist stage by stage and votes leave only after the last one.         *)
(***************************************************************************)
RefinesElection == Election!Spec

(***************************************************************************)
(* At most one server ever becomes leader of a term, through crashes that  *)
(* fall between a vote and its persistence.                                *)
(***************************************************************************)
ElectionSafety == Election!ElectionSafety

(***************************************************************************)
(* The durable term never decreases, and within a term a durable vote      *)
(* never changes: a restarted server cannot vote twice.                    *)
(***************************************************************************)
DurableVoteKept ==
    [][\A n \in Node :
         /\ disk'[n].term >= disk[n].term
         /\ disk'[n].term = disk[n].term /\ disk[n].vote # None
              => disk'[n].vote = disk[n].vote]_vars

(***************************************************************************)
(* docs/design/0014-raft-snapshots.md: a published snapshot is always a    *)
(* valid recovery point; the constructor accepts the disk that holds it.   *)
(***************************************************************************)
PublishedSnapshotRecovers ==
    \A n \in Node : disk[n].snapshot.index # 0 => Recovers(n, disk[n])
=============================================================================
