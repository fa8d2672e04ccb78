--------------------------- MODULE DurableStorage ---------------------------
(***************************************************************************)
(* SegmentedWriteAheadLog and FileSnapshotStore (src/durable_storage.cpp), *)
(* owned by one process: a log cut into segment files, immutable snapshot  *)
(* files, and the truncation of the log that a snapshot allows.            *)
(*                                                                         *)
(* The log's mutex serialises append, recover and truncate_through, so at  *)
(* most one of them is running; the snapshot store has its own mutex, and  *)
(* publish runs beside them.  Every file operation is a step of its own.   *)
(*                                                                         *)
(* All records have one size: a segment holds SegmentRecords of them.      *)
(* FaultModels: each behaviour suffers the faults of one of these sets.    *)
(*   "io"    a write, fsync or unlink of a running operation throws;       *)
(*   "read"  recover_locked throws while it reads, parses or repairs a     *)
(*           segment;                                                      *)
(*   "kill"  the process dies; the files stay as the system shows them;    *)
(*   "power" the machine dies: unsynchronised records and directory        *)
(*           changes may be lost, a record being appended may be torn.     *)
(***************************************************************************)
EXTENDS Naturals, Sequences

CONSTANTS
    Value,            \* payloads
    MaxIndex,         \* bound on log indices, for each fault model
    MaxBatch,         \* bound on the entries of one append
    SegmentRecords,   \* records that fit in wal_segment_bytes
    MaxRecords,       \* max_recovery_records
    FaultModels

ASSUME StorageConstants ==
    /\ MaxIndex \in [FaultModels -> Nat] /\ MaxBatch \in Nat \ {0}
    /\ SegmentRecords \in Nat \ {0} /\ MaxRecords \in Nat \ {0}
    /\ FaultModels \subseteq SUBSET {"io", "read", "kill", "power"}

VARIABLES
    faults,       \* what may go wrong in this behaviour
    files,        \* segment number -> content, for every segment on the disk
    names,        \* segment numbers the directory shows
    durableNames, \* segment numbers the directory shows after a power loss
    open,         \* a process owns the log
    healthy,      \* healthy_
    mirror,       \* the other members of the log object
    op,           \* the running operation of the log object
    snapshots,    \* indices of the snapshots the snapshot directory shows
    durableSnapshots,
    publishing,   \* the running publication: its index and stage
    acked         \* history: the entries of the synchronised appends that returned

objectVars == <<open, healthy, mirror>>
walVars == <<files, names, durableNames, objectVars, op>>
snapshotVars == <<snapshots, durableSnapshots, publishing>>
vars == <<walVars, snapshotVars, acked, faults>>

\* entries[done + 1] is the record that append writes next; removals are the
\* segments that truncate_through has yet to remove.
Idle == [stage |-> "idle", entries |-> <<>>, done |-> 0,
         durability |-> "flush", removals |-> {}]

\* segments_ maps a number to its maximum_index.  An absent optional index
\* (maximum_index, last_index_, expected_append_) is 0, which is never valid.
Forgotten == [segments |-> [n \in {} |-> 0], active |-> FALSE, last_index |-> 0,
              expected |-> 0, size |-> 0, count |-> 0]

NotPublishing == [index |-> 0, stage |-> "idle"]

Elements(s) == {s[i] : i \in DOMAIN s}

Appending == op.stage \in {"record", "write", "create", "created"}
Truncating == op.stage \in {"remove", "removed"}

-----------------------------------------------------------------------------
(* What recover_locked makes of the segments it is shown.                  *)

First(numbers) == CHOOSE n \in numbers : \A m \in numbers : n <= m
Final(numbers) == CHOOSE n \in numbers : \A m \in numbers : m <= n

\* The index after the last record.
End(file) == file.first_index + Len(file.records)

Consecutive(numbers) == \A m, n \in numbers : m..n \subseteq numbers

\* segment_paths and the checks of the recovery loop; a torn tail is only
\* allowed, and truncated, in the final segment.
Recoverable(shown) ==
    /\ Consecutive(DOMAIN shown)
    /\ \A n \in DOMAIN shown : \A i \in DOMAIN shown[n].records :
          shown[n].records[i].index = shown[n].first_index + i - 1
    /\ \A n \in DOMAIN shown : n + 1 \in DOMAIN shown =>
          /\ shown[n + 1].first_index = End(shown[n])
          /\ ~ shown[n].torn /\ shown[n].records # <<>>
    /\ \A m, n \in DOMAIN shown : End(shown[n]) <= shown[m].first_index + MaxRecords

Maximum(file) == IF file.records = <<>> THEN 0 ELSE End(file) - 1

\* segments_, last_index_ and the record count after these segments.
MirrorOf(shown) ==
    LET first == shown[First(DOMAIN shown)].first_index
        end == End(shown[Final(DOMAIN shown)])
    IN  IF DOMAIN shown = {} THEN Forgotten
        ELSE [Forgotten EXCEPT
                 !.segments = [n \in DOMAIN shown |-> Maximum(shown[n])],
                 !.last_index = IF end = first THEN 0 ELSE end - 1,
                 !.count = end - first]

\* The members after a recovery that succeeds: the final segment is active.
Recovered(shown) ==
    LET final == shown[Final(DOMAIN shown)]
    IN  IF DOMAIN shown = {} THEN Forgotten
        ELSE [MirrorOf(shown) EXCEPT
                 !.active = TRUE,
                 !.size = Len(final.records),
                 !.expected = End(final)]

Part(numbers) == [n \in numbers |-> files[n]]

Shown == Part(names)

Untorn(file) == IF file.torn THEN [file EXCEPT !.torn = FALSE, !.synced = Len(file.records)]
                ELSE file

\* truncate_torn_suffix on the final segment.
Repaired == [n \in DOMAIN files |->
                IF n \in names /\ \A m \in names : m <= n THEN Untorn(files[n])
                ELSE files[n]]

\* The segments read, and the first k records of the one after them.
Parsed(read, k) ==
    LET next == First(names \ read)
    IN  [n \in read \cup {next} |->
           IF n = next THEN [files[n] EXCEPT !.records = SubSeq(@, 1, k), !.torn = FALSE]
           ELSE files[n]]

\* A recovery rebuilds the members and makes the object healthy, or throws
\* with the members rebuilt for the segments read before the failure; records
\* parsed in the segment that fails stay in last_index_ and the count.
RecoverySucceeds(members) ==
    /\ Recoverable(Shown)
    /\ files' = Repaired
    /\ mirror' = members
    /\ healthy' = TRUE

RecoveryThrows ==
    \E last \in names \cup {0} :
       LET read == {n \in names : n <= last}
       IN  /\ "read" \in faults \/ (read # names /\ ~ Recoverable(Shown))
           /\ Recoverable(Part(read))
           /\ read \in {{}, names} \/ (/\ Consecutive(names)
                                     /\ \A n \in read : ~ files[n].torn /\ files[n].records # <<>>)
           /\ \/ mirror' = MirrorOf(Part(read))
              \/ /\ read # names
                 /\ \E k \in 1..Len(files[First(names \ read)].records) :
                      /\ Recoverable(Parsed(read, k))
                      /\ mirror' = [MirrorOf(Parsed(read, k)) EXCEPT
                                       !.segments = MirrorOf(Part(read)).segments]
           /\ files' = IF read = names THEN Repaired ELSE files

recover_locked(healthy_after_failure) ==
    \/ RecoverySucceeds(Recovered(Shown))
    \/ RecoveryThrows /\ healthy' = healthy_after_failure

-----------------------------------------------------------------------------
Init ==
    /\ faults \in FaultModels
    /\ files = [n \in {} |-> 0]
    /\ names = {}
    /\ durableNames = {}
    /\ open = TRUE /\ healthy = TRUE /\ mirror = Forgotten
    /\ op = Idle
    /\ snapshots = {}
    /\ durableSnapshots = {}
    /\ publishing = NotPublishing
    /\ acked = {}

\* latest() returns a snapshot that reaches this index.
Covered(index) == \E s \in snapshots : index <= s

\* The caller of an empty log goes on after what it knows.
Known == {0} \cup snapshots \cup {e.index : e \in acked}

Restarts(index) == index - 1 \in Known /\ \A k \in Known : k < index

\* validate_append.
ValidBatch(entries) ==
    /\ mirror.count + Len(entries) <= MaxRecords
    /\ mirror.expected = 0 => mirror.last_index = 0
    /\ IF mirror.expected = 0 THEN Restarts(entries[1].index)
       ELSE entries[1].index = mirror.expected

Batch(first, values) ==
    [i \in DOMAIN values |-> [index |-> first + i - 1, value |-> values[i]]]

-----------------------------------------------------------------------------
(* append: every record passes ensure_segment, which may create a segment, *)
(* and write_all; the batch ends with the fsync the caller asked for.      *)

append(first, values, durability) ==
    LET entries == Batch(first, values)
    IN  /\ op = Idle
        /\ open /\ healthy
        /\ ValidBatch(entries)
        /\ first + Len(entries) - 1 <= MaxIndex[faults]
        /\ op' = [Idle EXCEPT !.stage = "record", !.entries = entries,
                              !.durability = durability]
        /\ UNCHANGED <<files, names, durableNames, objectVars, snapshotVars, acked, faults>>

Active == Final(DOMAIN mirror.segments)

NextSequence == IF DOMAIN mirror.segments = {} THEN 1 ELSE Active + 1

Entry == op.entries[op.done + 1]

Synchronized == [files EXCEPT ![Active].synced = Len(files[Active].records)]

Throw(healthy_after) ==
    /\ op' = Idle
    /\ healthy' = healthy_after
    /\ mirror' = [mirror EXCEPT !.active = FALSE]
    /\ UNCHANGED open

\* Mutant: a full segment is sealed without a fsync.
MutEnsureSegment ==
    /\ op.stage = "record" /\ op.done < Len(op.entries)
    /\ \/ /\ mirror.active /\ mirror.size < SegmentRecords
          /\ op' = [op EXCEPT !.stage = "write"]
          /\ UNCHANGED mirror
       \/ /\ ~ (mirror.active /\ mirror.size < SegmentRecords)
          /\ op' = [op EXCEPT !.stage = "create"]
          /\ mirror' = [mirror EXCEPT !.active = FALSE]
    /\ UNCHANGED <<files, names, durableNames, open, healthy, snapshotVars, acked, faults>>

ensure_segment ==
    /\ op.stage = "record" /\ op.done < Len(op.entries)
    /\ \/ /\ mirror.active /\ mirror.size < SegmentRecords
          /\ op' = [op EXCEPT !.stage = "write"]
          /\ UNCHANGED <<files, mirror>>
       \/ /\ mirror.active /\ mirror.size >= SegmentRecords
          /\ op' = [op EXCEPT !.stage = "create"]
          /\ files' = Synchronized
          /\ mirror' = [mirror EXCEPT !.active = FALSE]
       \/ /\ ~ mirror.active
          /\ op' = [op EXCEPT !.stage = "create"]
          /\ UNCHANGED <<files, mirror>>
    /\ UNCHANGED <<names, durableNames, open, healthy, snapshotVars, acked, faults>>

NewSegment == [first_index |-> Entry.index, records |-> <<>>, synced |-> 0, torn |-> FALSE]

\* Mutant: an existing segment is overwritten.
MutCreateSegment ==
    /\ op.stage = "create"
    /\ files' = [n \in DOMAIN files \cup {NextSequence} |->
                    IF n = NextSequence THEN NewSegment ELSE files[n]]
    /\ names' = names \cup {NextSequence}
    /\ op' = [op EXCEPT !.stage = "created"]
    /\ UNCHANGED <<objectVars, durableNames, snapshotVars, acked, faults>>

\* create_segment up to rename_no_replace: the header is already synchronised.
create_segment ==
    /\ op.stage = "create"
    /\ IF NextSequence \in names
       THEN Throw(FALSE) /\ UNCHANGED <<files, names>>
       ELSE /\ files' = [n \in DOMAIN files \cup {NextSequence} |->
                            IF n = NextSequence THEN NewSegment ELSE files[n]]
            /\ names' = names \cup {NextSequence}
            /\ op' = [op EXCEPT !.stage = "created"]
            /\ UNCHANGED objectVars
    /\ UNCHANGED <<durableNames, snapshotVars, acked, faults>>

\* create_segment from the directory fsync on.
segment_created ==
    /\ op.stage = "created"
    /\ durableNames' = names
    /\ mirror' = [mirror EXCEPT
           !.segments = [n \in DOMAIN @ \cup {NextSequence} |->
                            IF n = NextSequence THEN 0 ELSE @[n]],
           !.active = TRUE,
           !.size = 0,
           !.expected = Entry.index]
    /\ op' = [op EXCEPT !.stage = "write"]
    /\ UNCHANGED <<files, names, open, healthy, snapshotVars, acked, faults>>

write_record ==
    /\ op.stage = "write"
    /\ files' = [files EXCEPT ![Active].records = Append(@, Entry)]
    /\ mirror' = [mirror EXCEPT
           !.size = @ + 1,
           !.segments[Active] = Entry.index,
           !.last_index = Entry.index,
           !.count = @ + 1,
           !.expected = Entry.index + 1]
    /\ op' = [op EXCEPT !.stage = "record", !.done = @ + 1]
    /\ UNCHANGED <<names, durableNames, open, healthy, snapshotVars, acked, faults>>

\* Mutant: Durability::synchronize does not synchronise.
MutAppendReturns ==
    /\ op.stage = "record" /\ op.done = Len(op.entries)
    /\ op' = Idle
    /\ acked' = IF op.durability = "synchronize" THEN acked \cup Elements(op.entries) ELSE acked
    /\ UNCHANGED <<files, names, durableNames, objectVars, snapshotVars, faults>>

append_returns ==
    /\ op.stage = "record" /\ op.done = Len(op.entries)
    /\ op' = Idle
    /\ IF op.durability = "synchronize"
       THEN files' = Synchronized /\ acked' = acked \cup Elements(op.entries)
       ELSE UNCHANGED <<files, acked>>
    /\ UNCHANGED <<names, durableNames, objectVars, snapshotVars, faults>>

\* A partial record is left when write_all stops half-way.
MaybeTorn ==
    \/ UNCHANGED files
    \/ op.stage = "write" /\ files' = [files EXCEPT ![Active].torn = TRUE]

\* Mutant: a failed append leaves the object healthy.
MutAppendFails ==
    /\ "io" \in faults
    /\ Appending
    /\ Throw(TRUE)
    /\ MaybeTorn
    /\ UNCHANGED <<names, durableNames, snapshotVars, acked, faults>>

append_fails ==
    /\ "io" \in faults
    /\ Appending
    /\ Throw(FALSE)
    /\ MaybeTorn
    /\ UNCHANGED <<names, durableNames, snapshotVars, acked, faults>>

recover ==
    /\ op = Idle
    /\ open
    /\ recover_locked(healthy)
    /\ UNCHANGED <<names, durableNames, open, op, snapshotVars, acked, faults>>

-----------------------------------------------------------------------------
(* truncate_through: the check against the snapshot store and a recovery,  *)
(* then one unlink and one directory fsync per covered sealed segment, and *)
(* a second recovery.                                                      *)

Removals(segments, index) ==
    {n \in DOMAIN segments :
        n + 1 \in DOMAIN segments /\ segments[n] # 0 /\ segments[n] <= index}

truncate_through(index) ==
    LET after == Recovered(Shown) IN
    /\ op = Idle
    /\ open
    /\ publishing = NotPublishing    \* latest() takes the mutex publish holds
    /\ Covered(index)
    /\ \/ /\ \A m, n \in names : m = n
          /\ RecoverySucceeds(after)
          /\ UNCHANGED op
       \/ /\ \E m, n \in names : m # n
          /\ RecoverySucceeds([after EXCEPT !.active = FALSE])
          /\ op' = [Idle EXCEPT !.stage = "remove",
                                !.removals = Removals(after.segments, index)]
       \/ /\ RecoveryThrows
          /\ UNCHANGED <<op, healthy>>
    /\ UNCHANGED <<names, durableNames, open, snapshotVars, acked, faults>>

\* Oldest first.
remove_specific ==
    /\ op.stage = "remove"
    /\ \E n \in op.removals :
          /\ \A m \in op.removals : n <= m
          /\ names' = names \ {n}
          /\ op' = [op EXCEPT !.stage = "removed", !.removals = @ \ {n}]
    /\ UNCHANGED <<files, durableNames, objectVars, snapshotVars, acked, faults>>

removal_synchronized ==
    /\ op.stage = "removed"
    /\ durableNames' = names
    /\ files' = Shown
    /\ op' = [op EXCEPT !.stage = "remove"]
    /\ UNCHANGED <<names, objectVars, snapshotVars, acked, faults>>

truncation_returns ==
    /\ op.stage = "remove" /\ op.removals = {}
    /\ recover_locked(FALSE)
    /\ op' = Idle
    /\ UNCHANGED <<names, durableNames, open, snapshotVars, acked, faults>>

truncation_fails ==
    /\ "io" \in faults
    /\ Truncating
    /\ Throw(FALSE)
    /\ UNCHANGED <<files, names, durableNames, snapshotVars, acked, faults>>

-----------------------------------------------------------------------------
(* FileSnapshotStore::publish: a synchronised temporary file is linked to  *)
(* its final name and the directory is synchronised.  The caller snapshots *)
(* a state whose entries the log has acknowledged.                         *)

publish(index) ==
    /\ publishing = NotPublishing
    /\ open
    /\ ~ Covered(index)
    /\ publishing' = [index |-> index, stage |-> "link"]
    /\ UNCHANGED <<walVars, snapshots, durableSnapshots, acked, faults>>

\* Mutant: the directory is not synchronised after the link.
MutPublishLinks ==
    /\ publishing.stage = "link"
    /\ snapshots' = snapshots \cup {publishing.index}
    /\ publishing' = NotPublishing
    /\ UNCHANGED <<walVars, durableSnapshots, acked, faults>>

publish_links ==
    /\ publishing.stage = "link"
    /\ snapshots' = snapshots \cup {publishing.index}
    /\ publishing' = [publishing EXCEPT !.stage = "linked"]
    /\ UNCHANGED <<walVars, durableSnapshots, acked, faults>>

publish_returns ==
    /\ publishing.stage = "linked"
    /\ durableSnapshots' = snapshots
    /\ publishing' = NotPublishing
    /\ UNCHANGED <<walVars, snapshots, acked, faults>>

publish_fails ==
    /\ "io" \in faults
    /\ publishing # NotPublishing
    /\ publishing' = NotPublishing
    /\ UNCHANGED <<walVars, snapshots, durableSnapshots, acked, faults>>

-----------------------------------------------------------------------------
(* Crashes, and the constructors that run after them.                      *)

Crash ==
    /\ open
    /\ open' = FALSE /\ healthy' = TRUE /\ mirror' = Forgotten
    /\ op' = Idle
    /\ publishing' = NotPublishing
    /\ UNCHANGED <<acked, faults>>

KillProcess ==
    /\ "kill" \in faults
    /\ Crash
    /\ MaybeTorn
    /\ UNCHANGED <<names, durableNames, snapshots, durableSnapshots>>

\* The directory contents a power loss may leave.
Surviving(shown, durable) ==
    {kept \in SUBSET (shown \cup durable) : (shown \cap durable) \subseteq kept}

\* What is left of a segment: its synchronised records and any longer prefix,
\* then perhaps a piece of the record that follows.
Cut(file, being_written) ==
    {[file EXCEPT !.records = SubSeq(@, 1, n), !.synced = n, !.torn = FALSE] :
        n \in file.synced..Len(file.records)}
    \cup
    {[file EXCEPT !.records = SubSeq(@, 1, n), !.synced = n, !.torn = TRUE] :
        n \in {k \in file.synced..Len(file.records) :
                  k < Len(file.records) \/ file.torn \/ being_written}}

PowerLoss ==
    /\ "power" \in faults
    /\ Crash
    /\ names' \in Surviving(names, durableNames)
    /\ durableNames' = names'
    /\ LET left(n) == Cut(files[n], op.stage = "write" /\ n = Active)
       IN  files' \in {f \in [names' -> UNION {left(n) : n \in names'}] :
                          \A n \in names' : f[n] \in left(n)}
    /\ snapshots' \in Surviving(snapshots, durableSnapshots)
    /\ durableSnapshots' = snapshots'

Open ==
    /\ ~ open
    /\ open' = TRUE
    /\ RecoverySucceeds(Recovered(Shown))
    /\ UNCHANGED <<names, durableNames, op, snapshotVars, acked, faults>>

Batches == UNION {[1..n -> Value] : n \in 1..MaxBatch}

LogOperation ==
    \/ \E first \in 1..MaxIndex[faults], values \in Batches,
          durability \in {"flush", "synchronize"} : append(first, values, durability)
    \/ ensure_segment
    \/ create_segment
    \/ segment_created
    \/ write_record
    \/ append_returns
    \/ append_fails
    \/ recover

Truncation ==
    \/ \E index \in 1..MaxIndex[faults] : truncate_through(index)
    \/ remove_specific
    \/ removal_synchronized
    \/ truncation_returns
    \/ truncation_fails

Publication ==
    \/ \E e \in acked : publish(e.index)
    \/ publish_links
    \/ publish_returns
    \/ publish_fails

Next ==
    \/ LogOperation
    \/ Truncation
    \/ Publication
    \/ KillProcess
    \/ PowerLoss
    \/ Open

Spec == Init /\ [][Next]_vars

-----------------------------------------------------------------------------
(* A process that sees no recovery fail part-way: "read" is not among its  *)
(* faults.                                                                 *)
ReliableReads == "read" \notin faults

(* After a crash the constructor accepts the files it finds: no interior   *)
(* segment is torn, empty or missing, and no limit is exceeded.  This is   *)
(* for a process in which no recovery throws part-way, and for behaviours  *)
(* whose power losses are their only faults: it is known to fail when a    *)
(* process death and a later power loss meet in one behaviour.             *)
ReopenSucceeds == ReliableReads /\ ~ open => Recoverable(Shown)

(* What a restarted process replays: nothing if the constructor throws.    *)
Replayed == IF Recoverable(Shown) THEN UNION {Elements(files[n].records) : n \in names} ELSE {}

(* docs/design/0005: "A returned append therefore survives process         *)
(* restart".  Whatever a crash leaves, every entry of an append that       *)
(* returned with Durability::synchronize is replayed from the recovered    *)
(* segments or is covered by the snapshot that latest() returns.           *)
ReturnedAppendsSurvive ==
    ~ open =>
        \A e \in acked : Covered(e.index) \/ e \in Replayed

(* The same where no recovery throws part-way: neither power losses nor    *)
(* any mix of failing calls and process deaths lose an acknowledged entry. *)
(* A process death followed by a power loss is not among these fault       *)
(* models: there a segment adopted by the second process may still lack a  *)
(* durable directory entry, and the property is known to fail.             *)
AcknowledgedSurvive == ReliableReads => ReturnedAppendsSurvive

(* Between operations a healthy object's members (segments_, last_index_,  *)
(* expected_append_, active_size_, the record count) are what              *)
(* recover_locked would rebuild from the files, unless it threw before.    *)
MembersMatchFiles ==
    ReliableReads /\ open /\ healthy /\ op = Idle =>
        Recoverable(Shown) /\ mirror = Recovered(Shown)

(* A removed segment held nothing but entries a snapshot covers: also      *)
(* after a crash the retained log starts no later than one past the        *)
(* snapshot that latest() returns.  For processes in which no recovery     *)
(* throws part-way, and not for a power loss after a process death, which  *)
(* may take a snapshot whose directory entry was never synchronised.       *)
TruncationCovered ==
    ReliableReads => \A n \in names :
        files[n].first_index = 1 \/ n - 1 \in names
        \/ Covered(files[n].first_index - 1)

(* Even when recover_locked throws and leaves its members half rebuilt, no *)
(* later call erases or overwrites an acknowledged entry: its bytes stay   *)
(* in a segment file until a snapshot covers it.  Here too a power loss    *)
(* that follows a process death is excluded, and known to violate it.      *)
AcknowledgedRetained ==
    \A e \in acked :
        \/ Covered(e.index)
        \/ \E n \in names : e \in Elements(files[n].records)
=============================================================================
