--------------------------- MODULE HardStateStore ---------------------------
(***************************************************************************)
(* FileRaftHardStateStore (src/raft_hard_state_store.cpp): the one file    *)
(* that holds a server's term and vote, replaced by write, fsync, rename   *)
(* and directory fsync, with a crash possible between any two of them.     *)
(*                                                                         *)
(* A crash either kills the process, which keeps everything the operating  *)
(* system has been given, or cuts the power, which keeps the directory as  *)
(* last synchronised or as it stands, and tears an unsynchronised file.    *)
(* A temporary file is never read back, so it is only its content.         *)
(***************************************************************************)
EXTENDS Naturals

CONSTANTS Node, None, MaxTerm, MaxGeneration

ASSUME HardStateConstants ==
    /\ None \notin Node
    /\ MaxTerm \in Nat
    /\ MaxGeneration \in Nat

VARIABLES
    file,        \* the record under the final name, as the OS shows it
    stable,      \* the record under the final name if the power fails now
    temporary,   \* the record in the temporary file of the running persist
    stage,       \* the last write boundary the running persist reached
    mem,         \* state_, generation_, healthy_ and whether an object exists
    completed,   \* history: the last state a RaftHardStatePersisted reported
    written      \* history: the last of those whose persist wrote the file

vars == <<file, stable, temporary, stage, mem, completed, written>>

HardState == [currentTerm : 0..MaxTerm, votedFor : Node \cup {None}]

Bootstrap == [currentTerm |-> 0, votedFor |-> None]

\* Generation 0 stands for an absent file: load_decoded returns {} for it.
Absent == [generation |-> 0, state |-> Bootstrap, synced |-> TRUE]

Record == [generation : 0..MaxGeneration, state : HardState, synced : BOOLEAN]

Stages == {"idle", "temporary_created", "record_written",
           "temporary_synchronized", "temporary_closed", "final_replaced"}

Closed == [state |-> Bootstrap, generation |-> 0, healthy |-> FALSE, open |-> FALSE]

Init ==
    /\ file = Absent
    /\ stable = Absent
    /\ temporary = Absent
    /\ stage = "idle"
    /\ mem = Closed
    /\ completed = Bootstrap
    /\ written = Bootstrap

validate_transition(current, next) ==
    /\ next.currentTerm = 0 => next.votedFor = None
    /\ next.currentTerm >= current.currentTerm
    /\ \/ next.currentTerm > current.currentTerm
       \/ next.votedFor = current.votedFor
       \/ current.votedFor = None

\* decode: a torn record has the wrong size or checksum and is refused.
Decodes(record) == record.synced

-----------------------------------------------------------------------------
(* The constructor: load_decoded, then the object is usable.  A process    *)
(* that lived through a write failure reopens the same way.                *)
Open ==
    /\ ~ mem.healthy
    /\ stage = "idle"
    /\ Decodes(file)
    /\ mem' = [state |-> file.state, generation |-> file.generation,
               healthy |-> TRUE, open |-> TRUE]
    /\ UNCHANGED <<file, stable, temporary, stage, completed, written>>

(* persist of the state already held completes without any I/O.            *)
PersistIdentical ==
    /\ mem.healthy
    /\ stage = "idle"
    /\ completed' = mem.state
    /\ UNCHANGED <<file, stable, temporary, stage, mem, written>>

(* persist of another state: validation, then create_new.                  *)
PersistBegin(next) ==
    /\ mem.healthy
    /\ stage = "idle"
    /\ next # mem.state
    /\ validate_transition(mem.state, next)
    /\ mem.generation < MaxGeneration
    /\ temporary' = [generation |-> mem.generation + 1, state |-> next, synced |-> FALSE]
    /\ stage' = "temporary_created"
    /\ UNCHANGED <<file, stable, mem, completed, written>>

Boundary(from, to) == stage = from /\ stage' = to

WriteRecord ==
    /\ Boundary("temporary_created", "record_written")
    /\ UNCHANGED <<file, stable, temporary, mem, completed, written>>

SynchronizeTemporary ==
    /\ Boundary("record_written", "temporary_synchronized")
    /\ temporary' = [temporary EXCEPT !.synced = TRUE]
    /\ UNCHANGED <<file, stable, mem, completed, written>>

CloseTemporary ==
    /\ Boundary("temporary_synchronized", "temporary_closed")
    /\ UNCHANGED <<file, stable, temporary, mem, completed, written>>

ReplaceAtomically ==
    /\ Boundary("temporary_closed", "final_replaced")
    /\ file' = temporary
    /\ temporary' = Absent
    /\ UNCHANGED <<stable, mem, completed, written>>

(* Mutant: the completion leaves without a directory fsync.                *)
MutPersistComplete ==
    /\ Boundary("final_replaced", "idle")
    /\ mem' = [mem EXCEPT !.state = file.state, !.generation = file.generation]
    /\ completed' = file.state
    /\ written' = file.state
    /\ UNCHANGED <<file, stable, temporary>>

(* The directory is synchronised, and only then do state_ and generation_  *)
(* change and the completion leave.                                        *)
PersistComplete ==
    /\ Boundary("final_replaced", "idle")
    /\ stable' = file
    /\ mem' = [mem EXCEPT !.state = file.state, !.generation = file.generation]
    /\ completed' = file.state
    /\ written' = file.state
    /\ UNCHANGED <<file, temporary>>

(* Mutant: a failed persist leaves the object healthy.                     *)
MutPersistFails ==
    /\ stage # "idle"
    /\ stage' = "idle"
    /\ temporary' = Absent
    /\ stable' \in IF stage = "final_replaced" THEN {stable, file} ELSE {stable}
    /\ UNCHANGED <<file, mem, completed, written>>

(* Any call of the running persist throws: the object turns unhealthy and  *)
(* its temporary file is removed.  A directory fsync that fails may still  *)
(* have reached the disk.                                                  *)
PersistFails ==
    /\ stage # "idle"
    /\ stage' = "idle"
    /\ temporary' = Absent
    /\ mem' = [mem EXCEPT !.healthy = FALSE]
    /\ stable' \in IF stage = "final_replaced" THEN {stable, file} ELSE {stable}
    /\ UNCHANGED <<file, completed, written>>

KillProcess ==
    /\ mem.open
    /\ mem' = Closed
    /\ stage' = "idle"
    /\ temporary' = Absent
    /\ UNCHANGED <<file, stable, completed, written>>

PowerLoss ==
    /\ mem' = Closed
    /\ stage' = "idle"
    /\ temporary' = Absent
    /\ file' \in {file, stable}
    /\ stable' = file'
    /\ UNCHANGED <<completed, written>>

Persist ==
    \/ PersistIdentical
    \/ \E next \in HardState : PersistBegin(next)
    \/ WriteRecord
    \/ SynchronizeTemporary
    \/ CloseTemporary
    \/ ReplaceAtomically
    \/ PersistComplete

Next ==
    \/ Open
    \/ Persist
    \/ PersistFails
    \/ KillProcess
    \/ PowerLoss

Spec == Init /\ [][Next]_vars

-----------------------------------------------------------------------------
(* The variables range over hard states, records and write boundaries.     *)
TypeOK ==
    /\ file \in Record
    /\ stable \in Record
    /\ temporary \in Record
    /\ stage \in Stages
    /\ mem \in [state : HardState, generation : 0..MaxGeneration,
                healthy : BOOLEAN, open : BOOLEAN]
    /\ completed \in HardState
    /\ written \in HardState

(* A later hard state that keeps the promises of an earlier one: its term  *)
(* is higher, or its term is the same and a vote already cast stands.      *)
Keeps(earlier, later) ==
    \/ later.currentTerm > earlier.currentTerm
    \/ later.currentTerm = earlier.currentTerm
       /\ (earlier.votedFor = None \/ later.votedFor = earlier.votedFor)

(* Whatever record a crash at this moment leaves under the final name, it  *)
(* decodes, and it keeps the term and the vote of every persist that wrote *)
(* the file and returned (persist, replace_atomically, directory fsync).   *)
WrittenStateSurvives ==
    \A record \in {file, stable} :
        Decodes(record) /\ Keeps(written, record.state)

(* While no persist runs, a healthy object holds exactly what the file     *)
(* says, so load() never reports "changed outside its owning store" and    *)
(* validate_transition judges against the published state.                 *)
MemoryIsPublished ==
    mem.healthy /\ stage = "idle" =>
        file = [generation |-> mem.generation, state |-> mem.state, synced |-> TRUE]

(* The docs' stronger promise, that every completion, including the one    *)
(* for an identical state that writes nothing, is of a durable state.      *)
CompletedStateSurvives ==
    \A record \in {file, stable} : Keeps(completed, record.state)
=============================================================================
