------------------------ MODULE HardStateStoreProofs ------------------------
(***************************************************************************)
(* For every set of nodes, every number of terms and generations, and      *)
(* crashes at every write boundary: a hard state that persist wrote and    *)
(* reported is never lost or contradicted by the record a restart reads.   *)
(***************************************************************************)
EXTENDS HardStateStore, TLAPS

BeforeReplacement ==
    {"temporary_created", "record_written", "temporary_synchronized", "temporary_closed"}

Published == [generation |-> mem.generation, state |-> mem.state, synced |-> TRUE]

(* While a persist is short of its rename, the file still is what the      *)
(* object holds and the temporary record may follow it.                    *)
PendingFollows ==
    stage \in BeforeReplacement =>
        file = Published /\ Keeps(mem.state, temporary.state)

(* Only a synchronised temporary file reaches the rename.                  *)
PendingSynced ==
    stage \in {"temporary_synchronized", "temporary_closed"} => temporary.synced = TRUE

HardStateInv ==
    /\ TypeOK
    /\ WrittenStateSurvives
    /\ MemoryIsPublished
    /\ PendingFollows
    /\ PendingSynced

-----------------------------------------------------------------------------
(* Keeping the promises of a hard state is transitive, so a chain of legal *)
(* persists keeps those of its first state.                                *)
LEMMA KeepsTransitive ==
    ASSUME NEW a \in HardState, NEW b \in HardState, NEW c \in HardState,
           Keeps(a, b), Keeps(b, c)
    PROVE  Keeps(a, c)
  BY DEF Keeps, HardState

(* validate_transition admits only successors that keep the promises.      *)
LEMMA TransitionKeeps ==
    ASSUME NEW a \in HardState, NEW b \in HardState, validate_transition(a, b)
    PROVE  Keeps(a, b)
  BY DEF Keeps, validate_transition, HardState

\* A hard state keeps its own promises.
LEMMA KeepsReflexive ==
    ASSUME NEW a \in HardState
    PROVE  Keeps(a, a)
  BY DEF Keeps, HardState

\* The bootstrap state and the absent file have their types.
LEMMA ConstantsTyped ==
    Bootstrap \in HardState /\ Absent \in Record
  BY HardStateConstants DEF Bootstrap, Absent, HardState, Record

(* The empty directory and no object satisfy the invariant.                *)
LEMMA InvInit == Init => HardStateInv
  <1> SUFFICES ASSUME Init PROVE HardStateInv
    OBVIOUS
  <1>1. TypeOK
    BY ConstantsTyped, HardStateConstants DEF Init, TypeOK, Closed, Stages
  <1>2. WrittenStateSurvives
    BY ConstantsTyped, KeepsReflexive DEF Init, WrittenStateSurvives, Decodes, Absent
  <1>3. MemoryIsPublished /\ PendingFollows /\ PendingSynced
    BY DEF Init, MemoryIsPublished, PendingFollows, PendingSynced, Closed, BeforeReplacement
  <1> QED
    BY <1>1, <1>2, <1>3 DEF HardStateInv

(* Every step keeps the invariant.  Only the rename gives the file a new   *)
(* record, and that record follows the one the object held.                *)
LEMMA InvNext == HardStateInv /\ [Next]_vars => HardStateInv'
  <1> SUFFICES ASSUME HardStateInv, [Next]_vars PROVE HardStateInv'
    OBVIOUS
  <1> USE DEF HardStateInv
  <1>1. CASE Open
    <2>1. TypeOK'
      BY <1>1 DEF Open, TypeOK, Record
    <2>2. WrittenStateSurvives'
      BY <1>1 DEF Open, WrittenStateSurvives
    <2>3. MemoryIsPublished'
      BY <1>1 DEF Open, MemoryIsPublished, TypeOK, Record, Decodes
    <2>4. PendingFollows' /\ PendingSynced'
      BY <1>1 DEF Open, PendingFollows, PendingSynced, BeforeReplacement
    <2> QED
      BY <2>1, <2>2, <2>3, <2>4
  <1>2. CASE PersistIdentical
    BY <1>2 DEF PersistIdentical, TypeOK, WrittenStateSurvives, MemoryIsPublished,
                PendingFollows, PendingSynced, Published
  <1>3. ASSUME NEW next \in HardState, PersistBegin(next) PROVE HardStateInv'
    <2>1. TypeOK'
      BY <1>3, HardStateConstants DEF PersistBegin, TypeOK, Record, Stages
    <2>2. WrittenStateSurvives' /\ MemoryIsPublished' /\ PendingSynced'
      BY <1>3 DEF PersistBegin, WrittenStateSurvives, MemoryIsPublished, PendingSynced
    <2>3. mem.state \in HardState /\ Keeps(mem.state, next)
      BY <1>3, TransitionKeeps DEF PersistBegin, TypeOK
    <2>4. file = Published
      BY <1>3 DEF PersistBegin, MemoryIsPublished, Published
    <2>5. PendingFollows'
      BY <1>3, <2>3, <2>4 DEF PersistBegin, PendingFollows, Published
    <2> QED
      BY <2>1, <2>2, <2>5
  <1>4. CASE WriteRecord
    BY <1>4 DEF WriteRecord, Boundary, TypeOK, Stages, WrittenStateSurvives, MemoryIsPublished,
                PendingFollows, PendingSynced, Published, BeforeReplacement
  <1>5. CASE SynchronizeTemporary
    <2>1. /\ TypeOK'
          /\ temporary'.state = temporary.state
          /\ temporary'.synced = TRUE
      BY <1>5 DEF SynchronizeTemporary, Boundary, TypeOK, Record, Stages
    <2>2. WrittenStateSurvives' /\ MemoryIsPublished'
      BY <1>5 DEF SynchronizeTemporary, Boundary, WrittenStateSurvives, MemoryIsPublished
    <2>3. PendingFollows' /\ PendingSynced'
      BY <1>5, <2>1 DEF SynchronizeTemporary, Boundary, PendingFollows, PendingSynced,
                        Published, BeforeReplacement
    <2> QED
      BY <2>1, <2>2, <2>3
  <1>6. CASE CloseTemporary
    BY <1>6 DEF CloseTemporary, Boundary, TypeOK, Stages, WrittenStateSurvives,
                MemoryIsPublished, PendingFollows, PendingSynced, Published, BeforeReplacement
  <1>7. CASE ReplaceAtomically
    <2>1. TypeOK'
      BY <1>7, ConstantsTyped DEF ReplaceAtomically, Boundary, TypeOK, Stages
    <2>2. /\ temporary.synced = TRUE
          /\ file.state = mem.state
          /\ Keeps(mem.state, temporary.state)
      BY <1>7 DEF ReplaceAtomically, Boundary, PendingFollows, PendingSynced,
                  BeforeReplacement, Published
    <2>3. /\ written \in HardState
          /\ mem.state \in HardState
          /\ temporary.state \in HardState
      BY DEF TypeOK, Record
    <2>4. Keeps(written, temporary.state)
      <3>1. Keeps(written, mem.state)
        BY <2>2 DEF WrittenStateSurvives
      <3> QED
        BY <3>1, <2>2, <2>3, KeepsTransitive
    <2>5. WrittenStateSurvives'
      BY <1>7, <2>2, <2>4 DEF ReplaceAtomically, WrittenStateSurvives, Decodes
    <2>6. MemoryIsPublished' /\ PendingFollows' /\ PendingSynced'
      BY <1>7 DEF ReplaceAtomically, Boundary, MemoryIsPublished, PendingFollows,
                  PendingSynced, BeforeReplacement
    <2> QED
      BY <2>1, <2>5, <2>6
  <1>8. CASE PersistComplete
    <2>1. /\ TypeOK'
          /\ mem'.state = file.state
          /\ mem'.generation = file.generation
      BY <1>8 DEF PersistComplete, Boundary, TypeOK, Record, Stages
    <2>2. file.synced = TRUE /\ file.state \in HardState
      BY DEF WrittenStateSurvives, Decodes, TypeOK, Record
    <2>3. WrittenStateSurvives'
      BY <1>8, <2>2, KeepsReflexive DEF PersistComplete, WrittenStateSurvives, Decodes
    <2>4. MemoryIsPublished'
      BY <1>8, <2>1, <2>2 DEF PersistComplete, MemoryIsPublished, TypeOK, Record
    <2>5. PendingFollows' /\ PendingSynced'
      BY <1>8 DEF PersistComplete, Boundary, PendingFollows, PendingSynced, BeforeReplacement
    <2> QED
      BY <2>1, <2>3, <2>4, <2>5
  <1>9. CASE PersistFails
    <2>1. stable' \in {stable, file}
      BY <1>9 DEF PersistFails
    <2>2. TypeOK'
      BY <1>9, <2>1, ConstantsTyped DEF PersistFails, TypeOK, Stages
    <2>3. WrittenStateSurvives'
      BY <1>9, <2>1 DEF PersistFails, WrittenStateSurvives, Decodes
    <2>4. mem'.healthy = FALSE /\ stage' = "idle"
      BY <1>9 DEF PersistFails, TypeOK
    <2> QED
      BY <2>2, <2>3, <2>4 DEF MemoryIsPublished, PendingFollows, PendingSynced, BeforeReplacement
  <1>10. CASE KillProcess
    <2>1. TypeOK'
      BY <1>10, ConstantsTyped, HardStateConstants DEF KillProcess, TypeOK, Stages, Closed
    <2>2. WrittenStateSurvives'
      BY <1>10 DEF KillProcess, WrittenStateSurvives
    <2> QED
      BY <1>10, <2>1, <2>2 DEF KillProcess, Closed, MemoryIsPublished, PendingFollows,
                               PendingSynced, BeforeReplacement
  <1>11. CASE PowerLoss
    <2>1. TypeOK'
      BY <1>11, ConstantsTyped, HardStateConstants DEF PowerLoss, TypeOK, Stages, Closed
    <2>2. WrittenStateSurvives'
      BY <1>11 DEF PowerLoss, WrittenStateSurvives, Decodes
    <2> QED
      BY <1>11, <2>1, <2>2 DEF PowerLoss, Closed, MemoryIsPublished, PendingFollows,
                               PendingSynced, BeforeReplacement
  <1>12. CASE UNCHANGED vars
    BY <1>12 DEF vars, TypeOK, WrittenStateSurvives, Decodes, MemoryIsPublished,
                 PendingFollows, PendingSynced, Published
  <1> QED
    BY <1>1, <1>2, <1>3, <1>4, <1>5, <1>6, <1>7, <1>8, <1>9, <1>10, <1>11, <1>12
    DEF Next, Persist

(* The inductive invariant holds in every reachable state.                 *)
THEOREM InvHolds == Spec => []HardStateInv
  BY InvInit, InvNext, PTL DEF Spec

(* A hard state that persist wrote and reported outlives every crash: the  *)
(* record a restart reads decodes and keeps its term and its vote.         *)
THEOREM WrittenVotesSurvive == Spec => []WrittenStateSurvives
  <1>1. HardStateInv => WrittenStateSurvives
    BY DEF HardStateInv
  <1> QED
    BY <1>1, InvHolds, PTL

(* load() of a healthy store never finds the file changed behind it.       *)
THEOREM LoadAgrees == Spec => []MemoryIsPublished
  <1>1. HardStateInv => MemoryIsPublished
    BY DEF HardStateInv
  <1> QED
    BY <1>1, InvHolds, PTL
=============================================================================
