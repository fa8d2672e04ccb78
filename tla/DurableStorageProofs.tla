------------------------ MODULE DurableStorageProofs ------------------------
(***************************************************************************)
(* Proofs about DurableStorage, second part: where the retained log        *)
(* starts, the batch being appended, the members of the log object, what   *)
(* a power loss would leave, the acknowledged entries, and the theorems.   *)
(***************************************************************************)
EXTENDS SegmentLogProofs, Integers

-----------------------------------------------------------------------------
(* Where the retained log starts.                                          *)

\* Covered starts stay covered.
LEMMA StartSame ==
    ASSUME NEW fs, NEW gs, NEW S, NEW ss, NEW tt, StartCovered(fs, S, ss), ss \subseteq tt,
           \A n \in S : gs[n].first_index = fs[n].first_index
    PROVE  StartCovered(gs, S, tt)
  BY DEF StartCovered

\* The retained log goes on starting where a lasting snapshot ends.
LEMMA StartStep ==
    ASSUME TypeOK, TypeOK', OpInv, SnapshotInv, RemovalsCovered, LogInv,
           Power => PowerInv, [Next]_vars
    PROVE  StartCovered(files', names', SafeSnapshots')
<1>0. /\ SafeSnapshots \subseteq SafeSnapshots' /\ StartCovered(files, names, SafeSnapshots)
      /\ names \subseteq Nat /\ names \subseteq DOMAIN files
  BY Zenon, SnapshotStep DEF LogInv, TypeOK, FilesOK, Number
<1>1. CASE SameContent
  BY Zenon, <1>0, <1>1, StartSame DEF SameContent
<1>2. CASE create_segment /\ NextSequence \notin names
  <2> DEFINE x == NextSequence
  <2>1. /\ names' = names \cup {x} /\ x \in Nat
        /\ files'[x].first_index = Entry.index
        /\ \A n \in names : files'[n] = files[n]
        /\ names # {} => x = Final(names) + 1
        /\ names = {} => Entry.index = 1 \/ Reached(Entry.index - 1)
    BY Zenon, <1>2, CreateFacts DEF Number
  <2> HIDE DEF x
  <2>2. ASSUME NEW n \in names
        PROVE  \/ files'[n].first_index = 1 \/ n - 1 \in names'
               \/ \E s \in SafeSnapshots' : files'[n].first_index - 1 <= s
    BY Zenon, <1>0, <2>1 DEF StartCovered
  <2>3. CASE names = {}
    BY Zenon, <1>0, <2>1, <2>2, <2>3 DEF StartCovered, Reached
  <2>4. CASE names # {}
    <3>1. Final(names) \in names /\ Final(names) \in Nat
      BY Zenon, <1>0, <2>4, FinalOf DEF OpInv
    <3>2. x - 1 \in names'
      BY <2>1, <2>4, <3>1
    <3> QED
      BY Zenon, <2>1, <2>2, <3>2 DEF StartCovered
  <2> QED
    BY <2>3, <2>4
<1>3. CASE write_record
  <2>1. names' = names /\ \A n \in names : files'[n].first_index = files[n].first_index
    BY <1>0, <1>3, WriteExtends DEF write_record
  <2> QED
    BY Zenon, <1>0, <2>1, StartSame
<1>4. CASE remove_specific
  <2>1. PICK x \in names :
          /\ names' = names \ {x} /\ files' = files
          /\ files[x].records # <<>>
          /\ files[x + 1].first_index = End(files[x]) /\ x + 1 \in names'
          /\ \A i \in DOMAIN files[x].records : Reached(files[x].records[i].index)
    BY Zenon, <1>4, RemoveFacts
  <2> DEFINE l == Len(files[x].records)
             f == files[x].first_index
  <2>2. \E s \in SafeSnapshots' : files[x + 1].first_index - 1 <= s
    <3>1. /\ f \in Nat /\ l \in Nat /\ l # 0 /\ DOMAIN files[x].records = 1..l
          /\ End(files[x]) = f + l
      BY Zenon, <1>0, <2>1, FileFacts
    <3>2. \A i \in DOMAIN files[x].records : files[x].records[i].index = f + i - 1
      BY Zenon DEF LogInv, Chain
    <3> HIDE DEF l, f
    <3>3. l \in DOMAIN files[x].records
      BY <3>1
    <3>4. files[x].records[l].index = f + l - 1
      BY Zenon, <3>2, <3>3
    <3>5. Reached(f + l - 1)
      BY Zenon, <2>1, <3>3, <3>4
    <3>6. files[x + 1].first_index - 1 = f + l - 1
      BY <2>1, <3>1
    <3> QED
      BY Zenon, <1>0, <3>5, <3>6 DEF Reached
  <2> SUFFICES ASSUME NEW n \in names'
               PROVE  \/ files[n].first_index = 1 \/ n - 1 \in names'
                      \/ \E s \in SafeSnapshots' : files[n].first_index - 1 <= s
    BY Zenon, <2>1 DEF StartCovered
  <2>3. n \in names /\ n \in Nat /\ x \in Nat
    BY Zenon, <1>0, <2>1
  <2>4. CASE n - 1 = x
    <3>1. n = x + 1
      BY <2>3, <2>4
    <3> QED
      BY Zenon, <2>2, <3>1
  <2>5. CASE n - 1 # x
    BY Zenon, <1>0, <2>1, <2>3, <2>5 DEF StartCovered
  <2> QED
    BY Zenon, <2>4, <2>5
<1>5. CASE PowerLoss
  <2>1. Power /\ PowerInv
    BY Zenon, <1>5 DEF PowerLoss, Power
  <2>2. StartCovered(files, names', SafeSnapshots)
    BY Zenon, <1>0, <1>5, <2>1, PowerNames DEF PowerInv
  <2>3. \A n \in names' : files'[n].first_index = files[n].first_index
    BY Zenon, <1>5, <2>1, PowerCut
  <2> QED
    BY <1>0, <2>2, <2>3, StartSame
<1> QED
  BY <1>1, <1>2, <1>3, <1>4, <1>5, ContentStep

\* truncate_through removes the segments below those that it removes.
LEMMA ClosedStep ==
    ASSUME TypeOK, TypeOK', OpInv, RemovalsCovered, LogInv, ReliableReads, [Next]_vars
    PROVE  \A n \in op'.removals, m \in names' : m < n => m \in op'.removals
<1> USE DEF vars, walVars, objectVars
<1>0. op \in [stage : Stages, entries : Seq(LogRecord), done : Nat,
             durability : {"flush", "synchronize"}, removals : SUBSET Number]
  BY Zenon DEF TypeOK, OpOK
<1>1. CASE op'.removals = {}
  BY Zenon, <1>1
<1>2. CASE op'.removals = op.removals /\ names' = names
  BY Zenon, <1>2 DEF LogInv
<1>3. CASE ensure_segment \/ create_segment \/ segment_created \/ write_record
  <2>1. op'.removals = op.removals \/ op' = Idle
    BY Zenon, <1>0, <1>3 DEF ensure_segment, create_segment, segment_created, write_record, Throw
  <2>2. op.removals = {}
    BY Zenon, <1>3
       DEF ensure_segment, create_segment, segment_created, write_record, OpInv, Appending
  <2> QED
    BY <1>1, <2>1, <2>2 DEF Idle
<1>4. CASE append_returns \/ append_fails \/ truncation_returns \/ truncation_fails
           \/ KillProcess \/ PowerLoss
  BY Zenon, <1>1, <1>4, EndsIdle
<1>5. CASE recover \/ Open
  BY Zenon, <1>2, <1>5 DEF recover, Open
<1>6. ASSUME NEW first, NEW values, NEW durability, append(first, values, durability)
      PROVE  op'.removals = {}
  BY <1>6 DEF append, Idle
<1>7. ASSUME NEW index \in 1..MaxIndex[faults], truncate_through(index)
      PROVE  \A n \in op'.removals, m \in names' : m < n => m \in op'.removals
  <2>1. CASE UNCHANGED op
    BY <1>2, <1>7, <2>1 DEF truncate_through
  <2>2. CASE op' = [Idle EXCEPT !.stage = "remove",
                                !.removals = Removals(Recovered(Shown).segments, index)]
    <3>0. index \in Nat /\ names' = names /\ names \subseteq Number
      BY <1>7, StorageConstants DEF TypeOK, FilesOK, truncate_through
    <3>1. op'.removals = Removals(Recovered(Shown).segments, index)
      BY <2>2 DEF Idle
    <3>2. /\ DOMAIN Recovered(Shown).segments = names
          /\ \A n \in names : Recovered(Shown).segments[n] = Maximum(files[n])
      BY Zenon, RecoveredActive
    <3> SUFFICES ASSUME NEW n \in names, n + 1 \in names, Maximum(files[n]) # 0,
                        Maximum(files[n]) <= index, NEW m \in names, m < n
                 PROVE  m + 1 \in names /\ Maximum(files[m]) # 0 /\ Maximum(files[m]) <= index
      BY <3>0, <3>1, <3>2 DEF Removals
    <3>3. m + 1 \in names
      <4>1. m + 1 \in m..n
        BY <3>0 DEF Number
      <4> QED
        BY Zenon, <4>1 DEF LogInv, Chain, Consecutive
    <3>4. files[m].records # <<>> /\ End(files[m]) <= files[n].first_index
      BY Zenon, <3>3 DEF LogInv, Chain
    <3>5. files[n].records # <<>>
      BY Zenon DEF Maximum
    <3>6. /\ Maximum(files[n]) = End(files[n]) - 1 /\ Maximum(files[m]) = End(files[m]) - 1
      BY Zenon, <3>4, <3>5 DEF Maximum
    <3> DEFINE a == files[m].first_index
               k == Len(files[m].records)
               b == files[n].first_index
               l == Len(files[n].records)
    <3>7. /\ a \in Nat /\ k \in Nat /\ b \in Nat /\ l \in Nat /\ a # 0 /\ k # 0
          /\ End(files[m]) = a + k /\ End(files[n]) = b + l
      <4>1. files[m] \in File /\ files[n] \in File
        BY DEF TypeOK, FilesOK
      <4> QED
        BY Zenon, <3>4, <4>1, FileFields
    <3>8. End(files[m]) <= b
      BY <3>4
    <3> HIDE DEF a, k, b, l
    <3>9. /\ a + k <= b /\ b + l - 1 <= index
          /\ Maximum(files[m]) = a + k - 1
      BY <3>6, <3>7, <3>8
    <3>10. a + k - 1 # 0 /\ a + k - 1 <= index
      BY <3>0, <3>7, <3>9
    <3> QED
      BY Zenon, <3>3, <3>9, <3>10
  <2>3. CASE RecoveryThrows
    BY Zenon, <2>3, NoThrow DEF LogInv
  <2> QED
    BY <1>7, <2>1, <2>2, <2>3 DEF truncate_through
<1>8. CASE remove_specific
  BY Zenon, <1>8, RemoveFacts DEF LogInv
<1>9. CASE removal_synchronized
  BY <1>0, <1>2, <1>9 DEF removal_synchronized
<1>10. CASE Publication \/ UNCHANGED vars
  BY <1>2, <1>10 DEF Publication, publish, publish_links, publish_returns, publish_fails
<1> QED
  BY Zenon, <1>1, <1>3, <1>4, <1>5, <1>6, <1>7, <1>8, <1>9, <1>10
     DEF Next, LogOperation, Truncation

-----------------------------------------------------------------------------
(* The batch that is being appended.                                       *)

\* An object without a segment has no log: what was acknowledged is in a
\* snapshot that stays.
LEMMA RestartReached ==
    ASSUME TypeOK, OpInv, SnapshotInv, LogInv, AckedKept, open, healthy, op = Idle,
           mirror.expected = 0, NEW k, Restarts(k)
    PROVE  k = 1 \/ Reached(k - 1)
<1>1. Mirrors(mirror, files, names)
  BY DEF LogInv, MirrorInv, Idle
<1>2. names = {}
  <2> SUFFICES ASSUME names # {}
               PROVE  FALSE
    OBVIOUS
  <2>1. Final(names) \in names
    BY FinalOf DEF OpInv, TypeOK, FilesOK, Number
  <2>2. End(files[Final(names)]) # 0
    BY <2>1, FileFields DEF TypeOK, FilesOK
  <2> QED
    BY <1>1, <2>2 DEF Mirrors
<1>3. \A e \in acked : Reached(e.index)
  BY <1>2 DEF AckedKept, Kept, SafeNames
<1>4. k - 1 = 0 \/ \E e \in acked : e.index = k - 1
  BY DEF Restarts, Known, SnapshotInv
<1> QED
  BY <1>3, <1>4

\* The entry written next is the one the log expects, within max_recovery_records.
LEMMA BatchStep ==
    ASSUME TypeOK, TypeOK', OpInv, SnapshotInv, LogInv, AckedKept, [Next]_vars
    PROVE  BatchInv'
<1> USE DEF vars, walVars, objectVars
<1>0. op \in [stage : Stages, entries : Seq(LogRecord), done : Nat,
             durability : {"flush", "synchronize"}, removals : SUBSET Number]
  BY DEF TypeOK, OpOK
<1>1. CASE op'.stage \notin {"record", "write", "create", "created"}
  BY <1>1 DEF BatchInv, Appending
<1>2. CASE /\ Appending /\ op'.entries = op.entries /\ op'.done = op.done
           /\ mirror'.count = mirror.count /\ mirror'.expected = mirror.expected
           /\ \/ op'.stage = op.stage
              \/ op.stage # "write" /\ (op'.stage = "write" => mirror.expected # 0)
  <2>1. Entry' = Entry
    BY <1>2 DEF Entry
  <2>2. BatchInv
    BY DEF LogInv
  <2>3. Reached(Entry.index - 1) => \E s \in SafeSnapshots' : Entry.index - 1 <= s
    BY ReachedStays
  <2> DEFINE P(e) == \E s \in SafeSnapshots' : e.index - 1 <= s
  <2>4. /\ \A i \in DOMAIN op'.entries : op'.entries[i].index = op'.entries[1].index + i - 1
        /\ mirror'.count + Len(op'.entries) <= MaxRecords + op'.done
    BY Zenon, <1>2, <2>2 DEF BatchInv
  <2>5. op'.done < Len(op'.entries) =>
           IF op'.stage # "write" /\ mirror'.expected = 0
           THEN Entry.index = 1 \/ P(Entry) ELSE Entry.index = mirror'.expected
    BY <1>2, <2>2, <2>3 DEF BatchInv
  <2> QED
    BY <2>1, <2>4, <2>5 DEF BatchInv, Reached
<1>3. CASE Publication \/ UNCHANGED vars
  <2>1. UNCHANGED walVars
    BY <1>3 DEF Publication, publish, publish_links, publish_returns, publish_fails
  <2> QED
    BY <1>1, <1>2, <2>1 DEF Appending
<1>4. ASSUME NEW first \in 1..MaxIndex[faults], NEW values \in Batches,
             NEW durability, append(first, values, durability)
      PROVE  BatchInv'
  <2> DEFINE b == Batch(first, values)
  <2>1. /\ op'.entries = b /\ op'.done = 0 /\ op'.stage = "record"
        /\ mirror' = mirror /\ op = Idle /\ open /\ healthy /\ ValidBatch(b)
    BY <1>4 DEF append, Idle
  <2>2. /\ \A i \in DOMAIN b : b[i].index = first + i - 1
        /\ 1 \in DOMAIN b /\ first \in Nat
    BY StorageConstants DEF Batch, Batches, TypeOK
  <2>3. b[1].index = first
    BY <2>2
  <2>4. Entry' = b[1]
    BY <2>1 DEF Entry
  <2>5. mirror.expected = 0 => first = 1 \/ Reached(first - 1)
    BY <2>1, <2>3, RestartReached DEF ValidBatch
  <2>6. mirror.expected # 0 => first = mirror.expected
    BY <2>1, <2>3 DEF ValidBatch
  <2>7. mirror.count + Len(b) <= MaxRecords
    BY <2>1 DEF ValidBatch
  <2>8. Reached(first - 1) => \E s \in SafeSnapshots' : first - 1 <= s
    BY ReachedStays
  <2>9. MaxRecords + 0 = MaxRecords
    BY StorageConstants
  <2> HIDE DEF b
  <2> QED
    BY Zenon, <2>1, <2>2, <2>3, <2>4, <2>5, <2>6, <2>7, <2>8, <2>9 DEF BatchInv, Reached
<1>5. CASE ensure_segment
  <2>1. /\ op.stage = "record" /\ op'.entries = op.entries /\ op'.done = op.done
        /\ op'.stage = "write" => mirror.active
    BY <1>0, <1>5 DEF ensure_segment
  <2>2. mirror'.count = mirror.count /\ mirror'.expected = mirror.expected
    BY <1>5, DeactivatedFields DEF ensure_segment
  <2>3. mirror.active => mirror.expected # 0
    <3> SUFFICES ASSUME mirror.active
                 PROVE  mirror.expected # 0
      OBVIOUS
    <3>1. Mirrors(mirror, files, names) /\ names # {}
      BY <2>1 DEF LogInv, MirrorInv, OpInv
    <3>2. Final(names) \in names
      BY <3>1, FinalOf DEF OpInv, TypeOK, FilesOK, Number
    <3>3. End(files[Final(names)]) # 0
      BY <3>2, FileFields DEF TypeOK, FilesOK
    <3> QED
      BY <3>1, <3>3 DEF Mirrors
  <2> QED
    BY <1>2, <2>1, <2>2, <2>3 DEF Appending
<1>6. CASE create_segment
  <2>1. CASE NextSequence \in names
    BY <1>1, <1>6, <2>1 DEF create_segment, Throw, Idle
  <2>2. CASE NextSequence \notin names
    <3>1. /\ op.stage = "create" /\ op'.entries = op.entries /\ op'.done = op.done
          /\ op'.stage = "created" /\ mirror' = mirror
      BY <1>0, <1>6, <2>2 DEF create_segment
    <3> QED
      BY <1>2, <3>1 DEF Appending
  <2> QED
    BY <2>1, <2>2
<1>7. CASE segment_created
  <2>1. /\ op.stage = "created" /\ op'.entries = op.entries /\ op'.done = op.done
        /\ op'.stage = "write"
    BY <1>0, <1>7 DEF segment_created
  <2>2. mirror'.count = mirror.count /\ mirror'.expected = Entry.index
    BY <1>7, CreatedFields
  <2>3. Entry' = Entry
    BY <2>1 DEF Entry
  <2>4. BatchInv /\ Appending
    BY <2>1 DEF LogInv, Appending
  <2> QED
    BY <2>1, <2>2, <2>3, <2>4 DEF BatchInv
<1>8. CASE write_record
  <2> DEFINE d == op.done
             l == Len(op.entries)
             a == op.entries[1].index
             c == mirror.count
  <2>1. /\ op.stage = "write" /\ op'.entries = op.entries /\ op'.done = d + 1
        /\ op'.stage = "record"
    BY Zenon, <1>0, <1>8 DEF write_record
  <2>2. mirror'.count = c + 1 /\ mirror'.expected = Entry.index + 1
    BY <1>8, WriteFields
  <2>3. /\ \A i \in DOMAIN op.entries : op.entries[i].index = a + i - 1
        /\ c + l <= MaxRecords + d
    BY Zenon, <2>1 DEF LogInv, BatchInv, Appending
  <2>4. d \in Nat /\ l \in Nat /\ DOMAIN op.entries = 1..l /\ d < l /\ MaxRecords \in Nat
    BY <1>0, <2>1, StorageConstants DEF OpInv
  <2>5. a \in Nat
    <3>1. 1 \in DOMAIN op.entries
      BY <2>4
    <3>2. op.entries[1] \in LogRecord
      BY <1>0, <3>1
    <3> QED
      BY Zenon, <3>2 DEF LogRecord, Number
  <2>6. c \in Int
    <3> DEFINE e == mirror.expected
               f == files[First(names)].first_index
    <3>1. Mirrors(mirror, files, names) /\ names # {}
      BY Zenon, <2>1, ActiveFinal DEF OpInv
    <3>2. First(names) \in names
      BY Zenon, <3>1, FirstOf DEF LogInv, Chain, TypeOK, FilesOK, Number
    <3>3. e \in Nat /\ f \in Nat /\ c = e - f
      BY Zenon, <3>1, <3>2, FileFields DEF Mirrors, TypeOK, FilesOK, MirrorOK
    <3> HIDE DEF e, f, c
    <3> QED
      BY <3>3
  <2>7. Entry.index = a + d
    <3>1. d + 1 \in DOMAIN op.entries /\ Entry = op.entries[d + 1]
      BY <2>4 DEF Entry
    <3>2. Entry.index = a + (d + 1) - 1
      BY Zenon, <2>3, <3>1
    <3> HIDE DEF a, d
    <3> QED
      BY <2>4, <2>5, <3>2
  <2>8. d + 1 < l => Entry'.index = a + d + 1
    <3> SUFFICES ASSUME d + 1 < l
                 PROVE  Entry'.index = a + d + 1
      BY Zenon
    <3>1. Entry' = op.entries[d + 1 + 1]
      BY <2>1 DEF Entry
    <3> HIDE DEF d, l
    <3>2. d + 1 + 1 \in DOMAIN op.entries
      BY <2>4
    <3>3. Entry'.index = a + (d + 1 + 1) - 1
      BY <2>3, <3>1, <3>2
    <3> HIDE DEF a
    <3> QED
      BY <2>4, <2>5, <3>3
  <2> HIDE DEF d, l, a, c
  <2>9. /\ (c + 1) + l <= MaxRecords + (d + 1)
        /\ a + d + 1 # 0
    BY <2>3, <2>4, <2>5, <2>6
  <2>10. d + 1 < l => mirror'.expected # 0 /\ Entry'.index = mirror'.expected
    BY <2>2, <2>7, <2>8, <2>9
  <2>11. /\ \A i \in DOMAIN op'.entries : op'.entries[i].index = op'.entries[1].index + i - 1
         /\ mirror'.count + Len(op'.entries) <= MaxRecords + op'.done
    BY <2>1, <2>2, <2>3, <2>9 DEF a, l
  <2> QED
    BY Zenon, <2>1, <2>10, <2>11 DEF BatchInv, l
<1>9. CASE append_returns \/ append_fails \/ truncation_returns \/ truncation_fails
           \/ KillProcess \/ PowerLoss
  BY <1>1, <1>9, EndsIdle
<1>10. CASE recover \/ Open
  BY <1>1, <1>10 DEF recover, Open, OpInv, Idle
<1>11. ASSUME NEW index, truncate_through(index)
       PROVE  BatchInv'
  <2>1. CASE UNCHANGED op
    BY <1>1, <1>11, <2>1 DEF truncate_through, Idle
  <2>2. CASE op' = [Idle EXCEPT !.stage = "remove",
                                !.removals = Removals(Recovered(Shown).segments, index)]
    BY Zenon, <1>1, <2>2 DEF Idle
  <2> QED
    BY <1>11, <2>1, <2>2 DEF truncate_through
<1>12. CASE remove_specific \/ removal_synchronized
  BY Zenon, <1>0, <1>1, <1>12 DEF remove_specific, removal_synchronized
<1> QED
  BY <1>3, <1>4, <1>5, <1>6, <1>7, <1>8, <1>9, <1>10, <1>11, <1>12
     DEF Next, LogOperation, Truncation

-----------------------------------------------------------------------------
(* The members of a healthy object through every step.                     *)

\* The steps that keep the content keep the members true.
LEMMA MirrorsContent ==
    ASSUME TypeOK, LogInv, SameContent, NEW m, NEW k, Mirrors(m, files, names),
           k.segments = m.segments, k.expected = m.expected, k.last_index = m.last_index,
           k.count = m.count, k.size = m.size
    PROVE  Mirrors(k, files', names')
<1>1. Chain(files, names) /\ names \in SUBSET Nat
  BY DEF LogInv, TypeOK, FilesOK, Number
<1>2. /\ names' = names
      /\ \A n \in names : /\ files'[n].first_index = files[n].first_index
                          /\ files'[n].records = files[n].records
  BY DEF SameContent
<1>3. Mirrors(k, files', names)
  BY <1>1, <1>2, MirrorsSame
<1> QED
  BY <1>2, <1>3

\* A recovery leaves no torn segment.
LEMMA RepairedUntorn ==
    ASSUME TypeOK, LogInv, names' = names, files' = Repaired
    PROVE  \A n \in names' : ~ files'[n].torn
<1> SUFFICES ASSUME NEW n \in names
             PROVE  ~ files'[n].torn
  BY Zenon
<1>1. Chain(files, names) /\ names \in SUBSET Nat
  BY DEF LogInv, TypeOK, FilesOK, Number
<1>2. CASE n + 1 \in names
  BY Zenon, <1>1, <1>2, RepairedContent DEF Chain
<1>3. CASE n + 1 \notin names
  <2>1. ASSUME NEW m \in names
        PROVE  m <= n
    <3>1. n..m \subseteq names
      BY <1>1 DEF Chain, Consecutive
    <3>2. m > n => n + 1 \in n..m
      BY <1>1
    <3> QED
      BY <1>1, <1>3, <3>1, <3>2
  <2> QED
    BY <2>1, RepairedContent
<1> QED
  BY <1>2, <1>3

\* The members after a recovery.
LEMMA RecoveryMirror ==
    ASSUME TypeOK, OpInv, LogInv, names' = names, op'.stage = "idle",
           RecoverySucceeds(Recovered(Shown))
    PROVE  MirrorInv'
<1>1. SameContent /\ \A n \in names' : ~ files'[n].torn
  BY Zenon, RepairedContent, RepairedUntorn DEF RecoverySucceeds
<1>2. Mirrors(Recovered(Shown), files, names)
  BY Zenon, RecoveredMirrors DEF LogInv
<1>3. mirror' = Recovered(Shown)
  BY DEF RecoverySucceeds
<1>4. Mirrors(mirror', files', names')
  BY Zenon, <1>1, <1>2, <1>3, MirrorsContent
<1>5. mirror'.active <=> names' # {}
  BY <1>3, RecoveredActive
<1> QED
  BY Zenon, <1>1, <1>4, <1>5 DEF MirrorInv

\* create_segment up to the rename.
LEMMA MirrorCreate ==
    ASSUME TypeOK, OpInv, LogInv, create_segment, NextSequence \notin names
    PROVE  MirrorInv'
<1>1. /\ op.stage = "create" /\ op'.stage = "created" /\ op'.entries = op.entries
      /\ op'.done = op.done /\ mirror' = mirror
  BY DEF create_segment, objectVars, TypeOK, OpOK
<1>2. NextSequence' = NextSequence /\ NewSegment' = NewSegment
  BY <1>1 DEF NextSequence, Active, NewSegment, Entry
<1>3. /\ names' \ {NextSequence} = names
      /\ files'[NextSequence] = NewSegment /\ ~ NewSegment.torn
      /\ names' = names \cup {NextSequence}
      /\ \A n \in names : files'[n] = files[n] /\ ~ files[n].torn /\ files[n].records # <<>>
  BY Zenon, CreateFacts
<1>4. Mirrors(mirror, files, names)
  BY Zenon, <1>1, ActiveFinal
<1>5. Mirrors(mirror', files', names)
  BY <1>1, <1>3, <1>4, MirrorsSame DEF LogInv, TypeOK, FilesOK, Number
<1>6. \A n \in names' : ~ files'[n].torn
  BY <1>3
<1> QED
  BY Zenon, <1>1, <1>2, <1>3, <1>5, <1>6 DEF MirrorInv

\* create_segment after the directory fsync.
LEMMA MirrorCreated ==
    ASSUME TypeOK, OpInv, LogInv, segment_created
    PROVE  MirrorInv'
<1> DEFINE x == NextSequence
           S == names \ {x}
<1>1. /\ op.stage = "created" /\ op'.stage = "write" /\ files' = files /\ names' = names
      /\ open /\ healthy /\ x \in names
  BY DEF segment_created, TypeOK, OpOK, OpInv
<1>2. /\ Mirrors(mirror, files, S) /\ files[x] = NewSegment
      /\ \A n \in names : ~ files[n].torn
  BY Zenon, <1>1 DEF LogInv, MirrorInv
<1>3. /\ x \in Number /\ \A n \in S : n < x
  BY <1>2, NextSequenceOK DEF Mirrors
<1>4. /\ mirror'.segments = [n \in S \cup {x} |-> IF n = x THEN 0 ELSE mirror.segments[n]]
      /\ mirror'.active /\ mirror'.last_index = mirror.last_index
      /\ mirror'.expected = Entry.index /\ mirror'.size = 0 /\ mirror'.count = mirror.count
  BY <1>2, CreatedFields DEF Mirrors
<1>5. /\ \A n \in names : files[n] \in File
      /\ files[x].records = <<>> /\ files[x].first_index = Entry.index
      /\ S \in SUBSET Number
  BY <1>2 DEF NewSegment, TypeOK, FilesOK
<1>6. Chain(files, S)
  <2>1. Chain(files, names) /\ names \subseteq Nat /\ x \in Nat
    BY Zenon, <1>3 DEF LogInv, TypeOK, FilesOK, Number
  <2>2. HasFinal(S)
    BY Zenon, <1>2 DEF OpInv, Mirrors
  <2>3. HasFirst(S)
    <3> SUFFICES ASSUME S # {}
                 PROVE  \E l \in S : \A m \in S : l <= m
      BY DEF HasFirst
    <3>1. PICK l \in names : \A m \in names : l <= m
      BY Zenon, <2>1 DEF Chain, HasFirst
    <3>2. PICK n \in S : TRUE
      OBVIOUS
    <3>3. l # x
      BY <1>3, <2>1, <3>1, <3>2
    <3> QED
      BY <3>1, <3>3
  <2>4. Consecutive(S)
    <3> SUFFICES ASSUME NEW m \in S, NEW n \in S, NEW k \in m..n
                 PROVE  k \in S
      BY DEF Consecutive
    <3>1. m \in Nat /\ n \in Nat /\ n < x /\ m..n \subseteq names
      BY Zenon, <1>3, <2>1 DEF Chain, Consecutive
    <3> QED
      BY <2>1, <3>1
  <2> QED
    BY <2>1, <2>2, <2>3, <2>4, ChainPart
<1>7. S # {} => Entry.index = mirror.expected
  <2> SUFFICES ASSUME S # {}
               PROVE  Entry.index = mirror.expected
    OBVIOUS
  <2>1. Final(S) \in S
    BY Zenon, <1>5, <1>6, FinalOf DEF Chain, Number
  <2>2. mirror.expected # 0
    BY Zenon, <1>2, <1>5, <2>1, FileFields DEF Mirrors
  <2> QED
    BY Zenon, <1>1, <2>2 DEF LogInv, BatchInv, Appending, OpInv
<1>8. x \in names /\ names = S \cup {x}
  BY <1>1
<1> HIDE DEF x, S
<1>9. Mirrors(mirror', files, S \cup {x})
  BY Zenon, <1>2, <1>3, <1>4, <1>5, <1>6, <1>7, <1>8, MirrorsNew
<1> QED
  BY Zenon, <1>1, <1>2, <1>4, <1>8, <1>9 DEF MirrorInv

\* write_all.
LEMMA MirrorWrite ==
    ASSUME TypeOK, TypeOK', OpInv, LogInv, write_record
    PROVE  MirrorInv'
<1> DEFINE h == Final(names)
<1>1. /\ op.stage = "write" /\ op'.stage = "record" /\ names' = names
      /\ open /\ healthy /\ mirror.active /\ names # {}
  BY DEF write_record, TypeOK, OpOK, OpInv
<1>2. /\ h = Active /\ Mirrors(mirror, files, names) /\ Chain(files, names)
      /\ Entry.index = mirror.expected
      /\ \A n \in names : ~ files[n].torn
  BY Zenon, <1>1, ActiveFinal DEF LogInv, BatchInv, MirrorInv, OpInv, Appending
<1>3. /\ mirror'.segments = [mirror.segments EXCEPT ![h] = Entry.index]
      /\ mirror'.active = mirror.active /\ mirror'.last_index = Entry.index
      /\ mirror'.expected = Entry.index + 1
      /\ mirror'.size = mirror.size + 1 /\ mirror'.count = mirror.count + 1
  BY <1>2, WriteFields
<1>4. /\ names \in SUBSET Number /\ names \subseteq DOMAIN files
      /\ \A n \in names : files[n] \in File /\ files'[n] \in File
      /\ mirror.segments = [n \in DOMAIN mirror.segments |-> mirror.segments[n]]
  BY Zenon, <1>1 DEF TypeOK, FilesOK, MirrorOK
<1>5. /\ h \in names /\ \A n \in names : n # h => files'[n] = files[n]
      /\ files'[h].first_index = files[h].first_index
      /\ files'[h].torn = files[h].torn
      /\ Len(files'[h].records) = Len(files[h].records) + 1
  BY Zenon, <1>2, <1>4, WriteExtends
<1>6. \A n \in names : ~ files'[n].torn
  BY Zenon, <1>2, <1>5
<1>7. Mirrors(mirror', files', names)
  BY <1>1, <1>2, <1>3, <1>4, <1>5, MirrorsWrite
<1> QED
  BY Zenon, <1>1, <1>3, <1>6, <1>7 DEF MirrorInv

\* ensure_segment.
LEMMA MirrorEnsure ==
    ASSUME TypeOK, OpInv, LogInv, ensure_segment
    PROVE  MirrorInv'
<1>1. /\ op.stage = "record" /\ names' = names /\ open' /\ healthy' /\ open /\ healthy
      /\ Mirrors(mirror, files, names) /\ (mirror.active <=> names # {})
      /\ \A n \in names : ~ files[n].torn
  BY Zenon DEF ensure_segment, LogInv, MirrorInv, OpInv
<1>2. CASE op' = [op EXCEPT !.stage = "write"] /\ UNCHANGED <<files, mirror>>
  <2>1. op'.stage = "write"
    BY <1>2 DEF TypeOK, OpOK
  <2> QED
    BY <1>1, <1>2, <2>1 DEF MirrorInv
<1>3. CASE /\ mirror.active /\ mirror.size >= SegmentRecords
           /\ op' = [op EXCEPT !.stage = "create"]
           /\ files' = Synchronized
           /\ mirror' = [mirror EXCEPT !.active = FALSE]
  <2>1. op'.stage = "create"
    BY Zenon, <1>3 DEF TypeOK, OpOK
  <2>2. Active = Final(names) /\ Active \in names
    BY Zenon, <1>1, <1>3, ActiveFinal DEF OpInv
  <2>3. SameContent /\ \A n \in names : files'[n].torn = files[n].torn
    BY <1>1, <1>3, <2>2, SynchronizedContent
  <2>4. Mirrors(mirror', files', names')
    BY Zenon, <1>1, <1>3, <2>3, DeactivatedFields, MirrorsContent
  <2>5. ASSUME NEW n \in names
        PROVE  files[n].records # <<>>
    <3>1. CASE n = Final(names)
      <4>1. mirror.size = Len(files[n].records)
        BY Zenon, <1>1, <3>1 DEF Mirrors
      <4>2. mirror.size \in Nat /\ SegmentRecords \in Nat /\ SegmentRecords # 0
        BY Zenon, StorageConstants DEF TypeOK, MirrorOK
      <4>3. Len(files[n].records) # 0
        BY <1>3, <4>1, <4>2
      <4> QED
        BY <4>3
    <3>2. CASE n # Final(names)
      <4>1. n + 1 \in names
        BY Zenon, <3>2, ChainEnd DEF LogInv, TypeOK, FilesOK, Number
      <4> QED
        BY Zenon, <4>1 DEF LogInv, Chain
    <3> QED
      BY Zenon, <3>1, <3>2
  <2> QED
    BY Zenon, <1>1, <2>1, <2>3, <2>4, <2>5 DEF MirrorInv, SameContent
<1>4. CASE ~ mirror.active /\ op' = [op EXCEPT !.stage = "create"] /\ UNCHANGED <<files, mirror>>
  <2>1. op'.stage = "create"
    BY <1>4 DEF TypeOK, OpOK
  <2> QED
    BY Zenon, <1>1, <1>4, <2>1 DEF MirrorInv
<1> QED
  BY Zenon, <1>2, <1>3, <1>4 DEF ensure_segment

\* Every step keeps the members of a healthy object true.
LEMMA MirrorStep ==
    ASSUME TypeOK, TypeOK', OpInv, RemovalsCovered, LogInv, ReliableReads, [Next]_vars
    PROVE  MirrorInv'
<1> USE DEF vars, walVars, objectVars
<1>0. ~ RecoveryThrows /\ MirrorInv
  BY Zenon, NoThrow DEF LogInv
<1>1. CASE op'.stage = "idle" /\ ~ (open' /\ healthy')
  BY Zenon, <1>1 DEF MirrorInv
<1>2. CASE Publication \/ UNCHANGED vars
  <2>1. UNCHANGED walVars
    BY Zenon, <1>2 DEF Publication, publish, publish_links, publish_returns, publish_fails
  <2>2. NextSequence' = NextSequence /\ NewSegment' = NewSegment
    BY Zenon, <2>1 DEF NextSequence, Active, NewSegment, Entry
  <2> QED
    BY Zenon, <1>0, <2>1, <2>2 DEF MirrorInv
<1>3. ASSUME NEW first, NEW values, NEW durability, append(first, values, durability)
      PROVE  MirrorInv'
  <2>1. /\ op.stage = "idle" /\ op'.stage = "record"
        /\ UNCHANGED <<files, names, mirror, open, healthy>> /\ open /\ healthy
    BY Zenon, <1>3 DEF append, Idle
  <2> QED
    BY Zenon, <1>0, <2>1 DEF MirrorInv
<1>4. CASE ensure_segment
  BY <1>4, MirrorEnsure
<1>5. CASE create_segment
  <2>1. CASE NextSequence \in names
    BY <1>1, <1>5, <2>1 DEF create_segment, Throw, Idle
  <2>2. CASE NextSequence \notin names
    BY <1>5, <2>2, MirrorCreate
  <2> QED
    BY <2>1, <2>2
<1>6. CASE segment_created \/ write_record
  BY <1>6, MirrorCreated, MirrorWrite
<1>7. CASE append_returns
  <2>1. /\ op.stage = "record" /\ op'.stage = "idle" /\ open /\ healthy /\ mirror.active
        /\ UNCHANGED <<names, mirror, open, healthy>>
        /\ files' = files \/ files' = Synchronized
    <3>1. op.stage = "record" /\ op.done = Len(op.entries) /\ op.entries # <<>>
      BY Zenon, <1>7 DEF append_returns, OpInv, Appending
    <3>2. op.done # 0
      BY <3>1 DEF TypeOK, OpOK
    <3> QED
      BY Zenon, <1>7, <3>1, <3>2 DEF append_returns, Idle, OpInv
  <2>2. /\ Mirrors(mirror, files, names) /\ (mirror.active <=> names # {})
        /\ \A n \in names : ~ files[n].torn
    BY Zenon, <1>0, <2>1 DEF MirrorInv
  <2>3. CASE files' = files
    BY Zenon, <2>1, <2>2, <2>3 DEF MirrorInv
  <2>4. CASE files' = Synchronized
    <3>1. Active \in names
      BY <2>1 DEF OpInv
    <3>2. SameContent /\ \A n \in names : files'[n].torn = files[n].torn
      BY <2>1, <2>4, <3>1, SynchronizedContent
    <3>3. Mirrors(mirror', files', names')
      BY Zenon, <2>1, <2>2, <3>2, MirrorsContent
    <3> QED
      BY Zenon, <2>1, <2>2, <3>2, <3>3 DEF MirrorInv
  <2> QED
    BY <2>1, <2>3, <2>4
<1>8. CASE append_fails \/ truncation_fails
  BY <1>1, <1>8 DEF append_fails, truncation_fails, Throw, Idle
<1>9. CASE KillProcess \/ PowerLoss
  BY <1>1, <1>9 DEF KillProcess, PowerLoss, Crash, Idle
<1>10. CASE recover \/ Open \/ truncation_returns
  <2>1. names' = names /\ op'.stage = "idle" /\ RecoverySucceeds(Recovered(Shown))
    BY <1>0, <1>10 DEF recover, Open, truncation_returns, recover_locked, OpInv, Idle
  <2> QED
    BY <2>1, RecoveryMirror
<1>11. ASSUME NEW index, truncate_through(index)
       PROVE  MirrorInv'
  <2>1. CASE UNCHANGED op
    <3>1. op'.stage = "idle" /\ names' = names
      BY <1>11, <2>1 DEF truncate_through, Idle
    <3>2. RecoverySucceeds(Recovered(Shown))
      BY Zenon, <1>0, <1>11, <2>1, <3>1 DEF truncate_through, Idle
    <3> QED
      BY <3>1, <3>2, RecoveryMirror
  <2>2. CASE /\ RecoverySucceeds([Recovered(Shown) EXCEPT !.active = FALSE])
             /\ op' = [Idle EXCEPT !.stage = "remove",
                                   !.removals = Removals(Recovered(Shown).segments, index)]
    <3>1. op'.stage = "remove" /\ names' = names /\ files' = Repaired
      BY <1>11, <2>2 DEF truncate_through, Idle, RecoverySucceeds
    <3> QED
      BY Zenon, <3>1, RepairedUntorn DEF MirrorInv
  <2> QED
    BY <1>0, <1>11, <2>1, <2>2 DEF truncate_through
<1>12. CASE remove_specific
  <2>1. op'.stage = "removed" /\ names' \subseteq names /\ files' = files /\ open /\ healthy
    BY Zenon, <1>12, RemoveFacts DEF remove_specific, OpInv
  <2> QED
    BY Zenon, <1>0, <2>1 DEF MirrorInv
<1>13. CASE removal_synchronized
  <2>1. /\ op'.stage = "remove" /\ names' = names /\ files' = [n \in names |-> files[n]]
        /\ open /\ healthy
    BY Zenon, <1>13 DEF removal_synchronized, Shown, Part, TypeOK, OpOK, OpInv
  <2> QED
    BY Zenon, <1>0, <2>1 DEF MirrorInv
<1> QED
  BY Zenon, <1>2, <1>3, <1>4, <1>5, <1>6, <1>7, <1>8, <1>9, <1>10, <1>11, <1>12, <1>13
     DEF Next, LogOperation, Truncation

\* Every step keeps the log part of the invariant.
LEMMA LogStep ==
    ASSUME Inv, TypeOK', ReliableReads, [Next]_vars
    PROVE  LogInv'
<1>1. /\ TypeOK /\ SnapshotInv /\ OpInv /\ RemovalsCovered /\ LogInv /\ AckedKept
      /\ Power => PowerInv
  BY Zenon DEF Inv
<1> QED
  BY Zenon, <1>1, ChainStep, StartStep, MirrorStep, BatchStep, ClosedStep DEF LogInv

-----------------------------------------------------------------------------
(* What a power loss would leave.                                          *)

\* Segments that keep their records stay synchronised.
LEMMA SealedSame ==
    ASSUME NEW fs, NEW gs, NEW S, NEW T \in SUBSET S, SealedSynced(fs, S),
           \A n \in T : /\ fs[n] \in File /\ gs[n].records = fs[n].records
                        /\ gs[n].synced = fs[n].synced \/ gs[n].synced = Len(fs[n].records)
    PROVE  SealedSynced(gs, T)
<1> SUFFICES ASSUME NEW n \in T
             PROVE  /\ gs[n].synced <= Len(gs[n].records)
                    /\ n + 1 \in T => gs[n].synced = Len(gs[n].records)
  BY DEF SealedSynced
<1>1. Len(fs[n].records) \in Nat
  BY FileFields
<1>2. Len(fs[n].records) <= Len(fs[n].records)
  BY <1>1
<1> QED
  BY Zenon, <1>2 DEF SealedSynced

\* The steps after which the directory is synchronised.
LEMMA PowerQuiet ==
    ASSUME LogInv', durableNames' = names', op'.stage \notin {"created", "removed"},
           SealedSynced(files', names'),
           op'.stage = "create" =>
              \A n \in names' : files'[n].synced = Len(files'[n].records)
    PROVE  PowerInv'
<1>1. names' \cup durableNames' = names'
  BY Zenon
<1> QED
  BY Zenon, <1>1 DEF PowerInv, LogInv

\* truncate_torn_suffix synchronises what it truncates.
LEMMA RepairedSynced ==
    ASSUME TypeOK, names' = names, files' = Repaired, SealedSynced(files, names)
    PROVE  SealedSynced(files', names')
<1>1. ASSUME NEW n \in names
      PROVE  /\ files[n] \in File /\ files'[n].records = files[n].records
             /\ files'[n].synced = files[n].synced \/ files'[n].synced = Len(files[n].records)
  <2>1. n \in DOMAIN files /\ files[n] \in File
    BY DEF TypeOK, FilesOK
  <2>2. /\ Untorn(files[n]).records = files[n].records
        /\ \/ Untorn(files[n]).synced = files[n].synced
           \/ Untorn(files[n]).synced = Len(files[n].records)
    BY <2>1 DEF Untorn, File
  <2>3. files'[n] = files[n] \/ files'[n] = Untorn(files[n])
    BY <2>1 DEF Repaired
  <2> QED
    BY <2>1, <2>2, <2>3
<1>2. SealedSynced(files', names)
  BY <1>1, SealedSame
<1> QED
  BY <1>2

\* create_segment between the rename and the directory fsync.
LEMMA PowerCreate ==
    ASSUME TypeOK, OpInv, SnapshotInv, LogInv, PowerInv, LogInv', create_segment,
           NextSequence \notin names,
           [Next]_vars
    PROVE  PowerInv'
<1> DEFINE x == NextSequence
<1>1. /\ op.stage = "create" /\ op'.stage = "created" /\ mirror' = mirror
      /\ durableNames' = durableNames /\ durableNames = names
  BY DEF create_segment, objectVars, TypeOK, OpOK, PowerInv
<1>2. NextSequence' = x
  BY <1>1 DEF NextSequence, Active
<1>3. /\ names' = names \cup {x} /\ names \subseteq DOMAIN files'
      /\ \A n \in names : files'[n] = files[n] /\ n < x
      /\ x \in Nat /\ files'[x].synced = 0 /\ files'[x].records = <<>>
      /\ \A n \in names : n \in Nat /\ Len(files[n].records) \in Nat
  BY Zenon, CreateFacts, FileFields DEF Number, TypeOK, FilesOK
<1> HIDE DEF x
<1>4. durableNames' = names' \ {x}
  BY <1>1, <1>3
<1>5. Chain(files', names)
  <2>1. Chain(files, names)
    BY Zenon DEF LogInv
  <2>2. \A n \in names : n + 1 \in names => ~ files'[n].torn
    BY Zenon, <1>3, <2>1 DEF Chain
  <2> QED
    BY Zenon, <1>3, <2>1, <2>2, ChainSame
<1>6. StartCovered(files', names, SafeSnapshots')
  <2>1. StartCovered(files, names, SafeSnapshots) /\ SafeSnapshots \subseteq SafeSnapshots'
    BY Zenon, SnapshotStep DEF LogInv
  <2> QED
    BY Zenon, <1>3, <2>1, StartSame
<1>7. SealedSynced(files', names' \cup durableNames')
  <2> SUFFICES ASSUME NEW n \in names \cup {x}
               PROVE  /\ files'[n].synced <= Len(files'[n].records)
                      /\ files'[n].synced = Len(files'[n].records)
    BY Zenon, <1>1, <1>3 DEF SealedSynced
  <2>1. CASE n = x
    BY <1>3, <2>1
  <2>2. CASE n \in names
    <3>1. files[n].synced = Len(files[n].records)
      BY <1>1, <2>2 DEF PowerInv
    <3> QED
      BY <1>3, <2>2, <3>1
  <2> QED
    BY <2>1, <2>2
<1> QED
  BY Zenon, <1>1, <1>2, <1>4, <1>5, <1>6, <1>7 DEF PowerInv

\* truncate_through between the unlink and the directory fsync.
LEMMA PowerRemove ==
    ASSUME TypeOK, OpInv, SnapshotInv, RemovalsCovered, LogInv, PowerInv, remove_specific,
           [Next]_vars
    PROVE  PowerInv'
<1>1. PICK x \in names :
              /\ names' = names \ {x} /\ files' = files
              /\ op'.stage = "removed"
              /\ \A m \in names' : x < m
              /\ x + 1 \in names'
              /\ \A i \in DOMAIN files[x].records : Reached(files[x].records[i].index)
  BY RemoveFacts
<1>2. durableNames' = durableNames /\ durableNames = names
  BY DEF remove_specific, PowerInv
<1>3. durableNames' = names' \cup {x} /\ names' \cup durableNames' = names \cup durableNames
  BY <1>1, <1>2
<1>4. x \in DOMAIN files' /\ x \notin names'
  BY <1>1 DEF TypeOK, FilesOK
<1>5. Chain(files', durableNames') /\ SealedSynced(files', names' \cup durableNames')
  BY Zenon, <1>1, <1>2, <1>3 DEF PowerInv
<1>6. StartCovered(files', durableNames', SafeSnapshots')
  BY <1>1, <1>2, SnapshotStep, StartSame DEF LogInv
<1>7. \A i \in DOMAIN files'[x].records :
         \E s \in SafeSnapshots' : files'[x].records[i].index <= s
  BY <1>1, ReachedStays
<1> QED
  BY <1>1, <1>3, <1>4, <1>5, <1>6, <1>7 DEF PowerInv, Reached

\* write_all leaves the sealed segments synchronised.
LEMMA PowerWrite ==
    ASSUME TypeOK, OpInv, LogInv, PowerInv, LogInv', write_record
    PROVE  PowerInv'
<1> DEFINE h == Active
<1>1. /\ op.stage = "write" /\ op'.stage = "record" /\ names' = names
      /\ durableNames' = names /\ durableNames = names
  BY DEF write_record, TypeOK, OpOK, PowerInv
<1>2. /\ \A n \in names : n # h => files'[n] = files[n]
      /\ h \in names /\ files'[h].synced = files[h].synced
      /\ Len(files'[h].records) = Len(files[h].records) + 1
      /\ names \subseteq Nat /\ \A n \in names : n <= h
      /\ \A n \in names : files[n].synced \in Nat /\ Len(files[n].records) \in Nat
  <2>1. names \subseteq Nat /\ names \subseteq DOMAIN files
    BY DEF TypeOK, FilesOK, Number
  <2>2. h = Final(names)
    BY <1>1, ActiveFinal
  <2>3. h \in names /\ \A n \in names : n # h => files'[n] = files[n]
    BY Zenon, <2>1, WriteExtends
  <2>4. \A n \in names : n <= h
    BY <2>1, <2>2, <2>3, FinalOf DEF OpInv
  <2>5. files'[h].synced = files[h].synced /\ Len(files'[h].records) = Len(files[h].records) + 1
    BY WriteExtends
  <2> QED
    BY <2>1, <2>3, <2>4, <2>5, FileFacts
<1>3. SealedSynced(files, names)
  BY Zenon, <1>1 DEF PowerInv
<1> HIDE DEF h
<1>4. SealedSynced(files', names')
  <2> SUFFICES ASSUME NEW n \in names
               PROVE  /\ files'[n].synced <= Len(files'[n].records)
                      /\ n + 1 \in names => files'[n].synced = Len(files'[n].records)
    BY <1>1 DEF SealedSynced
  <2>1. CASE n = h
    <3> DEFINE a == files[h].synced
               b == Len(files[h].records)
    <3>1. a \in Nat /\ b \in Nat /\ a <= b
      BY Zenon, <1>2, <1>3 DEF SealedSynced
    <3>2. files'[h].synced <= Len(files'[h].records)
      <4>1. files'[h].synced = a /\ Len(files'[h].records) = b + 1
        BY <1>2
      <4> HIDE DEF a, b
      <4>2. a <= b + 1
        BY <3>1
      <4> QED
        BY <4>1, <4>2
    <3>3. n + 1 \notin names
      BY <1>2, <2>1
    <3> QED
      BY <2>1, <3>2, <3>3
  <2>2. CASE n # h
    BY Zenon, <1>2, <1>3, <2>2 DEF SealedSynced
  <2> QED
    BY Zenon, <2>1, <2>2
<1> QED
  BY <1>1, <1>4, PowerQuiet

\* All that a power loss leaves is on the disk.
LEMMA PowerLost ==
    ASSUME TypeOK, PowerInv, LogInv', PowerLoss
    PROVE  PowerInv'
<1>1. durableNames' = names' /\ op'.stage = "idle"
  BY DEF PowerLoss, Crash, Idle
<1>2. ASSUME NEW n \in names'
      PROVE  files'[n].synced = Len(files'[n].records)
             /\ files'[n].synced <= Len(files'[n].records)
  <2>1. files'[n].synced = Len(files'[n].records) /\ Len(files'[n].records) \in Nat
    BY Zenon, PowerCut
  <2> QED
    BY <2>1
<1>3. SealedSynced(files', names')
  BY <1>2 DEF SealedSynced
<1> QED
  BY <1>1, <1>3, PowerQuiet

\* Every step keeps what a power loss would need.
LEMMA PowerStep ==
    ASSUME TypeOK, TypeOK', OpInv, SnapshotInv, RemovalsCovered, LogInv, PowerInv, LogInv',
           Power, [Next]_vars
    PROVE  PowerInv'
<1> USE DEF vars, walVars, objectVars
<1>0. /\ "io" \notin faults /\ "kill" \notin faults /\ ~ RecoveryThrows
      /\ op \in [stage : Stages, entries : Seq(LogRecord), done : Nat,
                durability : {"flush", "synchronize"}, removals : SUBSET Number]
      /\ names \subseteq DOMAIN files
  BY NoThrow DEF Power, TypeOK, OpOK, FilesOK, ReliableReads, LogInv
<1>1. /\ SealedSynced(files, names)
      /\ op.stage \notin {"created", "removed"} => durableNames = names
  BY DEF PowerInv, SealedSynced
<1>2. CASE Publication \/ UNCHANGED vars
  <2>1. UNCHANGED walVars
    BY <1>2 DEF Publication, publish, publish_links, publish_returns, publish_fails
  <2>2. NextSequence' = NextSequence
    BY <2>1 DEF NextSequence, Active
  <2>3. StartCovered(files', durableNames', SafeSnapshots')
    BY <2>1, SnapshotStep, StartSame DEF PowerInv
  <2>4. \A i : Reached(i) => \E s \in SafeSnapshots' : i <= s
    BY ReachedStays
  <2> QED
    BY Zenon, <2>1, <2>2, <2>3, <2>4 DEF PowerInv, Reached
<1>3. CASE /\ names' = names /\ durableNames' = names'
           /\ op'.stage \notin {"create", "created", "removed"}
           /\ files' = files \/ files' = Repaired
  <2>1. SealedSynced(files', names')
    BY <1>1, <1>3, RepairedSynced
  <2> QED
    BY <1>3, <2>1, PowerQuiet
<1>4. ASSUME files' = Synchronized, names' = names, Active \in names,
             op.stage = "record"
      PROVE  /\ SealedSynced(files', names')
             /\ \A n \in names' : files'[n].synced = Len(files'[n].records)
  <2>1. Active = Final(names) /\ names \subseteq Nat
    BY <1>4, ActiveFinal DEF TypeOK, FilesOK, Number
  <2>2. ASSUME NEW n \in names
        PROVE  files'[n].synced = Len(files'[n].records)
               /\ files'[n].synced <= Len(files'[n].records)
    <3>1. /\ files'[n].records = files[n].records
          /\ n = Active => files'[n].synced = Len(files[n].records)
          /\ n # Active => files'[n] = files[n]
      BY <1>4, SynchronizedContent DEF SameContent
    <3>2. n # Active => n + 1 \in names
      BY <2>1, ChainEnd DEF LogInv, TypeOK, FilesOK
    <3>3. files'[n].synced = Len(files'[n].records)
      BY <1>1, <3>1, <3>2 DEF SealedSynced
    <3>4. Len(files[n].records) \in Nat
      BY <1>0, FileFacts
    <3> QED
      BY <3>1, <3>3, <3>4
  <2> QED
    BY <1>4, <2>2 DEF SealedSynced
<1>5. ASSUME NEW first, NEW values, NEW durability, append(first, values, durability)
      PROVE  PowerInv'
  BY <1>1, <1>3, <1>5 DEF append, Idle
<1>6. CASE ensure_segment
  <2>1. /\ op.stage = "record" /\ names' = names /\ durableNames' = names'
    BY <1>1, <1>6 DEF ensure_segment
  <2>2. CASE op' = [op EXCEPT !.stage = "write"] /\ UNCHANGED <<files, mirror>>
    BY <1>0, <1>3, <2>1, <2>2
  <2>3. CASE /\ mirror.active /\ op' = [op EXCEPT !.stage = "create"] /\ files' = Synchronized
    <3>1. op'.stage = "create" /\ Active \in names
      BY <1>0, <2>3 DEF OpInv
    <3> QED
      BY <1>4, <2>1, <2>3, <3>1, PowerQuiet
  <2>4. CASE ~ mirror.active /\ op' = [op EXCEPT !.stage = "create"] /\ UNCHANGED files
    <3>1. op'.stage = "create" /\ names = {}
      BY <1>0, <2>1, <2>4 DEF OpInv, LogInv, MirrorInv
    <3>2. SealedSynced(files', names')
      BY <1>1, <2>1, <2>4
    <3> QED
      BY <2>1, <3>1, <3>2, PowerQuiet
  <2> QED
    BY <1>6, <2>2, <2>3, <2>4 DEF ensure_segment
<1>7. CASE create_segment
  <2>1. CASE NextSequence \in names
    BY <1>1, <1>3, <1>7, <2>1 DEF create_segment, Throw, Idle
  <2>2. CASE NextSequence \notin names
    BY <1>7, <2>2, PowerCreate
  <2> QED
    BY <2>1, <2>2
<1>8. CASE segment_created
  BY <1>0, <1>3, <1>8 DEF segment_created
<1>9. CASE write_record
  BY <1>9, PowerWrite
<1>10. CASE append_returns
  <2>1. /\ op.stage = "record" /\ op'.stage = "idle" /\ mirror.active
        /\ names' = names /\ durableNames' = names'
        /\ files' = files \/ files' = Synchronized
    <3>1. op.stage = "record" /\ op.done = Len(op.entries) /\ op.entries # <<>>
      BY <1>10 DEF append_returns, OpInv, Appending
    <3>2. op.done # 0
      BY <1>0, <3>1
    <3> QED
      BY <1>1, <1>10, <3>1, <3>2 DEF append_returns, Idle, OpInv
  <2>2. CASE files' = files
    BY <1>3, <2>1, <2>2
  <2>3. CASE files' = Synchronized
    <3>1. Active \in names
      BY <2>1 DEF OpInv
    <3> QED
      BY <1>4, <2>1, <2>3, <3>1, PowerQuiet
  <2> QED
    BY <2>1, <2>2, <2>3
<1>11. CASE recover \/ Open \/ truncation_returns
  <2>1. /\ names' = names /\ op'.stage = "idle" /\ files' = Repaired
        /\ op.stage \in {"idle", "remove"} /\ durableNames' = durableNames
    BY <1>0, <1>11 DEF recover, Open, truncation_returns, recover_locked, RecoverySucceeds,
                       OpInv, Idle
  <2> QED
    BY <1>1, <1>3, <2>1
<1>12. ASSUME NEW index, truncate_through(index)
       PROVE  PowerInv'
  <2>1. /\ names' = names /\ op.stage = "idle" /\ files' = Repaired
        /\ durableNames' = durableNames
    BY <1>0, <1>12 DEF truncate_through, RecoverySucceeds, Idle
  <2>2. CASE UNCHANGED op
    BY <1>1, <1>3, <2>1, <2>2
  <2>3. CASE op' = [Idle EXCEPT !.stage = "remove",
                                !.removals = Removals(Recovered(Shown).segments, index)]
    <3>1. op'.stage = "remove"
      BY <2>3 DEF Idle
    <3> QED
      BY <1>1, <1>3, <2>1, <3>1
  <2> QED
    BY <1>12, <2>2, <2>3 DEF truncate_through
<1>13. CASE remove_specific
  BY <1>13, PowerRemove
<1>14. CASE removal_synchronized
  <2>1. /\ op'.stage = "remove" /\ names' = names /\ durableNames' = names'
        /\ files' = [n \in names |-> files[n]]
    BY <1>0, <1>14 DEF removal_synchronized, Shown, Part
  <2>2. SealedSynced(files', names')
    BY <1>1, <2>1 DEF SealedSynced
  <2> QED
    BY <2>1, <2>2, PowerQuiet
<1>15. CASE PowerLoss
  BY <1>15, PowerLost
<1>16. ~ (append_fails \/ truncation_fails \/ KillProcess)
  BY Zenon, <1>0 DEF append_fails, truncation_fails, KillProcess
<1> QED
  BY Zenon, <1>2, <1>5, <1>6, <1>7, <1>8, <1>9, <1>10, <1>11, <1>12, <1>13, <1>14, <1>15, <1>16
     DEF Next, LogOperation, Truncation

-----------------------------------------------------------------------------
(* The acknowledged entries.                                               *)

\* A step that keeps a segment keeps its records.
LEMMA KeptStays ==
    ASSUME Inv, TypeOK', [Next]_vars, ~ PowerLoss, NEW n \in SafeNames, n \in SafeNames',
           NEW i \in DOMAIN files[n].records, i <= SafeLength(files[n])
    PROVE  /\ i \in DOMAIN files'[n].records /\ files'[n].records[i] = files[n].records[i]
           /\ i <= SafeLength(files[n])'
<1>1. /\ TypeOK /\ OpInv /\ n \in names /\ n \in names' /\ faults' = faults
  BY SnapshotStep DEF Inv, SafeNames
<1>2. Extends(files'[n], files[n]) /\ n \in DOMAIN files /\ n \in DOMAIN files'
  BY Zenon, <1>1, RecordsKept DEF TypeOK, FilesOK
<1>3. i \in DOMAIN files'[n].records /\ files'[n].records[i] = files[n].records[i]
  BY <1>2 DEF Extends
<1>4. /\ files'[n] \in File /\ i \in Nat /\ files[n].synced \in Nat
  BY <1>1, <1>2, FileFacts DEF TypeOK, FilesOK
<1>5. /\ Len(files'[n].records) \in Nat /\ files'[n].synced \in Nat
      /\ DOMAIN files'[n].records = 1..Len(files'[n].records)
  BY <1>4, FileFields
<1>6. CASE Power
  <2>1. files[n].synced <= Len(files[n].records)
    BY <1>1, <1>6 DEF Inv, PowerInv, SealedSynced
  <2>2. files[n].synced <= files'[n].synced
    BY <1>2, <2>1 DEF Extends
  <2>3. i <= files[n].synced
    BY <1>6 DEF SafeLength
  <2>4. i <= files'[n].synced
    BY <1>4, <1>5, <2>2, <2>3
  <2> QED
    BY <1>1, <1>3, <1>6, <2>4 DEF SafeLength, Power
<1>7. CASE ~ Power
  <2>1. i <= Len(files'[n].records)
    BY <1>3, <1>5
  <2> QED
    BY <1>1, <1>3, <1>7, <2>1 DEF SafeLength, Power
<1> QED
  BY <1>6, <1>7

\* Only remove_specific takes a segment out of the directory, the one whose
\* records a snapshot covers.
LEMMA SafeNamesStep ==
    ASSUME Inv, [Next]_vars, ~ PowerLoss, NEW n \in SafeNames
    PROVE  \/ n \in SafeNames'
           \/ \A i \in DOMAIN files[n].records : Reached(files[n].records[i].index)
<1> USE DEF vars, walVars
<1>0. TypeOK /\ RemovalsCovered /\ n \in names /\ faults' = faults
  BY SnapshotStep DEF Inv, SafeNames
<1>1. CASE remove_specific
  BY <1>0, <1>1 DEF remove_specific, RemovalsCovered, SafeNames, Power
<1>2. CASE ~ remove_specific
  <2>1. names \subseteq names' /\ (durableNames' = durableNames \/ durableNames' = names)
    BY Zenon, <1>2 DEF Next, LogOperation, Truncation, Publication, append, ensure_segment,
         create_segment, segment_created, write_record, append_returns, append_fails, recover,
         truncate_through, removal_synchronized, truncation_returns,
         truncation_fails, publish, publish_links, publish_returns, publish_fails,
         KillProcess, Open
  <2> QED
    BY Zenon, <1>0, <2>1 DEF SafeNames, Power
<1> QED
  BY <1>1, <1>2

\* The entries of an append that returns.
LEMMA ReturnedKept ==
    ASSUME Inv, TypeOK', append_returns, op.durability = "synchronize",
           NEW e \in Elements(op.entries)
    PROVE  Kept(e)'
<1>0. TypeOK /\ OpInv /\ WrittenShown
  BY DEF Inv
<1>1. /\ op.stage = "record" /\ op.done = Len(op.entries) /\ op.entries # <<>>
      /\ op.entries \in Seq(LogRecord) /\ op.done \in Nat
  BY Zenon, <1>0 DEF append_returns, OpInv, Appending, TypeOK, OpOK
<1>2. op.done # 0 /\ DOMAIN op.entries = 1..op.done
  BY <1>1
<1>3. Active \in names /\ files' = Synchronized /\ names' = names
      /\ durableNames' = durableNames /\ faults' = faults
  BY <1>0, <1>1, <1>2 DEF append_returns, OpInv
<1>4. PICK n \in names, j \in Nat : j \in DOMAIN files[n].records /\ files[n].records[j] = e
  <2>1. PICK i \in 1..op.done : e = op.entries[i]
    BY <1>2 DEF Elements
  <2>2. PICK n \in names : \E j \in DOMAIN files[n].records : files[n].records[j] = e
    BY <1>0, <2>1 DEF WrittenShown
  <2>3. n \in DOMAIN files
    BY <1>0 DEF TypeOK, FilesOK
  <2>4. DOMAIN files[n].records \subseteq Nat
    BY <1>0, <2>3, FileFacts
  <2> QED
    BY <2>2, <2>4
<1>5. files'[n].records = files[n].records
  BY <1>0, <1>3, SynchronizedContent DEF SameContent
<1>6. /\ DOMAIN files[n].records = 1..Len(files[n].records)
      /\ Len(files[n].records) \in Nat
  BY <1>0, FileFacts DEF TypeOK, FilesOK
<1>7. j <= Len(files'[n].records)
  BY <1>4, <1>5, <1>6
<1>8. CASE Power
  <2>1. PowerInv /\ LogInv
    BY <1>8 DEF Inv, Power, ReliableReads, TypeOK
  <2>2. n \in SafeNames'
    BY <1>1, <1>3, <2>1 DEF PowerInv, SafeNames
  <2>3. Active = Final(names)
    BY <1>0, <1>1, <2>1, ActiveFinal
  <2>4. n # Active => n + 1 \in names
    BY <1>0, <2>1, <2>3, ChainEnd DEF LogInv, TypeOK, FilesOK, Number
  <2>5. files'[n].synced = Len(files'[n].records)
    <3>1. CASE n = Active
      BY <1>0, <1>3, <1>5, <3>1, SynchronizedContent
    <3>2. CASE n # Active
      <4>1. files'[n] = files[n]
        BY <1>0, <1>3, <3>2, SynchronizedContent
      <4>2. files[n].synced = Len(files[n].records)
        BY <2>1, <2>4, <3>2 DEF PowerInv, SealedSynced
      <4> QED
        BY <4>1, <4>2
    <3> QED
      BY <3>1, <3>2
  <2>6. j <= SafeLength(files[n])'
    BY <1>7, <2>5 DEF SafeLength
  <2> QED
    BY <1>4, <1>5, <2>2, <2>6 DEF Kept
<1>9. CASE ~ Power
  <2>1. n \in SafeNames' /\ j <= SafeLength(files[n])'
    BY <1>3, <1>7, <1>9 DEF SafeNames, SafeLength, Power
  <2> QED
    BY <1>4, <1>5, <2>1 DEF Kept
<1> QED
  BY <1>8, <1>9

\* No step loses an acknowledged entry.
LEMMA AckedStep ==
    ASSUME Inv, TypeOK', [Next]_vars
    PROVE  AckedKept'
<1>0. TypeOK /\ SnapshotInv /\ AckedKept /\ faults' = faults
  BY SnapshotStep DEF Inv
<1>1. ASSUME NEW e \in acked
      PROVE  Kept(e)'
  <2>1. CASE Reached(e.index)
    BY <1>0, <2>1, ReachedStays DEF Kept, Reached
  <2>2. CASE ~ Reached(e.index)
    <3>1. PICK n \in SafeNames : \E i \in DOMAIN files[n].records :
              i <= SafeLength(files[n]) /\ files[n].records[i] = e
      BY Zenon, <1>0, <2>2 DEF AckedKept, Kept
    <3>2. PICK i \in DOMAIN files[n].records : i <= SafeLength(files[n]) /\ files[n].records[i] = e
      BY Zenon, <3>1
    <3>3. CASE PowerLoss
      <4>1. Power /\ PowerInv
        BY Zenon, <3>3 DEF PowerLoss, Power, Inv
      <4>2. n \in names' /\ n \in SafeNames' /\ n \in names
        BY <1>0, <3>3, <4>1 DEF PowerLoss, Surviving, SafeNames, Power
      <4>3. /\ DOMAIN files'[n].records = 1..Len(files'[n].records)
            /\ files[n].synced <= Len(files'[n].records)
            /\ Len(files'[n].records) \in Nat
            /\ files'[n].synced = Len(files'[n].records)
            /\ \A k \in DOMAIN files'[n].records : files'[n].records[k] = files[n].records[k]
        BY Zenon, <1>0, <3>3, <4>1, <4>2, PowerCut
      <4>4. i \in Nat /\ i # 0 /\ files[n].synced \in Nat /\ i <= files[n].synced
        BY <1>0, <3>2, <4>1, <4>2, FileFacts DEF SafeLength, TypeOK, FilesOK
      <4>5. i \in DOMAIN files'[n].records /\ i <= files'[n].synced
        BY <4>3, <4>4
      <4>6. i <= SafeLength(files[n])'
        BY <1>0, <4>1, <4>5 DEF SafeLength, Power
      <4> QED
        BY Zenon, <3>2, <4>2, <4>3, <4>5, <4>6 DEF Kept
    <3>4. CASE ~ PowerLoss
      <4>1. n \in SafeNames'
        BY Zenon, <2>2, <3>2, <3>4, SafeNamesStep
      <4> QED
        BY <3>2, <3>4, <4>1, KeptStays DEF Kept
    <3> QED
      BY Zenon, <3>3, <3>4
  <2> QED
    BY <2>1, <2>2
<1>2. CASE acked' = acked
  BY Zenon, <1>1, <1>2 DEF AckedKept
<1>3. CASE append_returns /\ op.durability = "synchronize"
  BY Zenon, <1>1, <1>3, ReturnedKept DEF append_returns, AckedKept
<1>4. acked' = acked \/ (append_returns /\ op.durability = "synchronize")
  BY Zenon DEF Next, LogOperation, Truncation, Publication, append, ensure_segment, create_segment,
         segment_created, write_record, append_returns, append_fails, recover,
         truncate_through, remove_specific, removal_synchronized, truncation_returns,
         truncation_fails, publish, publish_links, publish_returns, publish_fails,
         KillProcess, PowerLoss, Crash, Open, vars
<1> QED
  BY Zenon, <1>2, <1>3, <1>4

-----------------------------------------------------------------------------
(* The theorems.                                                           *)

\* A power loss is not combined with another fault: a process killed between
\* the rename and the directory fsync of create_segment leaves a directory
\* that nothing synchronises afterwards.  With {"kill", "power"} TLC finds
\* ReopenSucceeds, AcknowledgedSurvive, TruncationCovered and
\* AcknowledgedRetained violated.
SeparateFaults == \A f \in FaultModels : "power" \in f => f = {"power"}

\* The invariant holds of an empty log.
LEMMA InvInit ==
    ASSUME SeparateFaults, Init
    PROVE  Inv
<1> USE DEF Init
<1>1. TypeOK
  <2>1. FilesOK /\ MirrorOK(mirror)
    BY Zenon, ForgottenOK DEF FilesOK
  <2>2. OpOK
    BY DEF OpOK, Idle, Stages
  <2>3. /\ publishing \in [index : Nat, stage : {"idle", "link", "linked"}]
        /\ publishing.stage = "idle"
    BY DEF NotPublishing
  <2> QED
    BY Zenon, <2>1, <2>2, <2>3 DEF SeparateFaults, TypeOK
<1>2. SnapshotInv
  BY DEF SnapshotInv, NotPublishing
<1>3. OpInv
  BY DEF OpInv, HasFinal, Idle, Forgotten, Appending, Truncating
<1>4. WrittenShown /\ RemovalsCovered /\ AckedKept
  BY DEF WrittenShown, RemovalsCovered, AckedKept, Idle
<1>5. Chain(files, {}) /\ StartCovered(files, {}, SafeSnapshots)
  BY Zenon DEF Chain, StartCovered, HasFirst, HasFinal, Consecutive
<1>6. Mirrors(mirror, files, {}) /\ ~ mirror.active
  BY Zenon DEF Mirrors, Forgotten
<1>7. LogInv
  BY Zenon, <1>5, <1>6 DEF LogInv, MirrorInv, BatchInv, Idle, Appending
<1>8. PowerInv
  BY Zenon, <1>5 DEF PowerInv, SealedSynced, Idle
<1> QED
  BY Zenon, <1>1, <1>2, <1>3, <1>4, <1>7, <1>8 DEF Inv

\* Every step keeps it.
LEMMA InvStep ==
    ASSUME Inv, [Next]_vars
    PROVE  Inv'
<1>1. /\ TypeOK /\ SnapshotInv /\ OpInv /\ WrittenShown /\ RemovalsCovered
      /\ ReliableReads => LogInv
      /\ Power => PowerInv
      /\ AckedKept
  BY DEF Inv
<1>2. TypeOK'
  BY <1>1, TypeStep
<1>3. SnapshotInv' /\ faults' = faults
  BY Zenon, <1>1, SnapshotStep
<1>4. OpInv' /\ WrittenShown' /\ RemovalsCovered'
  BY <1>1, <1>2, OpStep, WrittenStep, RemovalsStep
<1>5. ReliableReads => LogInv'
  BY <1>2, LogStep
<1>6. Power => ReliableReads
  BY <1>1 DEF Power, ReliableReads, TypeOK
<1>7. Power => PowerInv'
  BY <1>1, <1>2, <1>5, <1>6, PowerStep
<1>8. AckedKept'
  BY <1>2, AckedStep
<1> QED
  BY <1>2, <1>3, <1>4, <1>5, <1>7, <1>8 DEF Inv, ReliableReads, Power

\* What the invariant says of the files, the members and the acknowledged
\* entries.
LEMMA InvImplies ==
    ASSUME Inv
    PROVE  /\ ReopenSucceeds /\ AcknowledgedSurvive /\ MembersMatchFiles
           /\ TruncationCovered /\ AcknowledgedRetained
<1>1. /\ TypeOK /\ OpInv /\ (ReliableReads => LogInv)
      /\ AckedKept /\ SafeSnapshots \subseteq snapshots
  BY DEF Inv, SnapshotInv, SafeSnapshots
<1>2. ReliableReads => Recoverable(Shown)
  BY Zenon, <1>1, ChainRecoverable DEF LogInv, Shown
<1>3. ASSUME NEW e \in acked
      PROVE  \/ Covered(e.index)
             \/ \E n \in names : e \in Elements(files[n].records)
  <2>1. Reached(e.index) => Covered(e.index)
    BY <1>1 DEF Reached, Covered
  <2>2. Kept(e) /\ SafeNames \subseteq names
    BY Zenon, <1>1 DEF AckedKept, SafeNames
  <2> QED
    BY Zenon, <2>1, <2>2 DEF Kept, Elements
<1>4. AcknowledgedRetained
  BY <1>3 DEF AcknowledgedRetained
<1>5. AcknowledgedSurvive
  BY <1>2, <1>3 DEF AcknowledgedSurvive, ReturnedAppendsSurvive, Replayed
<1>6. ReopenSucceeds
  BY Zenon, <1>2 DEF ReopenSucceeds
<1>7. MembersMatchFiles
  <2> SUFFICES ASSUME ReliableReads, open, healthy, op = Idle
               PROVE  Recoverable(Shown) /\ mirror = Recovered(Shown)
    BY DEF MembersMatchFiles
  <2>1. Chain(files, names) /\ Mirrors(mirror, files, names) /\ (mirror.active <=> names # {})
    BY Zenon, <1>1 DEF LogInv, MirrorInv, Idle
  <2> QED
    BY Zenon, <1>1, <1>2, <2>1, MirrorsRecovered
<1>8. TruncationCovered
  BY Zenon, <1>1 DEF TruncationCovered, LogInv, StartCovered, Covered
<1> QED
  BY <1>4, <1>5, <1>6, <1>7, <1>8

\* The inductive invariant: segments that a recovery accepts, members that
\* mirror them, and acknowledged entries that every later fault spares.
THEOREM StorageInvariant ==
    ASSUME SeparateFaults
    PROVE  Spec => []Inv
  BY InvInit, InvStep, PTL DEF Spec

\* Whatever append and truncate_through leave on the disk, the constructor's
\* recover_locked accepts it, after power losses when they are the only
\* faults, and after failing calls and process deaths when no power loss
\* occurs; no recovery throws part-way.
THEOREM ReopenAlwaysSucceeds ==
    ASSUME SeparateFaults
    PROVE  Spec => []ReopenSucceeds
  BY StorageInvariant, InvImplies, PTL

\* Under the same restriction, the entries of an append that returned with
\* Durability::synchronize are lost neither by power losses alone nor by any
\* mix of failing calls and process deaths.  Nothing is said of a process
\* death followed by a power loss, nor of recoveries that throw.
THEOREM AcknowledgedAlwaysSurvive ==
    ASSUME SeparateFaults
    PROVE  Spec => []AcknowledgedSurvive
  BY StorageInvariant, InvImplies, PTL

\* Under the same restriction, the members that append and truncate_through
\* maintain are the members that recover_locked rebuilds.
THEOREM MembersAlwaysMatch ==
    ASSUME SeparateFaults
    PROVE  Spec => []MembersMatchFiles
  BY StorageInvariant, InvImplies, PTL

\* Under the same restriction, truncate_through removes nothing that a
\* durable snapshot does not cover.
THEOREM TruncationAlwaysCovered ==
    ASSUME SeparateFaults
    PROVE  Spec => []TruncationCovered
  BY StorageInvariant, InvImplies, PTL

\* Even a recover_locked that throws part-way leads no later call to erase
\* an acknowledged entry that no snapshot covers.  Power losses are again
\* taken without any other fault.
THEOREM AcknowledgedNeverErased ==
    ASSUME SeparateFaults
    PROVE  Spec => []AcknowledgedRetained
  BY StorageInvariant, InvImplies, PTL
=============================================================================
