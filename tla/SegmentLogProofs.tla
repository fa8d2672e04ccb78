-------------------------- MODULE SegmentLogProofs --------------------------
(***************************************************************************)
(* Proofs about DurableStorage, first part: the inductive invariant, and   *)
(* what each step does to the segment files, the operation in progress,    *)
(* the snapshots, and the chain of segments that recovery reads back.      *)
(***************************************************************************)
EXTENDS DurableStorage, TLAPS

\* Indices and segment numbers start at 1.
Number == Nat \ {0}

\* A record, as append encodes it.
LogRecord == [index : Number, value : Value]

\* A segment file: its header, whole records, how many are synchronised, a torn tail.
File == [first_index : Number, records : Seq(LogRecord), synced : Nat, torn : BOOLEAN]

\* Where append and truncate_through can be.
Stages == {"idle", "record", "write", "create", "created", "remove", "removed"}

\* What the directory shows is on the disk.
FilesOK ==
    /\ names \subseteq DOMAIN files
    /\ DOMAIN files \subseteq Number
    /\ files = [n \in DOMAIN files |-> files[n]]
    /\ \A n \in DOMAIN files : files[n] \in File

\* The members of the log object.
MirrorOK(m) ==
    /\ m = [segments |-> m.segments, active |-> m.active, last_index |-> m.last_index,
            expected |-> m.expected, size |-> m.size, count |-> m.count]
    /\ m.segments = [n \in DOMAIN m.segments |-> m.segments[n]]
    /\ DOMAIN m.segments \subseteq Number
    /\ m.active \in BOOLEAN /\ m.expected \in Nat /\ m.size \in Nat

\* The running operation.
OpOK ==
    op \in [stage : Stages, entries : Seq(LogRecord), done : Nat,
           durability : {"flush", "synchronize"}, removals : SUBSET Number]

\* Types, and the restriction on fault models of SeparateFaults.
TypeOK ==
    /\ faults \in FaultModels /\ ("power" \in faults => faults = {"power"})
    /\ open \in BOOLEAN /\ healthy \in BOOLEAN
    /\ durableNames \subseteq Number
    /\ FilesOK /\ MirrorOK(mirror) /\ OpOK
    /\ snapshots \subseteq Number /\ durableSnapshots \subseteq Number
    /\ publishing \in [index : Nat, stage : {"idle", "link", "linked"}]
    /\ publishing.stage = "link" => publishing.index # 0
    /\ acked \subseteq LogRecord

\* Whether this behaviour may lose power; if so, nothing else goes wrong.
Power == "power" \in faults

\* What a crash of this behaviour cannot take: snapshots,
SafeSnapshots == IF Power THEN durableSnapshots ELSE snapshots
\* segments,
SafeNames == IF Power THEN names \cap durableNames ELSE names
\* and records of a segment.
SafeLength(file) == IF Power THEN file.synced ELSE Len(file.records)

\* A snapshot that no crash can take reaches this index.
Reached(index) == \E s \in SafeSnapshots : index <= s

\* No crash can take this entry.
Kept(e) ==
    \/ Reached(e.index)
    \/ \E n \in SafeNames : \E i \in DOMAIN files[n].records :
          i <= SafeLength(files[n]) /\ files[n].records[i] = e

\* This is what an acknowledgement promises.
AckedKept == \A e \in acked : Kept(e)

\* The numbers have a smallest one, or there are none.
HasFirst(S) == S = {} \/ \E l \in S : \A m \in S : l <= m
\* The numbers have a largest one, or there are none.
HasFinal(S) == S = {} \/ \E h \in S : \A m \in S : m <= h

\* Snapshots hold acknowledged entries, and only the one being published may be unsafe.
SnapshotInv ==
    /\ durableSnapshots \subseteq snapshots
    /\ publishing.stage = "idle" => publishing = NotPublishing
    /\ Power /\ publishing.stage # "linked" => snapshots = durableSnapshots
    /\ \A s \in snapshots : \E e \in acked : e.index = s
    /\ publishing.stage = "link" => \E e \in acked : e.index = publishing.index

\* What each stage of append and truncate_through knows.
OpInv ==
    /\ HasFinal(names) /\ HasFinal(DOMAIN mirror.segments)
    /\ op.done <= Len(op.entries)
    /\ op.stage = "idle" => op = Idle
    /\ op.stage # "idle" => open /\ healthy
    /\ Appending => op.entries # <<>> /\ op.removals = {}
    /\ op.stage \in {"create", "created", "write"} => op.done < Len(op.entries)
    /\ op.stage = "write" => mirror.active
    /\ op.stage = "record" /\ op.done # 0 => mirror.active
    /\ op.stage \in {"create", "created", "remove", "removed"} => ~ mirror.active
    /\ op.stage = "created" => NextSequence \in names
    /\ mirror.active => DOMAIN mirror.segments # {} /\ Active \in names
    /\ ~ open => ~ mirror.active
    /\ Truncating => op.done = 0

\* The part of the batch that is written is in the files.
WrittenShown ==
    \A i \in 1..op.done : \E n \in names : \E j \in DOMAIN files[n].records :
        files[n].records[j] = op.entries[i]

\* Segments to remove hold covered entries, and are never the final one.
RemovalsCovered ==
    \A n \in op.removals :
        /\ n \in names /\ \E m \in names : n < m
        /\ \A i \in DOMAIN files[n].records : Reached(files[n].records[i].index)

\* The members m are those of a recovery from the segments S of the files fs.
Mirrors(m, fs, S) ==
    /\ DOMAIN m.segments = S
    /\ \A n \in S : m.segments[n] = Maximum(fs[n])
    /\ S = {} => m.expected = 0 /\ m.last_index = 0 /\ m.count = 0 /\ m.size = 0
    /\ S # {} => /\ m.expected = End(fs[Final(S)])
                 /\ m.size = Len(fs[Final(S)].records)
                 /\ m.count = m.expected - fs[First(S)].first_index
                 /\ m.last_index = IF m.expected = fs[First(S)].first_index
                                   THEN 0 ELSE m.expected - 1

\* A segment without predecessor starts at 1 or right after a covered index.
StartCovered(fs, S, ss) ==
    \A n \in S : \/ fs[n].first_index = 1 \/ n - 1 \in S
                \/ \E s \in ss : fs[n].first_index - 1 <= s

\* What a healthy object knows of the files, stage by stage.
MirrorInv ==
    /\ open /\ healthy => \A n \in names : ~ files[n].torn
    /\ open /\ healthy /\ op.stage \in {"idle", "record", "write"} =>
          Mirrors(mirror, files, names) /\ (mirror.active <=> names # {})
    /\ op.stage = "create" =>
          Mirrors(mirror, files, names) /\ \A n \in names : files[n].records # <<>>
    /\ op.stage = "created" =>
          /\ Mirrors(mirror, files, names \ {NextSequence})
          /\ \A n \in names \ {NextSequence} : files[n].records # <<>>
          /\ files[NextSequence] = NewSegment

\* The batch being appended continues the log and fits.
BatchInv ==
    Appending =>
        /\ \A i \in DOMAIN op.entries : op.entries[i].index = op.entries[1].index + i - 1
        /\ mirror.count + Len(op.entries) <= MaxRecords + op.done
        /\ op.done < Len(op.entries) =>
              IF op.stage # "write" /\ mirror.expected = 0
              THEN Entry.index = 1 \/ Reached(Entry.index - 1)
              ELSE Entry.index = mirror.expected

\* These segments are a log that recovery accepts, up to a torn final one.
Chain(fs, S) ==
    /\ S \subseteq DOMAIN fs
    /\ HasFirst(S) /\ HasFinal(S) /\ Consecutive(S)
    /\ \A n \in S : \A i \in DOMAIN fs[n].records :
          fs[n].records[i].index = fs[n].first_index + i - 1
    /\ \A n \in S : n + 1 \in S =>
          fs[n + 1].first_index = End(fs[n]) /\ ~ fs[n].torn /\ fs[n].records # <<>>
    /\ \A m, n \in S : End(fs[n]) <= fs[m].first_index + MaxRecords
    /\ \A m, n \in S : m < n => End(fs[m]) <= fs[n].first_index

\* The log as shown, while no recovery throws.
LogInv ==
    /\ Chain(files, names)
    /\ StartCovered(files, names, SafeSnapshots)
    /\ MirrorInv
    /\ BatchInv
    /\ \A n \in op.removals, m \in names : m < n => m \in op.removals

\* Every segment but the final one is synchronised.
SealedSynced(fs, S) ==
    \A n \in S : /\ fs[n].synced <= Len(fs[n].records)
                 /\ n + 1 \in S => fs[n].synced = Len(fs[n].records)

\* The log as a power loss leaves it.
PowerInv ==
    /\ op.stage \notin {"created", "removed"} => durableNames = names
    /\ op.stage = "created" => durableNames = names \ {NextSequence}
    /\ op.stage = "removed" =>
          \E x \in DOMAIN files :
             /\ x \notin names /\ x + 1 \in names /\ durableNames = names \cup {x}
             /\ \A m \in names : x < m
             /\ \A i \in DOMAIN files[x].records : Reached(files[x].records[i].index)
    /\ Chain(files, durableNames)
    /\ StartCovered(files, durableNames, SafeSnapshots)
    /\ SealedSynced(files, names \cup durableNames)
    /\ op.stage = "create" => \A n \in names : files[n].synced = Len(files[n].records)

\* The inductive invariant.
Inv ==
    /\ TypeOK /\ SnapshotInv /\ OpInv /\ WrittenShown /\ RemovalsCovered
    /\ ReliableReads => LogInv
    /\ Power => PowerInv
    /\ AckedKept

-----------------------------------------------------------------------------
(* Numbers, and the first and the final member of a set of them.           *)

\* Facts of arithmetic, named for the provers that know none.
LEMMA AtMost == \A a, b \in Nat : a < b \/ a = b => a <= b
  OBVIOUS

\* At most is transitive.
LEMMA AtMostTrans == \A a, b, c \in Nat : a <= b /\ b <= c => a <= c
  OBVIOUS

\* A sum of numbers is a number.
LEMMA SumIsNat == \A a, b \in Nat : a + b \in Nat
  OBVIOUS

\* What is added to a number does not make it smaller.
LEMMA AtMostSum == \A a, b, c \in Nat : a <= b => a <= b + c
  OBVIOUS

\* The final member of a set of numbers that has one.
LEMMA FinalOf ==
    ASSUME NEW S \in SUBSET Nat, HasFinal(S), S # {}
    PROVE  Final(S) \in S /\ \A m \in S : m <= Final(S)
<1>1. \E h \in S : \A m \in S : m <= h
  BY Zenon DEF HasFinal
<1> QED
  BY <1>1, Zenon DEF Final

\* It is the only one.
LEMMA FinalIs ==
    ASSUME NEW S \in SUBSET Nat, NEW h \in S, \A m \in S : m <= h
    PROVE  Final(S) = h
<1>1. Final(S) \in S /\ \A m \in S : m <= Final(S)
  BY FinalOf DEF HasFinal
<1>2. Final(S) \in Nat /\ h \in Nat /\ Final(S) <= h /\ h <= Final(S)
  BY Zenon, <1>1
<1> QED
  BY <1>2

\* The first member of a set of numbers that has one.
LEMMA FirstOf ==
    ASSUME NEW S \in SUBSET Nat, HasFirst(S), S # {}
    PROVE  First(S) \in S /\ \A m \in S : First(S) <= m
<1>1. \E h \in S : \A m \in S : h <= m
  BY Zenon DEF HasFirst
<1> QED
  BY <1>1, Zenon DEF First

\* It is the only one.
LEMMA FirstIs ==
    ASSUME NEW S \in SUBSET Nat, NEW h \in S, \A m \in S : h <= m
    PROVE  First(S) = h
<1>1. First(S) \in S /\ \A m \in S : First(S) <= m
  BY FirstOf DEF HasFirst
<1>2. First(S) \in Nat /\ h \in Nat /\ First(S) <= h /\ h <= First(S)
  BY Zenon, <1>1
<1> QED
  BY <1>2

\* What is known of every segment file.
LEMMA FileFacts ==
    ASSUME TypeOK, NEW n \in DOMAIN files
    PROVE  /\ n \in Nat /\ n # 0
           /\ files[n].first_index \in Nat /\ files[n].first_index # 0
           /\ files[n].records \in Seq(LogRecord)
           /\ Len(files[n].records) \in Nat
           /\ DOMAIN files[n].records = 1..Len(files[n].records)
           /\ files[n].records = <<>> <=> Len(files[n].records) = 0
           /\ files[n].synced \in Nat /\ files[n].torn \in BOOLEAN
           /\ End(files[n]) = files[n].first_index + Len(files[n].records)
<1>1. n \in Nat /\ n # 0 /\ files[n] \in File
  BY DEF TypeOK, FilesOK, Number
<1> QED
  BY <1>1 DEF File, Number, End

-----------------------------------------------------------------------------
(* Types.                                                                  *)

\* The members of an object that knows no segment.
LEMMA ForgottenOK == MirrorOK(Forgotten)
  BY DEF MirrorOK, Forgotten, Number

\* The members after a part of the segments has been read.
LEMMA MirrorOfOK ==
    ASSUME TypeOK, NEW S \in SUBSET names
    PROVE  MirrorOK(MirrorOf(Part(S)))
<1>1. DOMAIN Part(S) = S /\ S \subseteq Number
  BY DEF Part, TypeOK, FilesOK
<1>2. CASE S = {}
  BY <1>1, <1>2, ForgottenOK DEF MirrorOf
<1>3. CASE S # {}
  BY Zenon, <1>1, <1>3 DEF MirrorOf, MirrorOK, Forgotten
<1> QED
  BY <1>2, <1>3

\* What the segments leave open of the members.
LEMMA MirrorOfShape ==
    ASSUME NEW shown
    PROVE  \E segments, last_index, count :
              MirrorOf(shown) = [segments |-> segments, active |-> FALSE,
                                 last_index |-> last_index,
                                 expected |-> 0, size |-> 0, count |-> count]
<1>1. CASE DOMAIN shown = {}
  BY Zenon, <1>1 DEF MirrorOf, Forgotten
<1>2. CASE DOMAIN shown # {}
  <2> DEFINE segments == [n \in DOMAIN shown |-> Maximum(shown[n])]
             first == shown[First(DOMAIN shown)].first_index
             end == End(shown[Final(DOMAIN shown)])
             last_index == IF end = first THEN 0 ELSE end - 1
             count == end - first
  <2>1. MirrorOf(shown) = [Forgotten EXCEPT !.segments = segments,
                             !.last_index = last_index, !.count = count]
    BY Zenon, <1>2 DEF MirrorOf
  <2> HIDE DEF segments, last_index, count
  <2>2. MirrorOf(shown) = [segments |-> segments, active |-> FALSE, last_index |-> last_index,
                            expected |-> 0, size |-> 0, count |-> count]
    BY <2>1 DEF Forgotten
  <2> QED
    BY Zenon, <2>2
<1> QED
  BY <1>1, <1>2

\* A recovery that throws knows the segments it has read and none of them as
\* active, whatever it has parsed of the next one.
LEMMA ThrownMirror ==
    ASSUME TypeOK, RecoveryThrows
    PROVE  \E last \in names \cup {0} :
              LET known == MirrorOf(Part({n \in names : n <= last}))
              IN  \/ mirror' = known
                  \/ \E last_index, count :
                       mirror' = [segments |-> known.segments, active |-> FALSE,
                                  last_index |-> last_index,
                                  expected |-> 0, size |-> 0, count |-> count]
<1> DEFINE read(last) == {n \in names : n <= last}
<1>1. PICK last \in names \cup {0} :
         \/ mirror' = MirrorOf(Part(read(last)))
         \/ \E k \in 1..Len(files[First(names \ read(last))].records) :
              mirror' = [MirrorOf(Parsed(read(last), k)) EXCEPT
                            !.segments = MirrorOf(Part(read(last))).segments]
  BY Zenon DEF RecoveryThrows
<1> DEFINE known == MirrorOf(Part(read(last)))
<1>2. CASE mirror' = known
  BY Zenon, <1>2
<1>3. ASSUME NEW k,
             mirror' = [MirrorOf(Parsed(read(last), k)) EXCEPT !.segments = known.segments]
      PROVE  \E last_index, count :
                mirror' = [segments |-> known.segments, active |-> FALSE,
                           last_index |-> last_index,
                           expected |-> 0, size |-> 0, count |-> count]
  <2> DEFINE parsed == MirrorOf(Parsed(read(last), k))
  <2>1. PICK segments, last_index, count :
           parsed = [segments |-> segments, active |-> FALSE, last_index |-> last_index,
                     expected |-> 0, size |-> 0, count |-> count]
    BY Zenon, MirrorOfShape
  <2> HIDE DEF parsed, known
  <2>2. mirror' = [parsed EXCEPT !.segments = known.segments]
    BY Zenon, <1>3 DEF parsed
  <2>3. mirror' = [segments |-> known.segments, active |-> FALSE, last_index |-> last_index,
                   expected |-> 0, size |-> 0, count |-> count]
    BY <2>1, <2>2
  <2> QED
    BY Zenon, <2>3
<1> QED
  BY Zenon, <1>1, <1>2, <1>3

\* The members after all segments have been read.
LEMMA RecoveredOK ==
    ASSUME TypeOK, HasFinal(names)
    PROVE  MirrorOK(Recovered(Shown))
<1> DEFINE h == Final(names)
<1>1. DOMAIN Shown = names /\ Shown = Part(names)
  BY DEF Shown, Part
<1>2. CASE names = {}
  BY <1>1, <1>2, ForgottenOK DEF Recovered
<1>3. CASE names # {}
  <2>1. h \in names
    BY <1>3, FinalOf DEF TypeOK, FilesOK, Number
  <2>2. Shown[h] = files[h] /\ Len(files[h].records) \in Nat /\ End(files[h]) \in Nat
    BY <2>1, FileFacts DEF Shown, Part, TypeOK, FilesOK
  <2>3. MirrorOK(MirrorOf(Shown))
    BY <1>1, MirrorOfOK
  <2> HIDE DEF h
  <2>4. Recovered(Shown) = [MirrorOf(Shown) EXCEPT !.active = TRUE,
                              !.size = Len(Shown[h].records), !.expected = End(Shown[h])]
    BY <1>1, <1>3 DEF Recovered, h
  <2> QED
    BY Zenon, <2>2, <2>3, <2>4 DEF MirrorOK
<1> QED
  BY <1>2, <1>3

\* truncate_torn_suffix leaves well-formed segments.
LEMMA RepairedOK ==
    ASSUME TypeOK, names' = names, files' = Repaired
    PROVE  FilesOK'
<1>1. DOMAIN files' = DOMAIN files /\ files' = [n \in DOMAIN files |-> files'[n]]
  BY DEF Repaired
<1>2. ASSUME NEW n \in DOMAIN files
      PROVE  files'[n] \in File
  <2>1. files[n] \in File /\ Len(files[n].records) \in Nat
    BY FileFacts DEF TypeOK, FilesOK
  <2>2. Untorn(files[n]) \in File
    BY Zenon, <2>1 DEF Untorn, File
  <2> QED
    BY <2>1, <2>2 DEF Repaired
<1> QED
  BY <1>1, <1>2 DEF TypeOK, FilesOK

\* A recovery, whether it succeeds or throws.
LEMMA RecoveryOK ==
    ASSUME TypeOK, HasFinal(names), names' = names,
           RecoverySucceeds(Recovered(Shown)) \/ RecoveryThrows
    PROVE  FilesOK' /\ MirrorOK(mirror')
<1>1. CASE RecoverySucceeds(Recovered(Shown))
  BY <1>1, RecoveredOK, RepairedOK DEF RecoverySucceeds
<1>2. CASE RecoveryThrows
  <2>1. FilesOK'
    BY <1>2, RepairedOK DEF RecoveryThrows, TypeOK, FilesOK
  <2>2. MirrorOK(mirror')
    <3>1. PICK last \in names \cup {0} :
             LET known == MirrorOf(Part({n \in names : n <= last}))
             IN  \/ mirror' = known
                 \/ \E last_index, count :
                      mirror' = [segments |-> known.segments, active |-> FALSE,
                                 last_index |-> last_index,
                                 expected |-> 0, size |-> 0, count |-> count]
      BY Zenon, <1>2, ThrownMirror
    <3> DEFINE known == MirrorOf(Part({n \in names : n <= last}))
    <3>2. MirrorOK(known)
      BY MirrorOfOK
    <3> HIDE DEF known
    <3>3. \/ mirror' = known
          \/ \E last_index, count :
               mirror' = [segments |-> known.segments, active |-> FALSE,
                          last_index |-> last_index,
                          expected |-> 0, size |-> 0, count |-> count]
      BY Zenon, <3>1 DEF known
    <3>4. ASSUME NEW last_index, NEW count,
                 mirror' = [segments |-> known.segments, active |-> FALSE,
                            last_index |-> last_index,
                            expected |-> 0, size |-> 0, count |-> count]
          PROVE  MirrorOK(mirror')
      <4>1. /\ mirror'.segments = known.segments /\ mirror'.active = FALSE
            /\ mirror'.last_index = last_index /\ mirror'.expected = 0
            /\ mirror'.size = 0 /\ mirror'.count = count
        BY <3>4
      <4>2. 0 \in Nat
        OBVIOUS
      <4> QED
        BY Zenon, <3>2, <3>4, <4>1, <4>2 DEF MirrorOK
    <3> QED
      BY Zenon, <3>2, <3>3, <3>4
  <2> QED
    BY <2>1, <2>2
<1> QED
  BY <1>1, <1>2

\* The steps that change one segment file.
LEMMA OneFileOK ==
    ASSUME TypeOK, names' = names, NEW n \in DOMAIN files, NEW file \in File,
           files' = [files EXCEPT ![n] = file]
    PROVE  FilesOK'
<1>1. FilesOK
  BY DEF TypeOK
<1> QED
  BY Zenon, <1>1 DEF FilesOK

\* A fsync of the active segment.
LEMMA SynchronizedOK ==
    ASSUME TypeOK, names' = names, Active \in names, files' = Synchronized
    PROVE  FilesOK'
<1> DEFINE file == [files[Active] EXCEPT !.synced = Len(files[Active].records)]
<1>1. Active \in DOMAIN files /\ files[Active] \in File /\ Len(files[Active].records) \in Nat
  BY FileFacts DEF TypeOK, FilesOK
<1>2. file \in File
  BY <1>1 DEF File
<1>3. files' = [files EXCEPT ![Active] = file]
  BY DEF Synchronized
<1> HIDE DEF file
<1> QED
  BY Zenon, <1>1, <1>2, <1>3, OneFileOK

\* A write_all that stops half-way.
LEMMA MaybeTornOK ==
    ASSUME TypeOK, OpInv, names' = names, MaybeTorn
    PROVE  FilesOK'
<1>1. CASE UNCHANGED files
  BY <1>1 DEF TypeOK, FilesOK
<1>2. CASE op.stage = "write" /\ files' = [files EXCEPT ![Active].torn = TRUE]
  <2> DEFINE file == [files[Active] EXCEPT !.torn = TRUE]
  <2>1. Active \in DOMAIN files /\ files[Active] \in File
    BY <1>2 DEF TypeOK, FilesOK, OpInv
  <2>2. file \in File
    BY Zenon, <2>1 DEF File
  <2>3. files' = [files EXCEPT ![Active] = file]
    BY <1>2
  <2> HIDE DEF file
  <2> QED
    BY Zenon, <2>1, <2>2, <2>3, OneFileOK
<1> QED
  BY <1>1, <1>2 DEF MaybeTorn

\* The entry that append writes next.
LEMMA EntryOK ==
    ASSUME TypeOK, OpInv, op.stage \in {"create", "created", "write"}
    PROVE  /\ Entry \in LogRecord /\ Entry = op.entries[op.done + 1]
           /\ op.done + 1 \in DOMAIN op.entries /\ Entry.index \in Number
<1>1. op.done \in Nat /\ op.entries \in Seq(LogRecord) /\ op.done < Len(op.entries)
  BY DEF TypeOK, OpOK, OpInv
<1>2. op.done + 1 \in DOMAIN op.entries
  BY <1>1
<1>3. Entry \in LogRecord
  BY <1>1, <1>2 DEF Entry
<1> QED
  BY <1>2, <1>3 DEF Entry, LogRecord

\* The number of a new segment is above every known one.
LEMMA NextSequenceOK ==
    ASSUME TypeOK, OpInv
    PROVE  /\ NextSequence \in Number
           /\ \A n \in DOMAIN mirror.segments : n < NextSequence
<1>1. DOMAIN mirror.segments \in SUBSET Nat
  BY DEF TypeOK, MirrorOK, Number
<1>2. CASE DOMAIN mirror.segments = {}
  BY <1>2 DEF NextSequence, Number
<1>3. CASE DOMAIN mirror.segments # {}
  <2>1. Active \in Nat /\ \A n \in DOMAIN mirror.segments : n <= Active
    BY <1>1, <1>3, FinalOf DEF OpInv, Active
  <2> QED
    BY <1>1, <1>3, <2>1 DEF NextSequence, Number
<1> QED
  BY <1>2, <1>3

\* A new segment is well formed.
LEMMA NewSegmentOK ==
    ASSUME TypeOK, OpInv, op.stage = "create", names' = names \cup {NextSequence},
           files' = [n \in DOMAIN files \cup {NextSequence} |->
                        IF n = NextSequence THEN NewSegment ELSE files[n]]
    PROVE  FilesOK'
<1>1. NewSegment \in File
  BY EntryOK DEF NewSegment, File
<1> QED
  BY <1>1, NextSequenceOK DEF TypeOK, FilesOK

\* So is a segment with one more record.
LEMMA WriteOK ==
    ASSUME TypeOK, OpInv, op.stage = "write", names' = names,
           files' = [files EXCEPT ![Active].records = Append(@, Entry)]
    PROVE  FilesOK'
<1>1. Active \in DOMAIN files /\ files[Active] \in File
  BY DEF TypeOK, FilesOK, OpInv
<1>2. Append(files[Active].records, Entry) \in Seq(LogRecord)
  BY <1>1, EntryOK DEF File
<1> DEFINE file == [files[Active] EXCEPT !.records = Append(@, Entry)]
<1>3. file \in File
  BY Zenon, <1>1, <1>2 DEF File
<1>4. files' = [files EXCEPT ![Active] = file]
  OBVIOUS
<1> HIDE DEF file
<1> QED
  BY Zenon, <1>1, <1>3, <1>4, OneFileOK

\* And what a power loss leaves of a segment.
LEMMA CutOK ==
    ASSUME NEW file \in File, NEW w, NEW cut \in Cut(file, w)
    PROVE  cut \in File
<1>1. PICK n \in file.synced..Len(file.records), t \in BOOLEAN :
         cut = [file EXCEPT !.records = SubSeq(@, 1, n), !.synced = n, !.torn = t]
  BY Zenon DEF Cut
<1>2. file.records \in Seq(LogRecord) /\ file.synced \in Nat /\ Len(file.records) \in Nat
  BY DEF File
<1> DEFINE r == SubSeq(file.records, 1, n)
<1>3. r \in Seq(LogRecord) /\ n \in Nat
  BY <1>2
<1>4. cut = [file EXCEPT !.records = r, !.synced = n, !.torn = t]
  BY <1>1
<1> HIDE DEF r
<1> QED
  BY Zenon, <1>3, <1>4 DEF File

\* The directory after a power loss holds cut segments only.
LEMMA PowerLossOK ==
    ASSUME TypeOK, PowerInv, PowerLoss
    PROVE  /\ names' \subseteq DOMAIN files /\ DOMAIN files' = names'
           /\ \A n \in names' : files'[n] \in Cut(files[n], op.stage = "write" /\ n = Active)
           /\ FilesOK'
<1>1. names' \subseteq names \cup durableNames /\ names' \subseteq DOMAIN files
  BY Zenon DEF PowerLoss, Surviving, PowerInv, Chain, TypeOK, FilesOK
<1>2. /\ DOMAIN files' = names' /\ files' = [n \in names' |-> files'[n]]
      /\ \A n \in names' : files'[n] \in Cut(files[n], op.stage = "write" /\ n = Active)
  BY DEF PowerLoss
<1>3. ASSUME NEW n \in names'
      PROVE  files'[n] \in File
  BY <1>1, <1>2, CutOK DEF TypeOK, FilesOK
<1> QED
  BY <1>1, <1>2, <1>3 DEF FilesOK, TypeOK

\* The members after the steps that change some of them.
LEMMA DeactivatedFields ==
    ASSUME TypeOK, mirror' = [mirror EXCEPT !.active = FALSE]
    PROVE  /\ mirror' = [segments |-> mirror.segments, active |-> FALSE,
                         last_index |-> mirror.last_index, expected |-> mirror.expected,
                         size |-> mirror.size, count |-> mirror.count]
           /\ MirrorOK(mirror')
<1>1. mirror' = [segments |-> mirror.segments, active |-> FALSE,
                 last_index |-> mirror.last_index, expected |-> mirror.expected,
                 size |-> mirror.size, count |-> mirror.count]
  BY Zenon DEF TypeOK, MirrorOK
<1> QED
  BY Zenon, <1>1 DEF TypeOK, MirrorOK

\* create_segment makes the new segment the active one.
LEMMA CreatedFields ==
    ASSUME TypeOK, OpInv, segment_created
    PROVE  /\ mirror' = [segments |-> [n \in DOMAIN mirror.segments \cup {NextSequence} |->
                                        IF n = NextSequence THEN 0 ELSE mirror.segments[n]],
                         active |-> TRUE,
                         last_index |-> mirror.last_index, expected |-> Entry.index,
                         size |-> 0, count |-> mirror.count]
           /\ MirrorOK(mirror')
<1>1. Entry.index \in Nat
  BY EntryOK DEF segment_created, Number
<1>2. mirror' = [segments |-> [n \in DOMAIN mirror.segments \cup {NextSequence} |->
                                  IF n = NextSequence THEN 0 ELSE mirror.segments[n]],
                 active |-> TRUE,
                 last_index |-> mirror.last_index, expected |-> Entry.index,
                 size |-> 0, count |-> mirror.count]
  BY Zenon DEF segment_created, TypeOK, MirrorOK
<1>3. DOMAIN mirror.segments \cup {NextSequence} \subseteq Number
  BY NextSequenceOK DEF TypeOK, MirrorOK
<1> QED
  BY <1>1, <1>2, <1>3 DEF MirrorOK

\* write_all counts the record.
LEMMA WriteFields ==
    ASSUME TypeOK, OpInv, write_record
    PROVE  /\ mirror' = [segments |-> [mirror.segments EXCEPT ![Active] = Entry.index],
                         active |-> mirror.active,
                         last_index |-> Entry.index, expected |-> Entry.index + 1,
                         size |-> mirror.size + 1, count |-> mirror.count + 1]
           /\ MirrorOK(mirror')
<1>1. Entry.index \in Nat
  BY EntryOK DEF write_record, Number
<1>2. mirror' = [segments |-> [mirror.segments EXCEPT ![Active] = Entry.index],
                 active |-> mirror.active,
                 last_index |-> Entry.index, expected |-> Entry.index + 1,
                 size |-> mirror.size + 1, count |-> mirror.count + 1]
  BY Zenon DEF write_record, TypeOK, MirrorOK
<1>3. /\ DOMAIN [mirror.segments EXCEPT ![Active] = Entry.index] = DOMAIN mirror.segments
      /\ mirror.active \in BOOLEAN /\ mirror.size + 1 \in Nat
  BY DEF TypeOK, MirrorOK
<1> QED
  BY <1>1, <1>2, <1>3 DEF TypeOK, MirrorOK

\* Every step keeps the variables in their types.
LEMMA TypeStep ==
    ASSUME TypeOK, OpInv, Power => PowerInv, [Next]_vars
    PROVE  TypeOK'
<1> DEFINE Rest == /\ faults' \in FaultModels /\ ("power" \in faults' => faults' = {"power"})
                   /\ open' \in BOOLEAN /\ healthy' \in BOOLEAN
                   /\ durableNames' \subseteq Number
                   /\ snapshots' \subseteq Number /\ durableSnapshots' \subseteq Number
                   /\ publishing' \in [index : Nat, stage : {"idle", "link", "linked"}]
                   /\ publishing'.stage = "link" => publishing'.index # 0
                   /\ acked' \subseteq LogRecord
<1> SUFFICES Rest /\ FilesOK' /\ MirrorOK(mirror') /\ OpOK'
  BY Zenon DEF TypeOK
<1>0. Idle \in [stage : Stages, entries : Seq(LogRecord), done : Nat,
                durability : {"flush", "synchronize"}, removals : SUBSET Number]
  BY DEF Idle, Stages
<1> USE DEF vars, walVars, objectVars, snapshotVars
<1>1. CASE UNCHANGED vars
  BY <1>1 DEF TypeOK, FilesOK, OpOK
<1>2. ASSUME NEW first \in 1..MaxIndex[faults], NEW values \in Batches,
             NEW durability \in {"flush", "synchronize"}, append(first, values, durability)
      PROVE  Rest /\ FilesOK' /\ MirrorOK(mirror') /\ OpOK'
  <2> DEFINE entries == Batch(first, values)
  <2>1. MaxIndex[faults] \in Nat
    BY StorageConstants DEF TypeOK
  <2>2. PICK n \in Nat : values \in [1..n -> Value]
    BY StorageConstants DEF Batches
  <2>3. entries \in [1..n -> LogRecord]
    BY <2>1, <2>2 DEF Batch, LogRecord, Number
  <2>4. entries \in Seq(LogRecord)
    BY <2>2, <2>3
  <2>5. OpOK'
    BY Zenon, <1>0, <1>2, <2>4 DEF append, OpOK, Stages
  <2> QED
    BY <1>2, <2>5 DEF append, TypeOK, FilesOK
<1>3. CASE ensure_segment
  <2>1. FilesOK'
    BY <1>3, SynchronizedOK DEF ensure_segment, TypeOK, FilesOK, OpInv
  <2>2. MirrorOK(mirror') /\ OpOK'
    BY Zenon, <1>3 DEF ensure_segment, TypeOK, MirrorOK, OpOK, Stages
  <2> QED
    BY <1>3, <2>1, <2>2 DEF ensure_segment, TypeOK
<1>4. CASE create_segment
  <2>1. FilesOK'
    <3>1. CASE NextSequence \in names
      BY <1>4, <3>1 DEF create_segment, TypeOK, FilesOK
    <3>2. CASE NextSequence \notin names
      BY <1>4, <3>2, NewSegmentOK DEF create_segment
    <3> QED
      BY <3>1, <3>2
  <2>2. MirrorOK(mirror') /\ OpOK'
    BY Zenon, <1>0, <1>4 DEF create_segment, Throw, TypeOK, MirrorOK, OpOK, Stages
  <2> QED
    BY Zenon, <1>4, <2>1, <2>2 DEF create_segment, Throw, TypeOK
<1>5. CASE segment_created
  <2>1. MirrorOK(mirror')
    BY <1>5, CreatedFields
  <2> QED
    BY <1>5, <2>1 DEF segment_created, TypeOK, FilesOK, OpOK, Stages
<1>6. CASE write_record
  <2>1. FilesOK'
    BY <1>6, WriteOK DEF write_record
  <2>2. MirrorOK(mirror')
    BY <1>6, WriteFields
  <2>3. OpOK'
    <3>1. op' = [op EXCEPT !.stage = "record", !.done = op.done + 1]
      BY <1>6 DEF write_record
    <3>2. op.done + 1 \in Nat
      BY DEF TypeOK, OpOK
    <3> QED
      BY Zenon, <3>1, <3>2 DEF TypeOK, OpOK, Stages
  <2> QED
    BY Zenon, <1>6, <2>1, <2>2, <2>3 DEF write_record, TypeOK
<1>7. CASE append_returns
  <2>1. Elements(op.entries) \subseteq LogRecord
    BY DEF TypeOK, OpOK, Elements
  <2>2. FilesOK'
    <3>1. op.durability = "synchronize" => Active \in names
      BY <1>7 DEF append_returns, OpInv, TypeOK, OpOK, Appending
    <3> QED
      BY <1>7, <3>1, SynchronizedOK DEF append_returns, TypeOK, FilesOK
  <2> QED
    BY <1>0, <1>7, <2>1, <2>2 DEF append_returns, TypeOK, OpOK
<1>8. CASE append_fails
  <2>1. FilesOK'
    BY <1>8, MaybeTornOK DEF append_fails
  <2>2. MirrorOK(mirror')
    BY <1>8, DeactivatedFields DEF append_fails, Throw
  <2> QED
    BY Zenon, <1>0, <1>8, <2>1, <2>2 DEF append_fails, Throw, TypeOK, OpOK
<1>9. CASE recover
  BY Zenon, <1>9, RecoveryOK DEF recover, recover_locked, RecoverySucceeds, TypeOK, OpOK, OpInv
<1>10. ASSUME NEW index \in 1..MaxIndex[faults], truncate_through(index)
       PROVE  Rest /\ FilesOK' /\ MirrorOK(mirror') /\ OpOK'
  <2>1. Rest
    BY Zenon, <1>10 DEF truncate_through, RecoverySucceeds, TypeOK
  <2>2. CASE (RecoverySucceeds(Recovered(Shown)) \/ RecoveryThrows) /\ UNCHANGED op
    <3>1. FilesOK' /\ MirrorOK(mirror')
      BY Zenon, <1>10, <2>2, RecoveryOK DEF truncate_through, OpInv
    <3> QED
      BY Zenon, <2>1, <2>2, <3>1 DEF TypeOK, OpOK
  <2>3. CASE /\ RecoverySucceeds([Recovered(Shown) EXCEPT !.active = FALSE])
             /\ op' = [Idle EXCEPT !.stage = "remove",
                                   !.removals = Removals(Recovered(Shown).segments, index)]
    <3>1. FilesOK'
      BY <1>10, <2>3, RepairedOK DEF truncate_through, RecoverySucceeds
    <3>2. MirrorOK(mirror')
      BY Zenon, <2>3, RecoveredOK DEF RecoverySucceeds, MirrorOK, OpInv
    <3>3. Removals(Recovered(Shown).segments, index) \in SUBSET Number
      BY Zenon, RecoveredOK DEF Removals, MirrorOK, OpInv
    <3>4. OpOK'
      BY Zenon, <1>0, <2>3, <3>3 DEF OpOK, Stages
    <3> QED
      BY <2>1, <3>1, <3>2, <3>4
  <2> QED
    BY <1>10, <2>2, <2>3 DEF truncate_through
<1>11. CASE remove_specific
  <2>1. OpOK'
    <3>1. PICK n : op' = [op EXCEPT !.stage = "removed", !.removals = @ \ {n}]
      BY Zenon, <1>11 DEF remove_specific
    <3>2. op.removals \ {n} \in SUBSET Number
      BY DEF TypeOK, OpOK
    <3> QED
      BY Zenon, <3>1, <3>2 DEF TypeOK, OpOK, Stages
  <2>2. FilesOK'
    BY <1>11 DEF remove_specific, TypeOK, FilesOK
  <2> QED
    BY <1>11, <2>1, <2>2 DEF remove_specific, TypeOK
<1>12. CASE removal_synchronized
  BY <1>12 DEF removal_synchronized, Shown, Part, TypeOK, FilesOK, OpOK, Stages
<1>13. CASE truncation_returns
  BY Zenon, <1>0, <1>13, RecoveryOK
     DEF truncation_returns, recover_locked, RecoverySucceeds, TypeOK, OpOK, OpInv
<1>14. CASE truncation_fails
  <2>1. MirrorOK(mirror')
    BY <1>14, DeactivatedFields DEF truncation_fails, Throw
  <2>2. FilesOK'
    BY <1>14 DEF truncation_fails, TypeOK, FilesOK
  <2> QED
    BY Zenon, <1>0, <1>14, <2>1, <2>2 DEF truncation_fails, Throw, TypeOK, OpOK
<1>15. ASSUME NEW e \in acked, publish(e.index)
       PROVE  Rest /\ FilesOK' /\ MirrorOK(mirror') /\ OpOK'
  <2>1. e.index \in Nat /\ e.index # 0
    BY DEF TypeOK, LogRecord, Number
  <2> QED
    BY <1>15, <2>1 DEF publish, TypeOK, FilesOK, OpOK
<1>16. CASE publish_links \/ publish_returns \/ publish_fails
  <2>1. Rest
    BY <1>16 DEF publish_links, publish_returns, publish_fails, NotPublishing, TypeOK, Number
  <2> QED
    BY <1>16, <2>1 DEF publish_links, publish_returns, publish_fails, TypeOK, FilesOK, OpOK
<1>17. CASE KillProcess
  <2>1. FilesOK'
    BY <1>17, MaybeTornOK DEF KillProcess
  <2> QED
    BY Zenon, <1>0, <1>17, <2>1, ForgottenOK DEF KillProcess, Crash, NotPublishing, TypeOK, OpOK
<1>18. CASE PowerLoss
  <2>1. FilesOK'
    BY Zenon, <1>18, PowerLossOK DEF PowerLoss, Power
  <2>2. Rest
    BY Zenon, <1>18 DEF PowerLoss, Crash, Surviving, NotPublishing, TypeOK, FilesOK
  <2> QED
    BY <1>0, <1>18, <2>1, <2>2, ForgottenOK DEF PowerLoss, Crash, OpOK
<1>19. CASE Open
  BY Zenon, <1>19, RecoveryOK DEF Open, RecoverySucceeds, TypeOK, OpOK, OpInv
<1> QED
  BY Zenon, <1>1, <1>2, <1>3, <1>4, <1>5, <1>6, <1>7, <1>8, <1>9, <1>10, <1>11, <1>12, <1>13,
     <1>14, <1>15, <1>16, <1>17, <1>18, <1>19
     DEF Next, LogOperation, Truncation, Publication

-----------------------------------------------------------------------------
(* The running operation.                                                  *)

\* A recovery that throws leaves no active segment.
LEMMA MirrorOfFields ==
    ASSUME TypeOK, NEW S \in SUBSET names
    PROVE  DOMAIN MirrorOf(Part(S)).segments = S /\ ~ MirrorOf(Part(S)).active
<1>1. DOMAIN Part(S) = S
  BY DEF Part
<1> QED
  BY <1>1 DEF MirrorOf, Forgotten

\* A recovery that succeeds knows every segment shown.
LEMMA RecoveredActive ==
    /\ DOMAIN Recovered(Shown).segments = names
    /\ Recovered(Shown).active <=> names # {}
    /\ \A n \in names : Recovered(Shown).segments[n] = Maximum(files[n])
<1>1. DOMAIN Shown = names /\ \A n \in names : Shown[n] = files[n]
  BY DEF Shown, Part
<1> QED
  BY <1>1 DEF Recovered, MirrorOf, Forgotten

\* After a recovery that throws the object knows a part of the segments.
LEMMA ThrowFields ==
    ASSUME TypeOK, RecoveryThrows
    PROVE  HasFinal(DOMAIN mirror'.segments) /\ ~ mirror'.active
<1>1. PICK last \in names \cup {0} :
         LET known == MirrorOf(Part({n \in names : n <= last}))
         IN  \/ mirror' = known
             \/ \E last_index, count :
                  mirror' = [segments |-> known.segments, active |-> FALSE,
                             last_index |-> last_index,
                             expected |-> 0, size |-> 0, count |-> count]
  BY Zenon, ThrownMirror
<1> DEFINE read == {n \in names : n <= last}
<1>2. DOMAIN mirror'.segments = read /\ ~ mirror'.active
  <2> DEFINE known == MirrorOf(Part(read))
  <2>1. DOMAIN known.segments = read /\ ~ known.active
    BY MirrorOfFields
  <2>2. mirror'.segments = known.segments /\ (mirror'.active = known.active \/ ~ mirror'.active)
    BY <1>1
  <2> QED
    BY Zenon, <2>1, <2>2
<1>3. names \subseteq Number
  BY DEF TypeOK, FilesOK
<1>4. HasFinal(read)
  <2>1. CASE last \in names
    <3>1. last \in read /\ \A m \in read : m <= last
      BY <1>3, <2>1 DEF Number
    <3> QED
      BY <3>1 DEF HasFinal
  <2>2. CASE last = 0
    <3>1. \A n \in names : ~(n <= 0)
      BY <1>3 DEF Number
    <3>2. read = {}
      BY Zenon, <2>2, <3>1
    <3> QED
      BY <3>2 DEF HasFinal
  <2> QED
    BY <2>1, <2>2
<1> QED
  BY <1>2, <1>4

\* An object that knows all segments shown has the final one active.
LEMMA FinalKnown ==
    ASSUME TypeOK', HasFinal(names'), names' # {}, DOMAIN mirror'.segments = names'
    PROVE  Active' \in names'
  BY FinalOf DEF Active, TypeOK, FilesOK, Number

\* A power loss keeps the directory as shown or as synchronised.
LEMMA PowerNames ==
    ASSUME TypeOK, OpInv, PowerInv, PowerLoss
    PROVE  names' = names \/ names' = durableNames
<1>1. names' \subseteq names \cup durableNames /\ names \cap durableNames \subseteq names'
  BY DEF PowerLoss, Surviving
<1>2. CASE op.stage \notin {"created", "removed"}
  BY Zenon, <1>1, <1>2 DEF PowerInv
<1>3. CASE op.stage = "created"
  BY <1>1, <1>3 DEF PowerInv
<1>4. CASE op.stage = "removed"
  BY <1>1, <1>4 DEF PowerInv
<1> QED
  BY <1>2, <1>3, <1>4

\* An acknowledgement is not taken back.
LEMMA AckedGrows ==
    ASSUME [Next]_vars
    PROVE  acked \subseteq acked'
<1>1. CASE LogOperation
  BY Zenon, <1>1 DEF LogOperation, append, ensure_segment, create_segment, segment_created,
     write_record, append_returns, append_fails, recover
<1>2. CASE Truncation
  BY Zenon, <1>2 DEF Truncation, truncate_through, remove_specific, removal_synchronized,
     truncation_returns, truncation_fails
<1>3. CASE Publication
  BY Zenon, <1>3 DEF Publication, publish, publish_links, publish_returns, publish_fails
<1>4. CASE KillProcess \/ PowerLoss \/ Open \/ UNCHANGED vars
  BY Zenon, <1>4 DEF KillProcess, PowerLoss, Crash, Open, vars
<1> QED
  BY <1>1, <1>2, <1>3, <1>4 DEF Next

\* A snapshot that a crash spares stays, and the fault model does not change.
LEMMA SnapshotStep ==
    ASSUME TypeOK, SnapshotInv, [Next]_vars
    PROVE  /\ SnapshotInv'
           /\ SafeSnapshots \subseteq SafeSnapshots' /\ faults' = faults
<1> USE DEF vars, walVars, snapshotVars, SnapshotInv, SafeSnapshots, Power
<1>0. acked \subseteq acked'
  BY AckedGrows
<1>1. CASE publish_links \/ publish_returns \/ publish_fails
           \/ \E e \in acked : publish(e.index)
  BY <1>0, <1>1 DEF publish, publish_links, publish_returns, publish_fails, NotPublishing, TypeOK
<1>2. CASE PowerLoss
  BY <1>0, <1>2 DEF PowerLoss, Crash, Surviving, NotPublishing
<1>3. CASE KillProcess
  BY <1>0, <1>3 DEF KillProcess, Crash, NotPublishing, TypeOK
<1>4. CASE UNCHANGED <<snapshotVars, faults>>
  BY <1>0, <1>4
<1> QED
  BY Zenon, <1>1, <1>2, <1>3, <1>4
     DEF Next, LogOperation, Truncation, Publication, append, ensure_segment, create_segment,
         segment_created, write_record, append_returns, append_fails, recover,
         truncate_through, remove_specific, removal_synchronized, truncation_returns,
         truncation_fails, Open

\* An operation that ends leaves the object between two operations.
LEMMA IdleOp ==
    ASSUME OpOK, op' = Idle, HasFinal(names'), HasFinal(DOMAIN mirror'.segments),
           mirror'.active => DOMAIN mirror'.segments # {} /\ Active' \in names',
           ~ open' => ~ mirror'.active
    PROVE  OpInv'
  BY DEF OpInv, Idle, Appending, Truncating

\* The steps after which no operation is running.
LEMMA EndsIdle ==
    ASSUME append_returns \/ append_fails \/ truncation_returns \/ truncation_fails
           \/ KillProcess \/ PowerLoss
    PROVE  op' = Idle /\ op'.done = 0 /\ op'.removals = {} /\ op'.stage = "idle"
<1>1. op' = Idle
  BY Zenon DEF append_returns, append_fails, truncation_returns, truncation_fails, Throw,
         KillProcess, PowerLoss, Crash
<1> QED
  BY <1>1 DEF Idle

\* The same of a recovery.
LEMMA RecoveredOp ==
    ASSUME TypeOK, TypeOK', OpInv, op' = Idle, open', names' = names,
           RecoverySucceeds(Recovered(Shown)) \/ RecoveryThrows
    PROVE  OpInv'
<1>1. HasFinal(names)
  BY DEF OpInv
<1>2. CASE RecoverySucceeds(Recovered(Shown))
  <2>1. DOMAIN mirror'.segments = names /\ (mirror'.active <=> names # {})
    BY <1>2, RecoveredActive DEF RecoverySucceeds
  <2>2. mirror'.active => Active' \in names'
    BY <1>1, <2>1, FinalKnown
  <2> QED
    BY <1>1, <2>1, <2>2, IdleOp DEF TypeOK
<1>3. CASE RecoveryThrows
  BY <1>1, <1>3, ThrowFields, IdleOp DEF TypeOK
<1> QED
  BY <1>2, <1>3

\* An operation that fails resets active_file_.
LEMMA ThrowOp ==
    ASSUME TypeOK, OpInv, Throw(FALSE), names' = names
    PROVE  OpInv'
<1>1. DOMAIN mirror'.segments = DOMAIN mirror.segments /\ ~ mirror'.active
  BY DeactivatedFields DEF Throw
<1> QED
  BY <1>1, IdleOp DEF Throw, TypeOK, OpInv

\* One more number.
LEMMA HasFinalMore ==
    ASSUME NEW S \in SUBSET Nat, HasFinal(S), NEW x \in Nat
    PROVE  HasFinal(S \cup {x})
<1>1. CASE S = {}
  BY <1>1 DEF HasFinal
<1>2. CASE S # {}
  <2>1. PICK h \in S : \A m \in S : m <= h
    BY Zenon, <1>2 DEF HasFinal
  <2>2. CASE h <= x
    <3>1. \A m \in S \cup {x} : m <= x
      BY <2>1, <2>2
    <3> QED
      BY <3>1 DEF HasFinal
  <2>3. CASE x < h
    <3>1. \A m \in S \cup {x} : m <= h
      BY <2>1, <2>3
    <3> QED
      BY <3>1 DEF HasFinal
  <2> QED
    BY <2>2, <2>3
<1> QED
  BY <1>1, <1>2

\* The stages of append and truncate_through follow one another as coded.
LEMMA OpStep ==
    ASSUME TypeOK, TypeOK', OpInv, RemovalsCovered, Power => PowerInv, [Next]_vars
    PROVE  OpInv'
<1> USE DEF vars, walVars, objectVars
<1>0. op \in [stage : Stages, entries : Seq(LogRecord), done : Nat,
             durability : {"flush", "synchronize"}, removals : SUBSET Number]
  BY DEF TypeOK, OpOK
<1>1. CASE UNCHANGED walVars
  BY <1>1 DEF OpInv, Appending, Truncating, NextSequence, Active
<1>2. ASSUME NEW first, NEW values \in Batches, NEW durability,
             append(first, values, durability)
      PROVE  OpInv'
  <2>1. op.stage = "idle"
    BY <1>2 DEF append, Idle
  <2>2. op' = [stage |-> "record", entries |-> Batch(first, values), done |-> 0,
               durability |-> durability, removals |-> {}]
    BY Zenon, <1>2 DEF append, Idle
  <2>3. Batch(first, values) # <<>>
    BY DEF Batches, Batch
  <2>4. 0 <= Len(op'.entries)
    BY DEF TypeOK, OpOK
  <2>5. open /\ healthy /\ UNCHANGED <<names, open, healthy, mirror>>
    BY <1>2 DEF append
  <2>6. Active' = Active
    BY <2>5 DEF Active
  <2> QED
    BY Zenon, <2>1, <2>2, <2>3, <2>4, <2>5, <2>6 DEF OpInv, Appending, Truncating
<1>3. CASE ensure_segment
  <2>1. DOMAIN mirror'.segments = DOMAIN mirror.segments
    BY <1>3, DeactivatedFields DEF ensure_segment
  <2>2. Active' = Active
    BY <2>1 DEF Active
  <2> QED
    BY <1>0, <1>3, <2>1, <2>2, DeactivatedFields
       DEF ensure_segment, OpInv, Appending, Truncating
<1>4. CASE create_segment
  <2>1. CASE NextSequence \in names
    BY <1>4, <2>1, ThrowOp DEF create_segment
  <2>2. CASE NextSequence \notin names
    <3>1. HasFinal(names')
      BY <1>4, <2>2, NextSequenceOK, HasFinalMore
         DEF create_segment, OpInv, TypeOK, FilesOK, Number
    <3>2. NextSequence' = NextSequence /\ Active' = Active
      BY <1>4, <2>2 DEF create_segment, NextSequence, Active
    <3> QED
      BY <1>0, <1>4, <2>2, <3>1, <3>2 DEF create_segment, OpInv, Appending, Truncating
  <2> QED
    BY <2>1, <2>2
<1>5. CASE segment_created
  <2>1. /\ DOMAIN mirror'.segments = DOMAIN mirror.segments \cup {NextSequence}
        /\ mirror'.active
    BY <1>5, CreatedFields
  <2>2. DOMAIN mirror'.segments \in SUBSET Nat
    BY DEF TypeOK, MirrorOK, Number
  <2>3. \A n \in DOMAIN mirror'.segments : n <= NextSequence
    BY <2>1, <2>2, NextSequenceOK DEF Number
  <2>4. Active' = NextSequence
    BY <2>1, <2>2, <2>3, FinalIs DEF Active
  <2>5. HasFinal(DOMAIN mirror'.segments)
    BY <2>1, <2>3 DEF HasFinal
  <2> QED
    BY <1>0, <1>5, <2>1, <2>4, <2>5 DEF segment_created, OpInv, Appending, Truncating
<1>6. CASE write_record
  <2>1. DOMAIN mirror'.segments = DOMAIN mirror.segments /\ mirror'.active = mirror.active
    BY <1>6, WriteFields
  <2>2. Active' = Active
    BY <2>1 DEF Active
  <2> QED
    BY <1>0, <1>6, <2>1, <2>2 DEF write_record, OpInv, Appending, Truncating
<1>7. CASE append_returns
  <2>1. Active' = Active
    BY <1>7 DEF append_returns, Active
  <2> QED
    BY Zenon, <1>7, <2>1, IdleOp DEF append_returns, OpInv, TypeOK
<1>8. CASE append_fails \/ truncation_fails
  BY Zenon, <1>8, ThrowOp DEF append_fails, truncation_fails
<1>9. CASE recover \/ truncation_returns
  BY Zenon, <1>9, RecoveredOp DEF recover, truncation_returns, recover_locked, OpInv, Truncating
<1>10. ASSUME NEW index, truncate_through(index)
       PROVE  OpInv'
  <2>1. CASE (RecoverySucceeds(Recovered(Shown)) \/ RecoveryThrows) /\ UNCHANGED op
    BY <1>10, <2>1, RecoveredOp DEF truncate_through
  <2>2. CASE /\ RecoverySucceeds([Recovered(Shown) EXCEPT !.active = FALSE])
             /\ op' = [Idle EXCEPT !.stage = "remove",
                                   !.removals = Removals(Recovered(Shown).segments, index)]
    <3>1. DOMAIN mirror'.segments = names /\ ~ mirror'.active /\ healthy'
      BY <2>2, RecoveredActive, RecoveredOK DEF RecoverySucceeds, MirrorOK, OpInv
    <3> QED
      BY <1>10, <2>2, <3>1 DEF truncate_through, Idle, OpInv, Appending, Truncating
  <2> QED
    BY <1>10, <2>1, <2>2 DEF truncate_through
<1>11. CASE remove_specific
  <2>1. PICK n \in op.removals : /\ names' = names \ {n}
                                 /\ op' = [op EXCEPT !.stage = "removed", !.removals = @ \ {n}]
    BY Zenon, <1>11 DEF remove_specific
  <2>2. HasFinal(names')
    <3>1. names \subseteq Nat
      BY Zenon DEF TypeOK, FilesOK, Number
    <3>2. PICK h \in names : \A m \in names : m <= h
      BY Zenon DEF RemovalsCovered, OpInv, HasFinal
    <3>3. PICK m \in names : n < m /\ n \in names
      BY DEF RemovalsCovered
    <3>4. h \in names'
      BY <2>1, <3>1, <3>2, <3>3
    <3> QED
      BY <2>1, <3>2, <3>4 DEF HasFinal
  <2> QED
    BY Zenon, <1>0, <1>11, <2>1, <2>2 DEF remove_specific, OpInv, Appending, Truncating
<1>12. CASE removal_synchronized
  BY <1>0, <1>12 DEF removal_synchronized, OpInv, Appending, Truncating
<1>13. CASE KillProcess
  <2>1. DOMAIN mirror'.segments = {} /\ ~ mirror'.active
    BY Zenon, <1>13 DEF KillProcess, Crash, Forgotten
  <2> QED
    BY Zenon, <1>13, <2>1, IdleOp DEF KillProcess, Crash, OpInv, HasFinal, TypeOK
<1>14. CASE PowerLoss
  <2>1. DOMAIN mirror'.segments = {} /\ ~ mirror'.active
    BY Zenon, <1>14 DEF PowerLoss, Crash, Forgotten
  <2>2. HasFinal(names')
    BY Zenon, <1>14, PowerNames DEF PowerInv, OpInv, Chain, PowerLoss, Power
  <2> QED
    BY Zenon, <1>14, <2>1, <2>2, IdleOp DEF PowerLoss, Crash, HasFinal, TypeOK
<1>15. CASE Open
  <2>1. op = Idle
    BY Zenon, <1>15 DEF Open, OpInv
  <2> QED
    BY Zenon, <1>15, <2>1, RecoveredOp DEF Open
<1> QED
  BY Zenon, <1>1, <1>2, <1>3, <1>4, <1>5, <1>6, <1>7, <1>8, <1>9, <1>10, <1>11, <1>12, <1>13,
     <1>14, <1>15
     DEF Next, LogOperation, Truncation, Publication, publish, publish_links,
         publish_returns, publish_fails

-----------------------------------------------------------------------------
(* Only a power loss shortens a segment file that stays in the directory.  *)

Extends(g, f) ==
    /\ g.first_index = f.first_index
    /\ \A i \in DOMAIN f.records : i \in DOMAIN g.records /\ g.records[i] = f.records[i]
    /\ f.synced <= Len(f.records) => f.synced <= g.synced

\* One segment grows.
LEMMA OneFileExtends ==
    ASSUME TypeOK, NEW a \in DOMAIN files, NEW file \in File, Extends(file, files[a]),
           files' = [files EXCEPT ![a] = file]
    PROVE  \A n \in DOMAIN files : n \in DOMAIN files' /\ Extends(files'[n], files[n])
<1> SUFFICES ASSUME NEW n \in DOMAIN files
             PROVE  n \in DOMAIN files' /\ Extends(files'[n], files[n])
  OBVIOUS
<1>1. FilesOK /\ files[n].synced \in Nat
  BY Zenon, FileFacts DEF TypeOK
<1>2. CASE n = a
  BY <1>1, <1>2 DEF FilesOK
<1>3. CASE n # a
  BY <1>1, <1>3 DEF FilesOK, Extends
<1> QED
  BY <1>2, <1>3

\* truncate_torn_suffix keeps every complete record.
LEMMA RepairedExtends ==
    ASSUME TypeOK, files' = Repaired
    PROVE  \A n \in DOMAIN files :
              n \in DOMAIN files' /\ Extends(files'[n], files[n])
              /\ files'[n].records = files[n].records
<1> SUFFICES ASSUME NEW n \in DOMAIN files
             PROVE  n \in DOMAIN files' /\ Extends(files'[n], files[n])
                    /\ files'[n].records = files[n].records
  OBVIOUS
<1>1. /\ files[n] \in File /\ files[n].synced \in Nat /\ Len(files[n].records) \in Nat
  BY FileFacts DEF TypeOK, FilesOK
<1>2. n \in DOMAIN files' /\ (files'[n] = files[n] \/ files'[n] = Untorn(files[n]))
  BY DEF Repaired
<1>3. Extends(files[n], files[n]) /\ Extends(Untorn(files[n]), files[n])
      /\ Untorn(files[n]).records = files[n].records
  BY <1>1 DEF Extends, Untorn, File
<1> QED
  BY Zenon, <1>2, <1>3

\* A fsync keeps every record.
LEMMA SynchronizedExtends ==
    ASSUME TypeOK, Active \in names, files' = Synchronized
    PROVE  \A n \in DOMAIN files : n \in DOMAIN files' /\ Extends(files'[n], files[n])
<1> DEFINE file == [files[Active] EXCEPT !.synced = Len(files[Active].records)]
<1>1. /\ Active \in DOMAIN files /\ files[Active] \in File
      /\ files[Active].synced \in Nat /\ Len(files[Active].records) \in Nat
  BY FileFacts DEF TypeOK, FilesOK
<1>2. /\ file \in File /\ file.records = files[Active].records
      /\ file.synced = Len(files[Active].records)
      /\ file.first_index = files[Active].first_index
  BY <1>1 DEF File
<1>3. files' = [files EXCEPT ![Active] = file]
  BY DEF Synchronized
<1> HIDE DEF file
<1>4. Extends(file, files[Active])
  BY <1>1, <1>2 DEF Extends
<1> QED
  BY Zenon, <1>1, <1>2, <1>3, <1>4, OneFileExtends

\* A torn write keeps every complete record.
LEMMA MaybeTornExtends ==
    ASSUME TypeOK, OpInv, MaybeTorn
    PROVE  \A n \in DOMAIN files : n \in DOMAIN files' /\ Extends(files'[n], files[n])
<1>1. CASE UNCHANGED files
  BY <1>1, FileFacts DEF Extends
<1>2. CASE op.stage = "write" /\ files' = [files EXCEPT ![Active].torn = TRUE]
  <2> DEFINE file == [files[Active] EXCEPT !.torn = TRUE]
  <2>1. /\ Active \in DOMAIN files /\ files[Active] \in File /\ files[Active].synced \in Nat
    BY <1>2, FileFacts DEF TypeOK, FilesOK, OpInv
  <2>2. /\ file \in File /\ file.records = files[Active].records
        /\ file.synced = files[Active].synced /\ file.first_index = files[Active].first_index
    BY Zenon, <2>1 DEF File
  <2>3. files' = [files EXCEPT ![Active] = file]
    BY <1>2
  <2> HIDE DEF file
  <2>4. Extends(file, files[Active])
    BY <2>1, <2>2 DEF Extends
  <2> QED
    BY Zenon, <2>1, <2>2, <2>3, <2>4, OneFileExtends
<1> QED
  BY <1>1, <1>2 DEF MaybeTorn

\* The file after write_all.
LEMMA WriteExtends ==
    ASSUME TypeOK, OpInv, write_record
    PROVE  /\ \A n \in DOMAIN files : n \in DOMAIN files' /\ Extends(files'[n], files[n])
           /\ \A n \in DOMAIN files : n # Active => files'[n] = files[n]
           /\ Active \in names /\ Active \in DOMAIN files
           /\ files'[Active].first_index = files[Active].first_index
           /\ files'[Active].synced = files[Active].synced
           /\ files'[Active].torn = files[Active].torn
           /\ Len(files'[Active].records) = Len(files[Active].records) + 1
           /\ DOMAIN files'[Active].records = 1..(Len(files[Active].records) + 1)
           /\ files'[Active].records[Len(files[Active].records) + 1] = Entry
           /\ \A i \in DOMAIN files[Active].records :
                 files'[Active].records[i] = files[Active].records[i]
<1> DEFINE r == Append(files[Active].records, Entry)
           file == [files[Active] EXCEPT !.records = r]
<1>1. /\ Active \in names /\ Active \in DOMAIN files /\ files[Active] \in File
      /\ files[Active].synced \in Nat /\ files[Active].records \in Seq(LogRecord)
  BY FileFacts DEF TypeOK, FilesOK, OpInv, write_record
<1>2. /\ r \in Seq(LogRecord) /\ Len(r) = Len(files[Active].records) + 1
      /\ DOMAIN r = 1..(Len(files[Active].records) + 1)
      /\ r[Len(files[Active].records) + 1] = Entry
      /\ \A i \in DOMAIN files[Active].records : i \in DOMAIN r /\ r[i] = files[Active].records[i]
  BY <1>1, EntryOK DEF write_record
<1>3. files' = [files EXCEPT ![Active] = file]
  BY DEF write_record
<1> HIDE DEF r
<1>4. /\ file \in File /\ file.records = r /\ file.synced = files[Active].synced
      /\ file.torn = files[Active].torn /\ file.first_index = files[Active].first_index
  BY <1>1, <1>2 DEF File
<1>5. Extends(file, files[Active])
  BY <1>1, <1>2, <1>4 DEF Extends
<1> HIDE DEF file
<1>6. files'[Active] = file /\ \A n \in DOMAIN files : n # Active => files'[n] = files[n]
  BY Zenon, <1>1, <1>3 DEF TypeOK, FilesOK
<1>7. \A n \in DOMAIN files : n \in DOMAIN files' /\ Extends(files'[n], files[n])
  BY Zenon, <1>1, <1>3, <1>4, <1>5, OneFileExtends
<1> QED
  BY Zenon, <1>1, <1>2, <1>4, <1>6, <1>7

\* Every step but a power loss keeps the records of the segments that stay.
LEMMA RecordsKept ==
    ASSUME TypeOK, OpInv, [Next]_vars, ~ PowerLoss
    PROVE  \A n \in names \cap names' : n \in DOMAIN files' /\ Extends(files'[n], files[n])
<1> USE DEF vars, walVars, objectVars
<1>1. names \subseteq DOMAIN files
  BY DEF TypeOK, FilesOK
<1>2. CASE UNCHANGED files
  BY <1>1, <1>2, FileFacts DEF Extends
<1>3. CASE files' = Repaired
  BY <1>1, <1>3, RepairedExtends
<1>4. CASE files' = Synchronized /\ Active \in names
  BY <1>1, <1>4, SynchronizedExtends
<1>5. CASE MaybeTorn
  BY Zenon, <1>1, <1>5, MaybeTornExtends
<1>6. CASE create_segment
  <2> SUFFICES ASSUME NEW n \in names, NextSequence \notin names
               PROVE  n \in DOMAIN files' /\ Extends(files'[n], files[n])
    BY Zenon, <1>2, <1>6 DEF create_segment
  <2>1. n \in DOMAIN files' /\ files'[n] = files[n]
    BY <1>1, <1>6 DEF create_segment
  <2> QED
    BY <1>1, <2>1, FileFacts DEF Extends
<1>7. CASE write_record
  BY Zenon, <1>1, <1>7, WriteExtends
<1>8. CASE removal_synchronized
  <2>1. names' = names /\ files' = [n \in names |-> files[n]]
    BY <1>8 DEF removal_synchronized, Shown, Part
  <2> QED
    BY <1>1, <2>1, FileFacts DEF Extends
<1>9. ensure_segment \/ append_returns =>
        files' = files \/ (files' = Synchronized /\ Active \in names)
  BY DEF ensure_segment, append_returns, OpInv, TypeOK, OpOK, Appending
<1>10. RecoveryThrows => files' = Repaired \/ files' = files
  BY Zenon DEF RecoveryThrows
<1> QED
  BY Zenon, <1>2, <1>3, <1>4, <1>5, <1>6, <1>7, <1>8, <1>9, <1>10
     DEF Next, LogOperation, Truncation, Publication, append, segment_created, append_fails,
         recover, recover_locked, RecoverySucceeds, truncate_through, remove_specific,
         truncation_returns, truncation_fails, publish, publish_links, publish_returns,
         publish_fails, KillProcess, Open

-----------------------------------------------------------------------------
(* The records written so far, and the segments to remove.                 *)

\* The records that append has written are in a segment shown.
LEMMA WrittenStep ==
    ASSUME TypeOK, TypeOK', OpInv, WrittenShown, [Next]_vars
    PROVE  WrittenShown'
<1> USE DEF vars, walVars, objectVars
<1>0. op \in [stage : Stages, entries : Seq(LogRecord), done : Nat,
             durability : {"flush", "synchronize"}, removals : SUBSET Number]
  BY Zenon DEF TypeOK, OpOK
<1>1. CASE op'.done = 0
  BY <1>1 DEF WrittenShown
<1>2. CASE /\ op'.done # 0 /\ names \subseteq names'
           /\ op'.done = op.done /\ op'.entries = op.entries
  <2>0. ~ PowerLoss
    BY <1>2 DEF PowerLoss, Crash, Idle
  <2> SUFFICES ASSUME NEW i \in 1..op.done
               PROVE  \E n \in names' : \E j \in DOMAIN files'[n].records :
                         files'[n].records[j] = op.entries[i]
    BY <1>2 DEF WrittenShown
  <2>1. PICK n \in names : \E j \in DOMAIN files[n].records :
                            files[n].records[j] = op.entries[i]
    BY Zenon DEF WrittenShown
  <2>2. n \in names' /\ Extends(files'[n], files[n])
    BY Zenon, <1>2, <2>0, RecordsKept
  <2> QED
    BY Zenon, <2>1, <2>2 DEF Extends
<1>3. CASE write_record
  <2>1. /\ op'.done = op.done + 1 /\ op'.entries = op.entries /\ op.done \in Nat
        /\ names' = names /\ names \subseteq DOMAIN files
    BY Zenon, <1>3 DEF write_record, TypeOK, OpOK, FilesOK
  <2> SUFFICES ASSUME NEW i \in 1..(op.done + 1)
               PROVE  \E n \in names : \E j \in DOMAIN files'[n].records :
                         files'[n].records[j] = op.entries[i]
    BY <2>1 DEF WrittenShown
  <2>2. CASE i \in 1..op.done
    <3>1. PICK n \in names : \E j \in DOMAIN files[n].records :
                            files[n].records[j] = op.entries[i]
      BY Zenon, <2>2 DEF WrittenShown
    <3>2. Extends(files'[n], files[n])
      BY Zenon, <1>3, <2>1, WriteExtends
    <3> QED
      BY Zenon, <3>1, <3>2 DEF Extends
  <2>3. CASE i = op.done + 1
    <3> DEFINE l == Len(files[Active].records) + 1
    <3>1. /\ Active \in names /\ l \in 1..l /\ DOMAIN files'[Active].records = 1..l
          /\ files'[Active].records[l] = Entry
      BY <1>3, <2>1, WriteExtends, FileFacts
    <3> HIDE DEF l
    <3> QED
      BY Zenon, <2>3, <3>1 DEF Entry
  <2> QED
    BY <2>1, <2>2, <2>3
<1>4. Truncating \/ op = Idle => op.done = 0
  BY DEF OpInv, Idle
<1>5. CASE UNCHANGED walVars
  BY <1>1, <1>2, <1>5
<1>6. CASE ensure_segment \/ segment_created
  BY <1>0, <1>1, <1>2, <1>6 DEF ensure_segment, segment_created
<1>7. CASE create_segment
  BY <1>0, <1>1, <1>2, <1>7 DEF create_segment, Throw, Idle
<1>8. CASE append_returns \/ append_fails \/ truncation_returns \/ truncation_fails
           \/ KillProcess \/ PowerLoss
  BY Zenon, <1>1, <1>8, EndsIdle
<1>9. CASE remove_specific \/ removal_synchronized
  BY Zenon, <1>0, <1>1, <1>4, <1>9 DEF remove_specific, removal_synchronized, Truncating
<1>10. CASE recover \/ Open
  <2>1. op = Idle /\ op' = op
    BY Zenon, <1>10 DEF recover, Open, OpInv
  <2> QED
    BY <1>1, <1>4, <2>1
<1>11. ASSUME NEW first, NEW values, NEW durability, append(first, values, durability)
       PROVE  WrittenShown'
  BY <1>1, <1>11 DEF append, Idle
<1>12. ASSUME NEW index, truncate_through(index)
       PROVE  WrittenShown'
  BY Zenon, <1>1, <1>4, <1>12 DEF truncate_through, Idle
<1> QED
  BY Zenon, <1>3, <1>5, <1>6, <1>7, <1>8, <1>9, <1>10, <1>11, <1>12
     DEF Next, LogOperation, Truncation, Publication, publish, publish_links,
         publish_returns, publish_fails

\* What covers an index goes on covering it.
LEMMA ReachedStays ==
    ASSUME TypeOK, SnapshotInv, [Next]_vars, NEW i, Reached(i)
    PROVE  \E s \in SafeSnapshots' : i <= s
  BY SnapshotStep DEF Reached

\* The removals that truncate_through decides on.
LEMMA RemovalsDecided ==
    ASSUME TypeOK, OpInv, SnapshotInv, NEW k \in Nat, Covered(k),
           publishing = NotPublishing, Recoverable(Shown),
           NEW n \in Removals(Recovered(Shown).segments, k)
    PROVE  /\ n \in names /\ n + 1 \in names
           /\ files[n].records # <<>> /\ End(files[n]) - 1 <= k
           /\ \A i \in DOMAIN files[n].records : Reached(files[n].records[i].index)
<1>1. /\ n \in names /\ n + 1 \in names
      /\ Recovered(Shown).segments[n] = Maximum(files[n])
      /\ Maximum(files[n]) # 0 /\ Maximum(files[n]) <= k
  BY Zenon, RecoveredActive DEF Removals
<1>2. /\ n \in DOMAIN files /\ Shown[n] = files[n] /\ n \in DOMAIN Shown
  BY Zenon, <1>1 DEF TypeOK, FilesOK, Shown, Part
<1>3. /\ files[n].first_index \in Nat /\ Len(files[n].records) \in Nat
      /\ DOMAIN files[n].records = 1..Len(files[n].records)
      /\ End(files[n]) = files[n].first_index + Len(files[n].records)
  BY Zenon, <1>2, FileFacts
<1>4. files[n].records # <<>> /\ End(files[n]) - 1 <= k
  BY Zenon, <1>1 DEF Maximum
<1>5. \A i \in DOMAIN files[n].records :
         files[n].records[i].index = files[n].first_index + i - 1
  BY Zenon, <1>2 DEF Recoverable
<1>6. PICK s \in snapshots : k <= s
  BY DEF Covered
<1>7. s \in SafeSnapshots /\ s \in Nat
  BY Zenon DEF SnapshotInv, SafeSnapshots, NotPublishing, TypeOK, Number
<1>8. ASSUME NEW i \in DOMAIN files[n].records
      PROVE  Reached(files[n].records[i].index)
  <2>1. i \in Nat /\ i <= Len(files[n].records)
    BY <1>3
  <2>2. files[n].records[i].index = files[n].first_index + i - 1
    BY Zenon, <1>5
  <2> DEFINE f == files[n].first_index
             l == Len(files[n].records)
  <2>3. f \in Nat /\ l \in Nat /\ i \in Nat /\ i <= l /\ f + l - 1 <= k
    BY <1>3, <1>4, <2>1
  <2> HIDE DEF f, l
  <2>4. f + i - 1 <= s
    BY <1>6, <1>7, <2>3
  <2>5. files[n].records[i].index <= s
    BY Zenon, <2>2, <2>4 DEF f
  <2> QED
    BY Zenon, <1>7, <2>5 DEF Reached
<1> QED
  BY Zenon, <1>1, <1>4, <1>8

\* truncate_through goes on removing covered segments only.
LEMMA RemovalsStep ==
    ASSUME TypeOK, TypeOK', OpInv, SnapshotInv, RemovalsCovered, [Next]_vars
    PROVE  RemovalsCovered'
<1> USE DEF vars, walVars, objectVars
<1>0. op \in [stage : Stages, entries : Seq(LogRecord), done : Nat,
             durability : {"flush", "synchronize"}, removals : SUBSET Number]
  BY DEF TypeOK, OpOK
<1>1. CASE op'.removals = {}
  BY Zenon, <1>1 DEF RemovalsCovered
<1>2. CASE /\ op'.removals \subseteq op.removals
           /\ \A n \in op'.removals : /\ n \in names' /\ files'[n] = files[n]
                                       /\ \E m \in names' : n < m
  BY Zenon, <1>2, ReachedStays DEF RemovalsCovered, Reached
<1>3. CASE UNCHANGED walVars
  BY Zenon, <1>2, <1>3 DEF RemovalsCovered
<1>4. CASE ensure_segment \/ create_segment \/ segment_created \/ write_record
  <2>1. op'.removals = op.removals \/ op' = Idle
    BY Zenon, <1>0, <1>4 DEF ensure_segment, create_segment, segment_created, write_record, Throw
  <2>2. op.removals = {}
    BY Zenon, <1>4
       DEF ensure_segment, create_segment, segment_created, write_record, OpInv, Appending
  <2> QED
    BY <1>1, <2>1, <2>2 DEF Idle
<1>5. CASE append_returns \/ append_fails \/ truncation_returns \/ truncation_fails
           \/ KillProcess \/ PowerLoss
  BY Zenon, <1>1, <1>5, EndsIdle
<1>6. CASE recover \/ Open
  <2>1. op = Idle /\ op' = op
    BY Zenon, <1>6 DEF recover, Open, OpInv
  <2> QED
    BY Zenon, <1>1, <2>1 DEF Idle
<1>7. ASSUME NEW first, NEW values, NEW durability, append(first, values, durability)
      PROVE  RemovalsCovered'
  BY <1>1, <1>7 DEF append, Idle
<1>8. ASSUME NEW index \in 1..MaxIndex[faults], truncate_through(index)
      PROVE  RemovalsCovered'
  <2>1. CASE UNCHANGED op
    BY <1>1, <1>8, <2>1 DEF truncate_through, Idle
  <2>2. CASE /\ RecoverySucceeds([Recovered(Shown) EXCEPT !.active = FALSE])
             /\ op' = [Idle EXCEPT !.stage = "remove",
                                   !.removals = Removals(Recovered(Shown).segments, index)]
    <3> SUFFICES ASSUME NEW n \in Removals(Recovered(Shown).segments, index)
                 PROVE  /\ n \in names' /\ \E m \in names' : n < m
                        /\ \A i \in DOMAIN files'[n].records :
                              \E s \in SafeSnapshots' : files'[n].records[i].index <= s
      BY Zenon, <2>2 DEF RemovalsCovered, Reached, Idle
    <3>1. index \in Nat /\ names' = names
      BY <1>8, StorageConstants DEF TypeOK, truncate_through
    <3>2. /\ n \in names /\ n + 1 \in names
          /\ \A i \in DOMAIN files[n].records : Reached(files[n].records[i].index)
      BY Zenon, <1>8, <2>2, <3>1, RemovalsDecided DEF truncate_through, RecoverySucceeds
    <3>3. n \in DOMAIN files /\ n \in Nat
      BY Zenon, <3>2 DEF TypeOK, FilesOK, Number
    <3>4. files'[n].records = files[n].records
      BY <2>2, <3>3, RepairedExtends DEF RecoverySucceeds
    <3>5. n < n + 1
      BY <3>3
    <3> QED
      BY Zenon, <3>1, <3>2, <3>4, <3>5, ReachedStays
  <2> QED
    BY <1>8, <2>1, <2>2 DEF truncate_through
<1>9. CASE remove_specific
  <2>1. PICK n \in op.removals : /\ \A m \in op.removals : n <= m
                                 /\ names' = names \ {n}
                                 /\ op' = [op EXCEPT !.stage = "removed", !.removals = @ \ {n}]
    BY Zenon, <1>9 DEF remove_specific
  <2>2. op'.removals = op.removals \ {n} /\ files' = files
    BY Zenon, <1>0, <1>9, <2>1 DEF remove_specific
  <2>3. ASSUME NEW k \in op'.removals
        PROVE  k \in names' /\ \E m \in names' : k < m
    <3>1. k \in names /\ k # n /\ n <= k /\ k \in Nat /\ n \in Nat
      BY <1>0, <2>1, <2>2 DEF RemovalsCovered, Number
    <3>2. PICK m \in names : k < m
      BY Zenon, <2>2 DEF RemovalsCovered
    <3>3. m \in Nat
      BY Zenon DEF TypeOK, FilesOK, Number
    <3>4. m \in names'
      BY <2>1, <3>1, <3>2, <3>3
    <3> QED
      BY <2>1, <3>1, <3>2, <3>4
  <2> QED
    BY Zenon, <1>2, <2>2, <2>3
<1>10. CASE removal_synchronized
  <2>1. names' = names /\ op'.removals = op.removals /\ files' = Shown
    BY <1>0, <1>10 DEF removal_synchronized
  <2> QED
    BY Zenon, <1>2, <2>1 DEF RemovalsCovered, Shown, Part
<1> QED
  BY Zenon, <1>3, <1>4, <1>5, <1>6, <1>7, <1>8, <1>9, <1>10
     DEF Next, LogOperation, Truncation, Publication, publish, publish_links,
         publish_returns, publish_fails

-----------------------------------------------------------------------------
(* The chain of segments.                                                  *)

\* What is known of a segment file.
LEMMA FileFields ==
    ASSUME NEW f \in File
    PROVE  /\ f.first_index \in Nat /\ f.first_index # 0
           /\ Len(f.records) \in Nat /\ DOMAIN f.records = 1..Len(f.records)
           /\ f.records = <<>> <=> Len(f.records) = 0
           /\ f.synced \in Nat /\ f.torn \in BOOLEAN
           /\ End(f) = f.first_index + Len(f.records)
           /\ End(f) \in Nat /\ End(f) # 0
  BY DEF File, Number, End

\* The chain of segments does not depend on what has been synchronised.
LEMMA ChainSame ==
    ASSUME NEW fs, NEW gs, NEW S, Chain(fs, S), S \subseteq DOMAIN gs,
           \A n \in S : /\ gs[n].first_index = fs[n].first_index
                        /\ gs[n].records = fs[n].records
                        /\ n + 1 \in S => ~ gs[n].torn
    PROVE  Chain(gs, S)
<1>1. \A n \in S : End(gs[n]) = End(fs[n])
  BY DEF End
<1>2. HasFirst(S) /\ HasFinal(S) /\ Consecutive(S)
  BY DEF Chain
<1>3. \A n \in S : \A i \in DOMAIN gs[n].records :
         gs[n].records[i].index = gs[n].first_index + i - 1
  BY DEF Chain
<1>4. \A n \in S : n + 1 \in S =>
         gs[n + 1].first_index = End(gs[n]) /\ ~ gs[n].torn /\ gs[n].records # <<>>
  BY <1>1 DEF Chain
<1>5. /\ \A m, n \in S : End(gs[n]) <= gs[m].first_index + MaxRecords
      /\ \A m, n \in S : m < n => End(gs[m]) <= gs[n].first_index
  BY <1>1 DEF Chain
<1> QED
  BY <1>2, <1>3, <1>4, <1>5 DEF Chain

\* A run of consecutive segments of a chain is a chain.
LEMMA ChainPart ==
    ASSUME NEW fs, NEW S, Chain(fs, S), NEW T \in SUBSET S,
           HasFirst(T), HasFinal(T), Consecutive(T)
    PROVE  Chain(fs, T)
  BY DEF Chain

\* The final segment of a chain ends last.
LEMMA ChainEnd ==
    ASSUME NEW fs, NEW S \in SUBSET Nat, Chain(fs, S), S # {}, \A n \in S : fs[n] \in File
    PROVE  /\ Final(S) \in S /\ First(S) \in S
           /\ \A n \in S : First(S) <= n /\ n <= Final(S)
           /\ \A n \in S : End(fs[n]) <= End(fs[Final(S)])
           /\ \A n \in S : fs[First(S)].first_index <= fs[n].first_index
           /\ \A n \in S : n # Final(S) => n + 1 \in S
<1>1. /\ Final(S) \in S /\ First(S) \in S
      /\ \A n \in S : First(S) <= n /\ n <= Final(S)
  BY FinalOf, FirstOf DEF Chain
<1> DEFINE h == Final(S)
           l == First(S)
<1> HIDE DEF h, l
<1>2. h \in S /\ l \in S /\ h \in Nat /\ l \in Nat /\ \A n \in S : l <= n /\ n <= h
  BY Zenon, <1>1 DEF h, l
<1>3. ASSUME NEW n \in S
      PROVE  End(fs[n]) <= End(fs[h]) /\ fs[l].first_index <= fs[n].first_index
             /\ (n # h => n + 1 \in S)
  <2>1. /\ End(fs[n]) \in Nat /\ End(fs[h]) \in Nat /\ fs[h].first_index <= End(fs[h])
        /\ fs[l].first_index \in Nat /\ fs[l].first_index <= End(fs[l]) /\ End(fs[l]) \in Nat
        /\ fs[n].first_index \in Nat /\ fs[h].first_index \in Nat
    <3>1. \A k \in S : /\ fs[k].first_index \in Nat /\ End(fs[k]) \in Nat
                       /\ fs[k].first_index <= End(fs[k])
      <4> SUFFICES ASSUME NEW k \in S
                   PROVE  /\ fs[k].first_index \in Nat /\ End(fs[k]) \in Nat
                          /\ fs[k].first_index <= End(fs[k])
        OBVIOUS
      <4>1. fs[k] \in File
        OBVIOUS
      <4> QED
        BY <4>1, FileFields
    <3> QED
      BY Zenon, <1>2, <3>1
  <2>2. n < h => End(fs[n]) <= fs[h].first_index
    BY <1>2 DEF Chain
  <2>3. l < n => End(fs[l]) <= fs[n].first_index
    BY <1>2 DEF Chain
  <2>4. n # h => n + 1 \in n..h
    BY <1>2
  <2>5. n..h \subseteq S
    BY <1>2 DEF Chain, Consecutive
  <2>6. n = h \/ n < h
    BY <1>2
  <2>7. n = l \/ l < n
    BY <1>2
  <2> QED
    BY <2>1, <2>2, <2>3, <2>4, <2>5, <2>6, <2>7
<1> QED
  BY <1>1, <1>3 DEF h, l

\* recover_locked accepts a chain.
LEMMA ChainRecoverable ==
    ASSUME NEW S, Chain(files, S)
    PROVE  Recoverable(Part(S))
<1>1. DOMAIN Part(S) = S /\ \A n \in S : Part(S)[n] = files[n]
  BY DEF Part
<1> QED
  BY <1>1 DEF Recoverable, Chain

\* It does not throw on one.
LEMMA NoThrow ==
    ASSUME ReliableReads, Chain(files, names)
    PROVE  ~ RecoveryThrows
  BY Zenon, ChainRecoverable DEF ReliableReads, RecoveryThrows, Shown

\* A new final segment begins where the chain ends.
LEMMA ChainNew ==
    ASSUME NEW fs, NEW gs, NEW S \in SUBSET Number, NEW x \in Number, Chain(fs, S),
           \A n \in S : fs[n] \in File /\ ~ fs[n].torn /\ fs[n].records # <<>>,
           S \cup {x} \subseteq DOMAIN gs, \A n \in S : gs[n] = fs[n] /\ n < x,
           gs[x] \in File, gs[x].records = <<>>,
           S # {} => x = Final(S) + 1 /\ gs[x].first_index = End(fs[Final(S)])
    PROVE  Chain(gs, S \cup {x})
<1> DEFINE T == S \cup {x}
           h == Final(S)
<1>1. /\ gs[x].first_index \in Nat /\ End(gs[x]) = gs[x].first_index
      /\ DOMAIN gs[x].records = {}
  BY FileFields
<1>2. CASE S = {}
  <2>1. T = {x}
    BY <1>2
  <2>2. HasFirst(T) /\ HasFinal(T) /\ Consecutive(T)
    BY <2>1 DEF HasFirst, HasFinal, Consecutive, Number
  <2> QED
    BY <1>1, <2>1, <2>2, StorageConstants DEF Chain, Number
<1>3. CASE S # {}
  <2> HIDE DEF h
  <2>1. /\ h \in S /\ h \in Nat /\ x = h + 1 /\ gs[x].first_index = End(fs[h])
        /\ \A n \in S : n \in Nat /\ n <= h /\ End(fs[n]) <= End(fs[h])
        /\ \A n \in S : n # h => n + 1 \in S
    BY Zenon, <1>3, ChainEnd DEF h, Number
  <2>2. HasFirst(T) /\ HasFinal(T)
    <3>1. PICK l \in S : \A n \in S : l <= n
      BY Zenon, <1>3 DEF Chain, HasFirst
    <3>2. \A n \in T : l <= n
      BY <2>1, <3>1
    <3>3. \A n \in T : n <= x
      BY <2>1
    <3> QED
      BY Zenon, <3>2, <3>3 DEF HasFirst, HasFinal
  <2>3. Consecutive(T)
    <3> SUFFICES ASSUME NEW m \in T, NEW n \in T, NEW k \in m..n
                 PROVE  k \in T
      BY DEF Consecutive
    <3>1. m \in S => m..h \subseteq S
      BY Zenon, <2>1 DEF Chain, Consecutive
    <3>0. ASSUME NEW t \in T
          PROVE  t \in Nat /\ t <= x
      <4>1. CASE t = x
        BY <2>1, <4>1
      <4>2. CASE t \in S
        BY <2>1, <4>2
      <4> QED
        BY Zenon, <4>1, <4>2
    <3>2. k \in Nat /\ m <= k /\ k <= n /\ n <= x /\ m \in Nat
      BY <3>0
    <3>3. CASE k = x
      BY <3>3
    <3>4. CASE k # x
      <4>1. k <= h /\ m # x
        BY <2>1, <3>2, <3>4
      <4> QED
        BY <3>1, <3>2, <4>1
    <3> QED
      BY <3>3, <3>4
  <2>4. \A n \in T : \A i \in DOMAIN gs[n].records :
           gs[n].records[i].index = gs[n].first_index + i - 1
    BY <1>1 DEF Chain
  <2>5. \A n \in T : n + 1 \in T =>
           gs[n + 1].first_index = End(gs[n]) /\ ~ gs[n].torn /\ gs[n].records # <<>>
    <3> SUFFICES ASSUME NEW n \in T, n + 1 \in T
                 PROVE  gs[n + 1].first_index = End(gs[n]) /\ ~ gs[n].torn
                        /\ gs[n].records # <<>>
      OBVIOUS
    <3>1. n \in S
      BY <2>1
    <3>2. CASE n = h
      <4>1. fs[h] = gs[h] /\ ~ fs[h].torn /\ fs[h].records # <<>> /\ n + 1 = x
        BY Zenon, <2>1, <3>2
      <4> QED
        BY Zenon, <2>1, <3>2, <4>1
    <3>3. CASE n # h
      <4>1. gs[n] = fs[n] /\ n + 1 \in S /\ gs[n + 1] = fs[n + 1]
        BY Zenon, <2>1, <3>1, <3>3
      <4> QED
        BY Zenon, <3>1, <4>1 DEF Chain
    <3> QED
      BY Zenon, <3>2, <3>3
  <2>6. \A m, n \in T : End(gs[n]) <= gs[m].first_index + MaxRecords
    <3> SUFFICES ASSUME NEW m \in T, NEW n \in T
                 PROVE  End(gs[n]) <= gs[m].first_index + MaxRecords
      OBVIOUS
    <3>1. m \in S => End(fs[h]) <= gs[m].first_index + MaxRecords
      BY Zenon, <2>1 DEF Chain
    <3>2. /\ End(gs[n]) \in Nat /\ End(gs[n]) <= End(fs[h]) /\ End(fs[h]) \in Nat
      BY Zenon, <1>1, <2>1, FileFields
    <3>3. gs[m].first_index + MaxRecords \in Nat
      <4>1. gs[m].first_index \in Nat /\ MaxRecords \in Nat
        BY Zenon, FileFields, StorageConstants
      <4> QED
        BY Zenon, <4>1, SumIsNat
    <3>4. m \in S \/ gs[m].first_index = End(fs[h])
      BY Zenon, <2>1
    <3>5. End(fs[h]) <= End(fs[h]) + MaxRecords
      BY Zenon, <3>2, StorageConstants, AtMostSum, AtMost
    <3> QED
      BY Zenon, <3>1, <3>2, <3>3, <3>4, <3>5, AtMostTrans
  <2>7. \A m, n \in T : m < n => End(gs[m]) <= gs[n].first_index
    <3> SUFFICES ASSUME NEW m \in T, NEW n \in T, m < n
                 PROVE  End(gs[m]) <= gs[n].first_index
      OBVIOUS
    <3>1. m \in S
      BY <2>1
    <3> QED
      BY <2>1, <3>1 DEF Chain
  <2> QED
    BY Zenon, <2>2, <2>3, <2>4, <2>5, <2>6, <2>7 DEF Chain
<1> QED
  BY <1>2, <1>3

\* A record appended to the final segment.
LEMMA ChainWrite ==
    ASSUME NEW fs, NEW gs, NEW S \in SUBSET Number, S # {}, Chain(fs, S),
           \A n \in S : fs[n] \in File, S \subseteq DOMAIN gs,
           \A n \in S : n # Final(S) => gs[n] = fs[n],
           gs[Final(S)].first_index = fs[Final(S)].first_index,
           gs[Final(S)] \in File,
           Len(gs[Final(S)].records) = Len(fs[Final(S)].records) + 1,
           \A i \in DOMAIN fs[Final(S)].records :
              gs[Final(S)].records[i] = fs[Final(S)].records[i],
           gs[Final(S)].records[Len(gs[Final(S)].records)].index = End(fs[Final(S)]),
           End(fs[Final(S)]) < fs[First(S)].first_index + MaxRecords
    PROVE  Chain(gs, S)
<1> DEFINE h == Final(S)
           l == First(S)
<1> HIDE DEF h, l
<1>1. /\ h \in S /\ h \in Nat /\ l \in S
      /\ \A n \in S : n \in Nat /\ n <= h /\ End(fs[n]) <= End(fs[h])
      /\ \A n \in S : fs[l].first_index <= fs[n].first_index
  BY Zenon, ChainEnd DEF h, l, Number
<1>2. /\ End(gs[h]) = End(fs[h]) + 1 /\ End(fs[h]) \in Nat
      /\ fs[h].first_index \in Nat /\ Len(fs[h].records) \in Nat
      /\ End(fs[h]) = fs[h].first_index + Len(fs[h].records)
      /\ DOMAIN fs[h].records = 1..Len(fs[h].records)
      /\ DOMAIN gs[h].records = 1..(Len(fs[h].records) + 1)
  <2>1. /\ fs[h] \in File /\ gs[h] \in File /\ gs[h].first_index = fs[h].first_index
        /\ Len(gs[h].records) = Len(fs[h].records) + 1
    BY Zenon, <1>1 DEF h
  <2>2. /\ End(fs[h]) \in Nat /\ fs[h].first_index \in Nat /\ Len(fs[h].records) \in Nat
        /\ End(fs[h]) = fs[h].first_index + Len(fs[h].records)
        /\ DOMAIN fs[h].records = 1..Len(fs[h].records)
    BY Zenon, <2>1, FileFields
  <2>3. /\ End(gs[h]) = gs[h].first_index + Len(gs[h].records)
        /\ DOMAIN gs[h].records = 1..Len(gs[h].records)
    BY Zenon, <2>1, FileFields
  <2> DEFINE f == fs[h].first_index
             k == Len(fs[h].records)
  <2>4. f \in Nat /\ k \in Nat /\ End(fs[h]) = f + k /\ End(gs[h]) = f + (k + 1)
    BY Zenon, <2>1, <2>2, <2>3
  <2> HIDE DEF f, k
  <2>5. End(gs[h]) = End(fs[h]) + 1
    BY <2>4
  <2> QED
    BY Zenon, <2>1, <2>2, <2>3, <2>5
<1>3. \A n \in S : \A i \in DOMAIN gs[n].records :
         gs[n].records[i].index = gs[n].first_index + i - 1
  <2> SUFFICES ASSUME NEW n \in S, NEW i \in DOMAIN gs[n].records
               PROVE  gs[n].records[i].index = gs[n].first_index + i - 1
    BY Zenon
  <2>1. CASE n # h
    <3>1. gs[n] = fs[n]
      BY Zenon, <2>1 DEF h
    <3> QED
      BY Zenon, <3>1 DEF Chain
  <2>2. CASE n = h /\ i \in DOMAIN fs[h].records
    <3>1. gs[h].records[i] = fs[h].records[i] /\ gs[h].first_index = fs[h].first_index
      BY Zenon, <2>2 DEF h
    <3>2. fs[h].records[i].index = fs[h].first_index + i - 1
      BY Zenon, <1>1, <2>2 DEF Chain
    <3> QED
      BY Zenon, <2>2, <3>1, <3>2
  <2>3. CASE n = h /\ i \notin DOMAIN fs[h].records
    <3>1. i = Len(fs[h].records) + 1
      <4> DEFINE k == Len(fs[h].records)
      <4>1. k \in Nat /\ i \in 1..(k + 1) /\ i \notin 1..k
        BY Zenon, <1>2, <2>3
      <4> HIDE DEF k
      <4>2. i = k + 1
        BY <4>1
      <4> QED
        BY Zenon, <4>2 DEF k
    <3>2. gs[h].records[i].index = End(fs[h])
      BY Zenon, <3>1 DEF h
    <3>3. gs[h].first_index = fs[h].first_index
      BY Zenon DEF h
    <3> QED
      BY <1>2, <2>3, <3>1, <3>2, <3>3
  <2> QED
    BY Zenon, <2>1, <2>2, <2>3
<1>4. \A n \in S : n + 1 \in S =>
         gs[n + 1].first_index = End(gs[n]) /\ ~ gs[n].torn /\ gs[n].records # <<>>
  <2> SUFFICES ASSUME NEW n \in S, n + 1 \in S
               PROVE  gs[n + 1].first_index = End(gs[n]) /\ ~ gs[n].torn
                      /\ gs[n].records # <<>>
    BY Zenon
  <2>1. n # h
    BY <1>1
  <2>2. gs[n] = fs[n] /\ gs[n + 1].first_index = fs[n + 1].first_index
    BY Zenon, <2>1 DEF h
  <2> QED
    BY Zenon, <2>2 DEF Chain
<1>5. \A m, n \in S : End(gs[n]) <= gs[m].first_index + MaxRecords
  <2> SUFFICES ASSUME NEW m \in S, NEW n \in S
               PROVE  End(gs[n]) <= gs[m].first_index + MaxRecords
    BY Zenon
  <2>1. gs[m].first_index = fs[m].first_index
    BY Zenon DEF h
  <2>2. CASE n # h
    BY Zenon, <2>1, <2>2 DEF h, Chain
  <2>3. CASE n = h
    <3>1. fs[m].first_index \in Nat /\ fs[l].first_index \in Nat
      BY Zenon, <1>1, FileFields
    <3>2. End(fs[h]) < fs[l].first_index + MaxRecords
      BY Zenon DEF h, l
    <3>3. fs[l].first_index <= fs[m].first_index
      BY Zenon, <1>1
    <3>4. End(fs[h]) \in Nat /\ End(gs[h]) = End(fs[h]) + 1 /\ MaxRecords \in Nat
      BY Zenon, <1>2, StorageConstants
    <3>5. End(gs[h]) <= fs[m].first_index + MaxRecords
      BY <3>1, <3>2, <3>3, <3>4
    <3> QED
      BY Zenon, <2>1, <2>3, <3>5
  <2> QED
    BY Zenon, <2>2, <2>3
<1>6. \A m, n \in S : m < n => End(gs[m]) <= gs[n].first_index
  <2> SUFFICES ASSUME NEW m \in S, NEW n \in S, m < n
               PROVE  End(gs[m]) <= gs[n].first_index
    BY Zenon
  <2>1. m # h
    BY <1>1
  <2>2. gs[m] = fs[m] /\ gs[n].first_index = fs[n].first_index
    BY Zenon, <2>1 DEF h
  <2> QED
    BY Zenon, <2>2 DEF Chain
<1> QED
  BY Zenon, <1>3, <1>4, <1>5, <1>6 DEF Chain

-----------------------------------------------------------------------------
(* The members of the object.                                              *)

\* Members that differ in active_file_ only, of files that differ in what has
\* been synchronised only.
LEMMA MirrorsSame ==
    ASSUME NEW fs, NEW gs, NEW S \in SUBSET Nat, Chain(fs, S), NEW m, NEW k, Mirrors(m, fs, S),
           k.segments = m.segments, k.expected = m.expected, k.last_index = m.last_index,
           k.count = m.count, k.size = m.size,
           \A n \in S : gs[n].first_index = fs[n].first_index /\ gs[n].records = fs[n].records
    PROVE  Mirrors(k, gs, S)
<1>1. \A n \in S : End(gs[n]) = End(fs[n]) /\ Maximum(gs[n]) = Maximum(fs[n])
  BY Zenon DEF End, Maximum
<1>2. CASE S = {}
  BY <1>2 DEF Mirrors
<1>3. CASE S # {}
  <2>1. Final(S) \in S /\ First(S) \in S
    BY Zenon, <1>3, FinalOf, FirstOf DEF Chain
  <2> QED
    BY Zenon, <1>1, <1>3, <2>1 DEF Mirrors
<1> QED
  BY <1>2, <1>3

\* What a recovery computes from the first and the final segment.
LEMMA RecoveredFields ==
    ASSUME TypeOK, Chain(files, names), names # {}
    PROVE  LET r == Recovered(Shown)
               first == files[First(names)].first_index
           IN  /\ r.expected = End(files[Final(names)])
               /\ r.size = Len(files[Final(names)].records)
               /\ r.count = r.expected - first
               /\ r.last_index = IF r.expected = first THEN 0 ELSE r.expected - 1
<1> DEFINE h == Final(names)
           l == First(names)
<1>1. h \in names /\ l \in names
  BY Zenon, FinalOf, FirstOf DEF Chain, TypeOK, FilesOK, Number
<1>2. DOMAIN Shown = names /\ \A n \in names : Shown[n] = files[n]
  BY DEF Shown, Part
<1> HIDE DEF h, l
<1>3. /\ MirrorOf(Shown).count = End(files[h]) - files[l].first_index
      /\ MirrorOf(Shown).last_index = IF End(files[h]) = files[l].first_index
                                      THEN 0 ELSE End(files[h]) - 1
  BY <1>1, <1>2 DEF MirrorOf, Forgotten, h, l
<1>4. Recovered(Shown) = [MirrorOf(Shown) EXCEPT !.active = TRUE,
                            !.size = Len(files[h].records), !.expected = End(files[h])]
  BY Zenon, <1>1, <1>2 DEF Recovered, h
<1>5. MirrorOK(MirrorOf(Shown))
  BY MirrorOfOK DEF Shown
<1>6. /\ Recovered(Shown).expected = End(files[h])
      /\ Recovered(Shown).size = Len(files[h].records)
      /\ Recovered(Shown).count = MirrorOf(Shown).count
      /\ Recovered(Shown).last_index = MirrorOf(Shown).last_index
  BY <1>4, <1>5 DEF MirrorOK
<1> QED
  BY Zenon, <1>3, <1>6 DEF h, l

\* The members after a recovery mirror the files.
LEMMA RecoveredMirrors ==
    ASSUME TypeOK, Chain(files, names)
    PROVE  Mirrors(Recovered(Shown), files, names)
<1>1. CASE names = {}
  <2>1. Recovered(Shown) = Forgotten
    BY <1>1 DEF Recovered, Shown, Part
  <2> QED
    BY <1>1, <2>1 DEF Mirrors, Forgotten
<1>2. CASE names # {}
  BY Zenon, <1>2, RecoveredFields, RecoveredActive DEF Mirrors
<1> QED
  BY <1>1, <1>2

\* The members of a log object are determined by the files.
LEMMA MirrorsSameMembers ==
    ASSUME NEW fs, NEW S, NEW m, NEW k, MirrorOK(m), MirrorOK(k),
           Mirrors(m, fs, S), Mirrors(k, fs, S), m.active <=> k.active
    PROVE  m = k
<1>1. m.segments = k.segments /\ m.active = k.active
  BY DEF Mirrors, MirrorOK
<1>2. /\ m.expected = k.expected /\ m.size = k.size
      /\ m.count = k.count /\ m.last_index = k.last_index
  BY DEF Mirrors
<1> QED
  BY Zenon, <1>1, <1>2 DEF MirrorOK

\* Members that mirror the files are those of a recovery.
LEMMA MirrorsRecovered ==
    ASSUME TypeOK, Chain(files, names), Mirrors(mirror, files, names),
           mirror.active <=> names # {}
    PROVE  mirror = Recovered(Shown)
  BY Zenon, MirrorsSameMembers, RecoveredMirrors, RecoveredActive, RecoveredOK DEF TypeOK, Chain

\* The members after create_segment.
LEMMA MirrorsNew ==
    ASSUME NEW fs, NEW S \in SUBSET Number, NEW x \in Number, Chain(fs, S),
           \A n \in S : fs[n] \in File /\ n < x,
           fs[x] \in File, fs[x].records = <<>>,
           NEW m, NEW k, Mirrors(m, fs, S), S # {} => fs[x].first_index = m.expected,
           k.segments = [n \in S \cup {x} |-> IF n = x THEN 0 ELSE m.segments[n]],
           k.expected = fs[x].first_index, k.last_index = m.last_index,
           k.count = m.count, k.size = 0
    PROVE  Mirrors(k, fs, S \cup {x})
<1> DEFINE T == S \cup {x}
<1>1. /\ fs[x].first_index \in Nat /\ End(fs[x]) = fs[x].first_index
      /\ Len(fs[x].records) = 0 /\ Maximum(fs[x]) = 0
  BY FileFields DEF Maximum
<1>2. T \in SUBSET Nat /\ x \in T /\ \A n \in T : n <= x
  <2>1. x \in Nat /\ S \subseteq Nat
    BY Zenon DEF Number
  <2>2. ASSUME NEW n \in T
        PROVE  n \in Nat /\ n <= x
    BY Zenon, <2>1, AtMost
  <2> QED
    BY Zenon, <2>2
<1>3. Final(T) = x
  BY Zenon, <1>2, FinalIs
<1>4. DOMAIN k.segments = T /\ \A n \in T : k.segments[n] = Maximum(fs[n])
  <2>1. \A n \in S : m.segments[n] = Maximum(fs[n])
    BY Zenon DEF Mirrors
  <2> QED
    BY Zenon, <1>1, <2>1
<1>5. CASE S = {}
  <2>1. First(T) = x
    BY <1>2, <1>5, FirstIs
  <2> QED
    BY <1>1, <1>3, <1>4, <1>5, <2>1 DEF Mirrors
<1>6. CASE S # {}
  <2>1. First(S) \in S /\ \A n \in S : First(S) <= n
    BY Zenon, <1>6, FirstOf DEF Chain, Number
  <2>2. First(S) \in T /\ \A n \in T : First(S) <= n
    BY Zenon, <1>2, <2>1 DEF Number
  <2>3. First(T) = First(S)
    BY Zenon, <1>2, <2>2, FirstIs
  <2> QED
    BY <1>1, <1>3, <1>4, <1>6, <2>3 DEF Mirrors
<1> QED
  BY Zenon, <1>5, <1>6

\* The members after a record has been written.
LEMMA MirrorsWrite ==
    ASSUME NEW fs, NEW gs, NEW S \in SUBSET Number, S # {}, Chain(fs, S),
           \A n \in S : fs[n] \in File, gs[Final(S)] \in File,
           \A n \in S : n # Final(S) => gs[n] = fs[n],
           gs[Final(S)].first_index = fs[Final(S)].first_index,
           Len(gs[Final(S)].records) = Len(fs[Final(S)].records) + 1,
           NEW m, NEW k, Mirrors(m, fs, S), NEW e, e = m.expected,
           m.segments = [n \in DOMAIN m.segments |-> m.segments[n]],
           k.segments = [m.segments EXCEPT ![Final(S)] = e],
           k.expected = e + 1, k.last_index = e, k.count = m.count + 1, k.size = m.size + 1
    PROVE  Mirrors(k, gs, S)
<1> DEFINE h == Final(S)
           l == First(S)
           f == fs[h].first_index
           r == Len(fs[h].records)
           g == fs[l].first_index
<1>1. h \in S /\ l \in S
  BY Zenon, FinalOf, FirstOf DEF Chain, Number
<1>2. /\ e = f + r /\ f \in Nat /\ r \in Nat /\ m.size = r /\ m.count = e - g
      /\ DOMAIN m.segments = S /\ \A n \in S : m.segments[n] = Maximum(fs[n])
  <2>1. /\ m.expected = End(fs[h]) /\ m.size = r /\ m.count = m.expected - g
        /\ DOMAIN m.segments = S /\ \A n \in S : m.segments[n] = Maximum(fs[n])
    BY Zenon DEF Mirrors
  <2>2. End(fs[h]) = f + r /\ f \in Nat /\ r \in Nat
    BY Zenon, <1>1, FileFields
  <2> QED
    BY Zenon, <2>1, <2>2
<1>3. /\ End(gs[h]) = f + (r + 1) /\ Len(gs[h].records) = r + 1
      /\ gs[h].records # <<>> /\ gs[l].first_index = g
  <2>1. Len(gs[h].records) = r + 1 /\ r + 1 # 0
    BY <1>2
  <2> QED
    BY Zenon, <1>1, <2>1, FileFields
<1>4. g \in Nat /\ g <= e /\ e = End(fs[h])
  <2>1. g <= f
    BY Zenon, <1>1, ChainEnd DEF Number
  <2>2. g \in Nat
    BY Zenon, <1>1, FileFields
  <2>3. e = End(fs[h])
    BY Zenon DEF Mirrors
  <2> HIDE DEF h, l, f, r, g
  <2>4. g <= f + r
    BY Zenon, <1>2, <2>1, <2>2, AtMostSum
  <2> QED
    BY Zenon, <1>2, <2>2, <2>3, <2>4
<1> HIDE DEF h, l, f, r, g
<1>5. Maximum(gs[h]) = e
  BY <1>2, <1>3 DEF Maximum
<1>6. DOMAIN k.segments = S /\ \A n \in S : k.segments[n] = Maximum(gs[n])
  BY <1>1, <1>2, <1>5 DEF h
<1>7. /\ k.expected = End(gs[h]) /\ k.size = Len(gs[h].records)
      /\ k.count = k.expected - gs[l].first_index
      /\ k.expected # gs[l].first_index /\ k.last_index = k.expected - 1
  BY <1>2, <1>3, <1>4
<1> QED
  BY Zenon, <1>6, <1>7 DEF Mirrors, h, l

-----------------------------------------------------------------------------
(* The chain of segments through every step.                               *)

\* The steps that keep the directory and the records of its segments.
SameContent ==
    /\ names' = names
    /\ \A n \in names :
          /\ n \in DOMAIN files'
          /\ files'[n].first_index = files[n].first_index
          /\ files'[n].records = files[n].records
          /\ files'[n].torn => files[n].torn \/ (op.stage = "write" /\ n = Active)

\* truncate_torn_suffix changes no record and leaves the final segment whole.
LEMMA RepairedContent ==
    ASSUME TypeOK, names' = names, files' = Repaired
    PROVE  /\ SameContent /\ \A n \in names : files'[n].torn => files[n].torn
           /\ \A n \in names : (\A m \in names : m <= n) => ~ files'[n].torn
<1>1. ASSUME NEW n \in names
      PROVE  /\ n \in DOMAIN files'
             /\ files'[n].first_index = files[n].first_index
             /\ files'[n].records = files[n].records
             /\ files'[n].torn => files[n].torn
             /\ (\A m \in names : m <= n) => ~ files'[n].torn
  <2>1. n \in DOMAIN files /\ files[n] \in File
    BY DEF TypeOK, FilesOK
  <2>2. /\ Untorn(files[n]).first_index = files[n].first_index
        /\ Untorn(files[n]).records = files[n].records /\ ~ Untorn(files[n]).torn
    BY <2>1 DEF Untorn, File
  <2>3. /\ n \in DOMAIN files' /\ (files'[n] = files[n] \/ files'[n] = Untorn(files[n]))
        /\ (\A m \in names : m <= n) => files'[n] = Untorn(files[n])
    BY <2>1 DEF Repaired
  <2> QED
    BY <2>2, <2>3
<1> QED
  BY <1>1 DEF SameContent

\* One segment changes outside of its records.
LEMMA OneFileContent ==
    ASSUME TypeOK, names' = names, NEW a \in DOMAIN files, NEW file \in File,
           files' = [files EXCEPT ![a] = file],
           file.first_index = files[a].first_index, file.records = files[a].records,
           file.torn => files[a].torn \/ (op.stage = "write" /\ a = Active)
    PROVE  SameContent
<1>1. FilesOK
  BY DEF TypeOK
<1> QED
  BY <1>1 DEF FilesOK, SameContent

\* A fsync changes no record.
LEMMA SynchronizedContent ==
    ASSUME TypeOK, names' = names, Active \in names, files' = Synchronized
    PROVE  /\ SameContent
           /\ \A n \in names : n # Active => files'[n] = files[n]
           /\ files'[Active].synced = Len(files[Active].records)
           /\ files'[Active].torn = files[Active].torn
<1> DEFINE file == [files[Active] EXCEPT !.synced = Len(files[Active].records)]
<1>1. /\ Active \in DOMAIN files /\ files[Active] \in File
      /\ Len(files[Active].records) \in Nat
  BY FileFacts DEF TypeOK, FilesOK
<1>2. /\ file \in File /\ file.records = files[Active].records
      /\ file.synced = Len(files[Active].records)
      /\ file.first_index = files[Active].first_index /\ file.torn = files[Active].torn
  BY <1>1 DEF File
<1>3. files' = [files EXCEPT ![Active] = file]
  BY DEF Synchronized
<1> HIDE DEF file
<1>4. files'[Active] = file /\ \A n \in names : n # Active => files'[n] = files[n]
  BY <1>1, <1>3 DEF TypeOK, FilesOK
<1> QED
  BY Zenon, <1>1, <1>2, <1>3, <1>4, OneFileContent

\* A write_all that stops half-way adds no complete record.
LEMMA MaybeTornContent ==
    ASSUME TypeOK, OpInv, names' = names, MaybeTorn
    PROVE  SameContent
<1>1. CASE UNCHANGED files
  BY <1>1 DEF SameContent, TypeOK, FilesOK
<1>2. CASE op.stage = "write" /\ files' = [files EXCEPT ![Active].torn = TRUE]
  <2> DEFINE file == [files[Active] EXCEPT !.torn = TRUE]
  <2>1. Active \in DOMAIN files /\ files[Active] \in File
    BY <1>2 DEF TypeOK, FilesOK, OpInv
  <2>2. /\ file \in File /\ file.records = files[Active].records
        /\ file.first_index = files[Active].first_index
    BY Zenon, <2>1 DEF File
  <2>3. files' = [files EXCEPT ![Active] = file]
    BY <1>2
  <2> HIDE DEF file
  <2> QED
    BY Zenon, <1>2, <2>1, <2>2, <2>3, OneFileContent
<1> QED
  BY <1>1, <1>2 DEF MaybeTorn

\* Every other step is one of these four.
LEMMA ContentStep ==
    ASSUME TypeOK, OpInv, [Next]_vars
    PROVE  \/ SameContent \/ (create_segment /\ NextSequence \notin names)
           \/ write_record \/ remove_specific \/ PowerLoss
<1> USE DEF vars, walVars, objectVars
<1>1. UNCHANGED <<files, names>> => SameContent
  BY DEF SameContent, TypeOK, FilesOK
<1>2. names' = names /\ (files' = Repaired \/ RecoveryThrows) => SameContent
  BY Zenon, <1>1, RepairedContent DEF RecoveryThrows
<1>3. names' = names /\ files' = Synchronized /\ Active \in names => SameContent
  BY SynchronizedContent
<1>4. names' = names /\ MaybeTorn => SameContent
  BY MaybeTornContent
<1>5. removal_synchronized => SameContent
  BY DEF removal_synchronized, SameContent, Shown, Part
<1>6. ensure_segment \/ append_returns =>
        names' = names /\ (files' = files \/ (files' = Synchronized /\ Active \in names))
  BY DEF ensure_segment, append_returns, OpInv, TypeOK, OpOK, Appending
<1>7. create_segment => NextSequence \notin names \/ UNCHANGED <<files, names>>
  BY Zenon DEF create_segment
<1>8. CASE LogOperation
  <2>1. CASE ensure_segment \/ append_returns \/ append_fails
    BY Zenon, <1>1, <1>3, <1>4, <1>6, <2>1 DEF append_fails
  <2>2. CASE create_segment \/ segment_created
    BY Zenon, <1>1, <1>7, <2>2 DEF segment_created
  <2>3. CASE recover
    BY Zenon, <1>2, <2>3 DEF recover, recover_locked, RecoverySucceeds
  <2>4. ASSUME NEW first, NEW values, NEW durability, append(first, values, durability)
        PROVE  SameContent
    BY Zenon, <1>1, <2>4 DEF append
  <2> QED
    BY Zenon, <1>8, <2>1, <2>2, <2>3, <2>4 DEF LogOperation
<1>9. CASE Truncation
  BY Zenon, <1>1, <1>2, <1>5, <1>9
     DEF Truncation, recover_locked, RecoverySucceeds, truncate_through,
         truncation_returns, truncation_fails
<1>10. CASE Publication \/ UNCHANGED vars
  BY <1>1, <1>10 DEF Publication, publish, publish_links, publish_returns, publish_fails
<1>11. CASE KillProcess \/ Open
  BY <1>2, <1>4, <1>11 DEF KillProcess, Open, RecoverySucceeds
<1> QED
  BY <1>8, <1>9, <1>10, <1>11 DEF Next

\* The final segment of a chain loses records.
LEMMA ChainPrefix ==
    ASSUME NEW fs, NEW gs, NEW S \in SUBSET Number, Chain(fs, S), S \subseteq DOMAIN gs,
           \A n \in S : fs[n] \in File /\ gs[n] \in File,
           \A n \in S : /\ gs[n].first_index = fs[n].first_index
                        /\ Len(gs[n].records) <= Len(fs[n].records)
                        /\ \A i \in DOMAIN gs[n].records : gs[n].records[i] = fs[n].records[i]
                        /\ n + 1 \in S => gs[n].records = fs[n].records /\ ~ gs[n].torn
    PROVE  Chain(gs, S)
<1>1. ASSUME NEW n \in S
      PROVE  /\ End(gs[n]) \in Nat /\ End(fs[n]) \in Nat /\ End(gs[n]) <= End(fs[n])
             /\ fs[n].first_index \in Nat /\ gs[n].first_index = fs[n].first_index
             /\ DOMAIN gs[n].records \subseteq DOMAIN fs[n].records
             /\ n + 1 \in S => End(gs[n]) = End(fs[n])
  <2>1. /\ End(gs[n]) = gs[n].first_index + Len(gs[n].records)
        /\ End(fs[n]) = fs[n].first_index + Len(fs[n].records)
        /\ Len(gs[n].records) \in Nat /\ Len(fs[n].records) \in Nat
        /\ fs[n].first_index \in Nat
        /\ DOMAIN gs[n].records = 1..Len(gs[n].records)
        /\ DOMAIN fs[n].records = 1..Len(fs[n].records)
    BY Zenon, FileFields
  <2>2. gs[n].first_index = fs[n].first_index /\ Len(gs[n].records) <= Len(fs[n].records)
    BY Zenon
  <2> DEFINE f == fs[n].first_index
             a == Len(gs[n].records)
             b == Len(fs[n].records)
  <2>3. /\ f \in Nat /\ a \in Nat /\ b \in Nat /\ a <= b
        /\ End(gs[n]) = f + a /\ End(fs[n]) = f + b
        /\ DOMAIN gs[n].records = 1..a /\ DOMAIN fs[n].records = 1..b
    BY Zenon, <2>1, <2>2
  <2>4. n + 1 \in S => a = b
    BY Zenon
  <2> HIDE DEF f, a, b
  <2> QED
    BY <2>1, <2>2, <2>3, <2>4
<1>2. \A n \in S : \A i \in DOMAIN gs[n].records :
         gs[n].records[i].index = gs[n].first_index + i - 1
  BY <1>1 DEF Chain
<1>3. \A n \in S : n + 1 \in S =>
         gs[n + 1].first_index = End(gs[n]) /\ ~ gs[n].torn /\ gs[n].records # <<>>
  BY Zenon, <1>1 DEF Chain
<1>4. \A m, n \in S : End(gs[n]) <= gs[m].first_index + MaxRecords
  <2> SUFFICES ASSUME NEW m \in S, NEW n \in S
               PROVE  End(gs[n]) <= gs[m].first_index + MaxRecords
    BY Zenon
  <2>1. End(fs[n]) <= fs[m].first_index + MaxRecords
    BY Zenon DEF Chain
  <2>2. MaxRecords \in Nat
    BY Zenon, StorageConstants
  <2> QED
    BY <1>1, <2>1, <2>2
<1>5. \A m, n \in S : m < n => End(gs[m]) <= gs[n].first_index
  <2> SUFFICES ASSUME NEW m \in S, NEW n \in S, m < n
               PROVE  End(gs[m]) <= gs[n].first_index
    BY Zenon
  <2>1. End(fs[m]) <= fs[n].first_index
    BY Zenon DEF Chain
  <2> QED
    BY <1>1, <2>1
<1> QED
  BY Zenon, <1>2, <1>3, <1>4, <1>5 DEF Chain

\* What a power loss leaves of one segment.
LEMMA CutFields ==
    ASSUME NEW file \in File, NEW w, NEW cut \in Cut(file, w)
    PROVE  /\ cut.first_index = file.first_index
           /\ Len(cut.records) <= Len(file.records) /\ file.synced <= Len(cut.records)
           /\ DOMAIN cut.records = 1..Len(cut.records) /\ Len(cut.records) \in Nat
           /\ \A i \in DOMAIN cut.records : cut.records[i] = file.records[i]
           /\ cut.synced = Len(cut.records)
           /\ file.synced = Len(file.records) =>
                 cut.records = file.records /\ (cut.torn => file.torn \/ w)
<1>1. PICK n \in file.synced..Len(file.records), t \in BOOLEAN :
         /\ cut = [file EXCEPT !.records = SubSeq(@, 1, n), !.synced = n, !.torn = t]
         /\ t => n < Len(file.records) \/ file.torn \/ w
  BY Zenon DEF Cut
<1>2. /\ file.records \in Seq(LogRecord) /\ file.synced \in Nat /\ Len(file.records) \in Nat
      /\ file = [first_index |-> file.first_index, records |-> file.records,
                 synced |-> file.synced, torn |-> file.torn]
  BY DEF File
<1> DEFINE r == SubSeq(file.records, 1, n)
<1>3. /\ r \in Seq(LogRecord) /\ n \in Nat /\ Len(r) = n /\ DOMAIN r = 1..n
      /\ n <= Len(file.records) /\ file.synced <= n
      /\ \A i \in 1..n : r[i] = file.records[i]
  BY <1>2
<1>4. n = Len(file.records) => r = file.records
  BY <1>2
<1>5. cut = [file EXCEPT !.records = r, !.synced = n, !.torn = t]
  BY <1>1
<1> HIDE DEF r
<1>6. cut.records = r /\ cut.synced = n /\ cut.torn = t /\ cut.first_index = file.first_index
  BY <1>2, <1>5
<1>7. file.synced = Len(file.records) => n = Len(file.records)
  BY <1>2, <1>3
<1>8. file.synced = Len(file.records) =>
         cut.records = file.records /\ (cut.torn => file.torn \/ w)
  <2> SUFFICES ASSUME file.synced = Len(file.records)
               PROVE  cut.records = file.records /\ (cut.torn => file.torn \/ w)
    BY Zenon
  <2>1. cut.records = file.records
    BY Zenon, <1>4, <1>6, <1>7
  <2>2. ~ n < Len(file.records)
    BY <1>2, <1>7
  <2> QED
    BY Zenon, <1>1, <1>6, <2>1, <2>2
<1>9. /\ Len(cut.records) = n /\ DOMAIN cut.records = 1..n
      /\ \A i \in 1..n : cut.records[i] = file.records[i]
  BY Zenon, <1>3, <1>6
<1> QED
  BY Zenon, <1>3, <1>6, <1>8, <1>9

\* What a power loss leaves of the segments.
LEMMA PowerCut ==
    ASSUME TypeOK, PowerInv, PowerLoss, NEW n \in names'
    PROVE  /\ n \in DOMAIN files /\ files[n] \in File /\ files'[n] \in File
           /\ files'[n].first_index = files[n].first_index
           /\ Len(files'[n].records) <= Len(files[n].records)
           /\ files[n].synced <= Len(files'[n].records)
           /\ DOMAIN files'[n].records = 1..Len(files'[n].records)
           /\ Len(files'[n].records) \in Nat
           /\ \A i \in DOMAIN files'[n].records : files'[n].records[i] = files[n].records[i]
           /\ files'[n].synced = Len(files'[n].records)
           /\ files[n].synced = Len(files[n].records) =>
                 /\ files'[n].records = files[n].records
                 /\ files'[n].torn => files[n].torn \/ (op.stage = "write" /\ n = Active)
<1> DEFINE w == op.stage = "write" /\ n = Active
<1>1. /\ n \in DOMAIN files /\ files[n] \in File /\ files'[n] \in File
      /\ files'[n] \in Cut(files[n], w)
  BY Zenon, PowerLossOK DEF TypeOK, FilesOK
<1> HIDE DEF w
<1>2. /\ files'[n].first_index = files[n].first_index
      /\ Len(files'[n].records) <= Len(files[n].records)
      /\ files[n].synced <= Len(files'[n].records)
      /\ DOMAIN files'[n].records = 1..Len(files'[n].records)
      /\ Len(files'[n].records) \in Nat
      /\ \A i \in DOMAIN files'[n].records : files'[n].records[i] = files[n].records[i]
      /\ files'[n].synced = Len(files'[n].records)
      /\ files[n].synced = Len(files[n].records) =>
            files'[n].records = files[n].records /\ (files'[n].torn => files[n].torn \/ w)
  BY <1>1, CutFields
<1> QED
  BY Zenon, <1>1, <1>2 DEF w

\* The segment that append writes is the final one shown.
LEMMA ActiveFinal ==
    ASSUME LogInv, OpInv, op.stage \in {"record", "write", "create"}
    PROVE  /\ Active = Final(names) /\ DOMAIN mirror.segments = names
           /\ Mirrors(mirror, files, names)
<1>1. Mirrors(mirror, files, names)
  BY Zenon DEF LogInv, MirrorInv, OpInv
<1> QED
  BY <1>1 DEF Active, Mirrors

\* create_segment makes the next segment of the chain.
LEMMA CreateFacts ==
    ASSUME TypeOK, OpInv, LogInv, create_segment, NextSequence \notin names
    PROVE  /\ names' = names \cup {NextSequence} /\ NextSequence \in Number
           /\ names' \subseteq DOMAIN files'
           /\ files'[NextSequence] = NewSegment /\ NewSegment \in File
           /\ NewSegment.records = <<>> /\ NewSegment.first_index = Entry.index
           /\ NewSegment.synced = 0 /\ ~ NewSegment.torn
           /\ \A n \in names : /\ files'[n] = files[n] /\ files[n] \in File /\ n < NextSequence
                               /\ ~ files[n].torn /\ files[n].records # <<>>
           /\ names # {} => NextSequence = Final(names) + 1
                            /\ Entry.index = End(files[Final(names)])
           /\ names = {} => Entry.index = 1 \/ Reached(Entry.index - 1)
<1>1. /\ op.stage = "create" /\ names' = names \cup {NextSequence}
      /\ files' = [n \in DOMAIN files \cup {NextSequence} |->
                      IF n = NextSequence THEN NewSegment ELSE files[n]]
  BY DEF create_segment
<1>2. Active = Final(names) /\ DOMAIN mirror.segments = names /\ Mirrors(mirror, files, names)
  BY <1>1, ActiveFinal
<1>3. names \subseteq DOMAIN files /\ \A n \in names : files[n] \in File
  BY DEF TypeOK, FilesOK
<1>4. NextSequence \in Number /\ \A n \in names : n < NextSequence
  BY <1>2, NextSequenceOK
<1>5. \A n \in names : ~ files[n].torn /\ files[n].records # <<>>
  BY Zenon, <1>1 DEF LogInv, MirrorInv, OpInv
<1>6. /\ NewSegment \in File /\ NewSegment.records = <<>>
      /\ NewSegment.first_index = Entry.index
      /\ NewSegment.synced = 0 /\ ~ NewSegment.torn
  BY <1>1, EntryOK DEF NewSegment, File
<1>7. IF mirror.expected = 0 THEN Entry.index = 1 \/ Reached(Entry.index - 1)
                             ELSE Entry.index = mirror.expected
  BY Zenon, <1>1 DEF LogInv, BatchInv, Appending, OpInv
<1>8. CASE names = {}
  BY Zenon, <1>1, <1>2, <1>4, <1>6, <1>7, <1>8 DEF Mirrors
<1>9. CASE names # {}
  <2>1. Final(names) \in names
    BY Zenon, <1>9, FinalOf DEF OpInv, TypeOK, FilesOK, Number
  <2>2. mirror.expected = End(files[Final(names)]) /\ mirror.expected # 0
    BY Zenon, <1>2, <1>3, <1>9, <2>1, FileFields DEF Mirrors
  <2>3. NextSequence = Final(names) + 1
    BY <1>2, <1>9 DEF NextSequence
  <2> QED
    BY Zenon, <1>1, <1>3, <1>4, <1>5, <1>6, <1>7, <1>9, <2>2, <2>3
<1> QED
  BY Zenon, <1>8, <1>9

\* remove_specific removes the first segment of the chain.
LEMMA RemoveFacts ==
    ASSUME TypeOK, OpInv, RemovalsCovered, LogInv, remove_specific
    PROVE  \E x \in names :
              /\ names' = names \ {x} /\ files' = files /\ x \in op.removals
              /\ op'.stage = "removed" /\ op'.removals = op.removals \ {x}
              /\ \A m \in names' : x < m
              /\ x + 1 \in names' /\ files[x].records # <<>>
              /\ files[x + 1].first_index = End(files[x])
              /\ \A i \in DOMAIN files[x].records : Reached(files[x].records[i].index)
<1>1. PICK x \in op.removals :
         /\ \A m \in op.removals : x <= m
         /\ names' = names \ {x}
         /\ op' = [op EXCEPT !.stage = "removed", !.removals = @ \ {x}]
  BY Zenon DEF remove_specific
<1>2. files' = files /\ names \subseteq Nat
  BY DEF remove_specific, TypeOK, FilesOK, Number
<1>3. /\ x \in names /\ \A i \in DOMAIN files[x].records : Reached(files[x].records[i].index)
  BY Zenon DEF RemovalsCovered
<1>4. PICK h \in names : x < h
  BY DEF RemovalsCovered
<1>5. x + 1 \in names
  <2>1. x..h \subseteq names
    BY Zenon, <1>3 DEF LogInv, Chain, Consecutive
  <2>2. x + 1 \in x..h
    BY <1>2, <1>3, <1>4
  <2> QED
    BY <2>1, <2>2
<1>6. \A m \in names' : x < m
  <2> SUFFICES ASSUME NEW m \in names, m # x
               PROVE  x < m
    BY <1>1
  <2>1. m < x => m \in op.removals
    BY DEF LogInv
  <2> QED
    BY <1>1, <1>2, <1>3, <2>1
<1>7. op'.stage = "removed" /\ op'.removals = op.removals \ {x}
  BY <1>1 DEF TypeOK, OpOK
<1>8. x + 1 \in names'
  BY <1>1, <1>2, <1>3, <1>5
<1>9. files[x + 1].first_index = End(files[x]) /\ files[x].records # <<>>
  BY Zenon, <1>3, <1>5 DEF LogInv, Chain
<1> QED
  BY Zenon, <1>1, <1>2, <1>3, <1>6, <1>7, <1>8, <1>9

\* A power loss leaves a chain: only the final segment can lose records.
LEMMA ChainPowerLoss ==
    ASSUME TypeOK, OpInv, LogInv, PowerInv, PowerLoss
    PROVE  Chain(files', names')
<1>1. names' = names \/ names' = durableNames
  BY PowerNames
<1>2. Chain(files, names')
  BY Zenon, <1>1 DEF LogInv, PowerInv
<1>3. /\ names' \subseteq Number /\ names' \subseteq DOMAIN files'
      /\ \A n \in names' : files[n] \in File /\ files'[n] \in File
  BY Zenon, <1>1, PowerCut, PowerLossOK DEF TypeOK, FilesOK
<1>4. ASSUME NEW n \in names'
      PROVE  /\ files'[n].first_index = files[n].first_index
             /\ Len(files'[n].records) <= Len(files[n].records)
             /\ \A i \in DOMAIN files'[n].records : files'[n].records[i] = files[n].records[i]
             /\ n + 1 \in names' => files'[n].records = files[n].records /\ ~ files'[n].torn
  <2>1. /\ files'[n].first_index = files[n].first_index
        /\ Len(files'[n].records) <= Len(files[n].records)
        /\ \A i \in DOMAIN files'[n].records : files'[n].records[i] = files[n].records[i]
    BY Zenon, PowerCut
  <2>2. ASSUME n + 1 \in names'
        PROVE  files'[n].records = files[n].records /\ ~ files'[n].torn
    <3>1. files[n].synced = Len(files[n].records)
      BY Zenon, <1>1, <2>2 DEF PowerInv, SealedSynced
    <3>2. ~ files[n].torn
      BY Zenon, <1>2, <2>2 DEF Chain
    <3>3. ~ (op.stage = "write" /\ n = Active)
      <4> SUFFICES ASSUME op.stage = "write", n = Active
                   PROVE  FALSE
        OBVIOUS
      <4>1. names' = names /\ Active = Final(names)
        BY Zenon, <1>1, ActiveFinal DEF PowerInv
      <4>2. \A m \in names : m <= Final(names)
        BY Zenon, <4>1, FinalOf DEF OpInv, TypeOK, FilesOK, Number
      <4>3. n \in Nat /\ n + 1 <= n
        BY Zenon, <1>3, <2>2, <4>1, <4>2 DEF Number
      <4> QED
        BY <4>3
    <3> QED
      BY Zenon, <3>1, <3>2, <3>3, PowerCut
  <2> QED
    BY <2>1, <2>2
<1> QED
  BY <1>2, <1>3, <1>4, ChainPrefix

\* Every step leaves a chain of segments.
LEMMA ChainStep ==
    ASSUME TypeOK, TypeOK', OpInv, RemovalsCovered, LogInv, Power => PowerInv, [Next]_vars
    PROVE  Chain(files', names')
<1>0. Chain(files, names) /\ names \subseteq Number /\ names \subseteq DOMAIN files
  BY DEF LogInv, TypeOK, FilesOK
<1>1. CASE SameContent
  <2>1. ASSUME NEW n \in names, n + 1 \in names
        PROVE  ~ files'[n].torn
    <3>1. ~ files[n].torn
      BY Zenon, <1>0, <2>1 DEF Chain
    <3>2. ~ (op.stage = "write" /\ n = Active)
      <4> SUFFICES ASSUME op.stage = "write", n = Active
                   PROVE  FALSE
        OBVIOUS
      <4>1. \A m \in names : m <= n
        BY <1>0, ActiveFinal, FinalOf DEF OpInv, Number
      <4>2. n \in Nat /\ n + 1 <= n
        BY <1>0, <2>1, <4>1 DEF Number
      <4> QED
        BY <4>2
    <3> QED
      BY <1>1, <3>1, <3>2 DEF SameContent
  <2> QED
    BY <1>0, <1>1, <2>1, ChainSame DEF SameContent
<1>2. CASE create_segment /\ NextSequence \notin names
  <2> DEFINE x == NextSequence
  <2>1. /\ x \in Number /\ names' = names \cup {x} /\ names \cup {x} \subseteq DOMAIN files'
        /\ \A n \in names : files[n] \in File /\ ~ files[n].torn /\ files[n].records # <<>>
        /\ \A n \in names : files'[n] = files[n] /\ n < x
        /\ files'[x] \in File /\ files'[x].records = <<>>
        /\ names # {} => x = Final(names) + 1 /\ files'[x].first_index = End(files[Final(names)])
    BY Zenon, <1>2, CreateFacts
  <2> HIDE DEF x
  <2>2. Chain(files', names \cup {x})
    BY Zenon, <1>0, <2>1, ChainNew
  <2> QED
    BY Zenon, <2>1, <2>2
<1>3. CASE write_record
  <2> DEFINE h == Final(names)
  <2>1. /\ h = Active /\ Mirrors(mirror, files, names) /\ names' = names
        /\ Entry.index = mirror.expected /\ op.done < Len(op.entries)
        /\ mirror.count + Len(op.entries) <= MaxRecords + op.done
    BY <1>3, ActiveFinal DEF write_record, LogInv, BatchInv, OpInv, Appending
  <2>2. /\ h \in names /\ \A n \in names : files[n] \in File /\ files'[n] \in File
        /\ names \subseteq DOMAIN files'
    BY Zenon, <1>0, <1>3, <2>1, WriteExtends DEF TypeOK, FilesOK
  <2>3. /\ \A n \in names : n # h => files'[n] = files[n]
        /\ files'[h].first_index = files[h].first_index
        /\ Len(files'[h].records) = Len(files[h].records) + 1
        /\ files'[h].records[Len(files'[h].records)] = Entry
        /\ \A i \in DOMAIN files[h].records : files'[h].records[i] = files[h].records[i]
    BY Zenon, <1>0, <1>3, <2>1, WriteExtends
  <2>4. /\ mirror.expected = End(files[h])
        /\ mirror.count = mirror.expected - files[First(names)].first_index
    BY Zenon, <2>1, <2>2 DEF Mirrors
  <2>5. End(files[h]) < files[First(names)].first_index + MaxRecords
    <3> DEFINE f == files[First(names)].first_index
               e == End(files[h])
               l == Len(op.entries)
               d == op.done
               c == mirror.count
    <3>0. First(names) \in names
      BY Zenon, <1>0, <2>2, FirstOf DEF Chain, Number
    <3>1. f \in Nat /\ e \in Nat /\ l \in Nat /\ d \in Nat /\ MaxRecords \in Nat
      <4>1. f \in Nat /\ e \in Nat
        BY Zenon, <2>2, <3>0, FileFields
      <4>2. l \in Nat /\ d \in Nat /\ MaxRecords \in Nat
        BY StorageConstants DEF TypeOK, OpOK
      <4> QED
        BY <4>1, <4>2
    <3>2. c = e - f /\ d < l /\ c + l <= MaxRecords + d
      BY Zenon, <2>1, <2>4
    <3> HIDE DEF f, e, l, d, c
    <3>3. e < f + MaxRecords
      BY <3>1, <3>2
    <3> QED
      BY Zenon, <3>3 DEF f, e
  <2> QED
    <3>1. files'[h].records[Len(files'[h].records)].index = End(files[h])
      BY Zenon, <2>1, <2>3, <2>4
    <3>2. Chain(files', names)
      BY Zenon, <1>0, <2>2, <2>3, <2>5, <3>1, ChainWrite
    <3> QED
      BY Zenon, <1>0, <2>1, <2>2, <3>2
<1>4. CASE remove_specific
  <2>1. PICK x \in names : /\ names' = names \ {x} /\ files' = files
                           /\ \A m \in names' : x < m
                           /\ x + 1 \in names'
    BY <1>4, RemoveFacts
  <2>2. names' \subseteq names /\ names' # {}
    BY <2>1
  <2>3. HasFinal(names')
    <3>1. PICK h \in names : \A m \in names : m <= h
      BY Zenon, <1>0, <2>1 DEF Chain, HasFinal
    <3>2. h # x
      BY <1>0, <2>1, <3>1 DEF Number
    <3> QED
      BY <2>1, <3>1, <3>2 DEF HasFinal
  <2>4. HasFirst(names')
    <3>1. \A m \in names' : x + 1 <= m
      BY <1>0, <2>1, <2>2 DEF Number
    <3> QED
      BY <2>1, <3>1 DEF HasFirst
  <2>5. Consecutive(names')
    <3> SUFFICES ASSUME NEW m \in names', NEW n \in names', NEW k \in m..n
                 PROVE  k \in names'
      BY DEF Consecutive
    <3>1. m \in Nat /\ n \in Nat /\ x \in Nat /\ x < m /\ m..n \subseteq names
      BY Zenon, <1>0, <2>1, <2>2 DEF Number, Chain, Consecutive
    <3>2. k # x
      BY <3>1
    <3> QED
      BY <2>1, <3>1, <3>2
  <2> QED
    BY <1>0, <2>1, <2>2, <2>3, <2>4, <2>5, ChainPart
<1>5. CASE PowerLoss
  BY Zenon, <1>5, ChainPowerLoss DEF PowerLoss, Power
<1> QED
  BY <1>1, <1>2, <1>3, <1>4, <1>5, ContentStep
=============================================================================
