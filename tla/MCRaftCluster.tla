--------------------------- MODULE MCRaftCluster ---------------------------
(* Three servers, and the storage and schedules each run starts from. *)
EXTENDS RaftCluster, TLC

CONSTANTS s1, s2, s3

Entry(t, n) == [term |-> t, command |-> n]

Disk(t, log) == [EmptyDisk EXCEPT !.term = t, !.log = log]

FreshDisks == [n \in Node |-> EmptyDisk]

\* Entries of terms 2 and 3 compete for index 1; none is committed.
DivergentDisks ==
    (s1 :> Disk(3, <<Entry(2, s1)>>))
    @@ (s2 :> Disk(3, <<>>))
    @@ (s3 :> [Disk(4, <<Entry(3, s3)>>) EXCEPT !.vote = s3])

\* The entry of term 2 is committed and s1 has applied it; s3 holds another.
LaggingDisks ==
    (s1 :> [Disk(2, <<Entry(2, s1)>>) EXCEPT !.machine = <<Entry(2, s1)>>])
    @@ (s2 :> Disk(2, <<Entry(2, s1)>>))
    @@ (s3 :> Disk(2, <<Entry(1, s3)>>))

\* s3 has applied the first entry and lacks the second.
ShorterDisks ==
    LET first == Entry(1, s1)
        longer == Disk(2, <<first, Entry(2, s1)>>)
    IN  (s1 :> [longer EXCEPT !.machine = <<first>>])
        @@ (s2 :> longer)
        @@ (s3 :> [Disk(2, <<first>>) EXCEPT !.machine = <<first>>])

\* s1 restarts with a snapshot older than what it has applied.
AheadDisks ==
    LET first == Entry(1, s1)
        longer == Disk(2, <<first, Entry(2, s1)>>)
    IN  (s1 :> [longer EXCEPT !.machine = longer.log,
                              !.snapshot = [index |-> 1, term |-> 1, state |-> <<first>>]])
        @@ (s2 :> longer)
        @@ (s3 :> Disk(2, <<>>))

S1ThenS2 == [t \in 1..MaxTerm |-> IF t = 1 THEN {s1} ELSE {s2}]
S1ThenS3 == [t \in 1..MaxTerm |-> IF t <= 4 THEN {s1} ELSE {s3}]
OnlyS1 == [t \in 1..MaxTerm |-> IF t <= 3 THEN {s1} ELSE {}]
WithoutS2 == [t \in 1..MaxTerm |-> {s1, s3}]

\* The partition that lets each of two leaders reach only the third server.
Partitioned == [t \in 1..MaxTerm |-> IF t <= 4 THEN {s1, s2} ELSE {s2, s3}]
HandedOver == [t \in 1..MaxTerm |-> IF t = 1 THEN {s1, s2} ELSE {s2, s3}]
FirstTermOfTwo == [t \in 1..MaxTerm |-> IF t = 1 THEN {s1, s2} ELSE Node]

UpToOne == [n \in Node |-> 1]
UpToTwo == [n \in Node |-> 2]
OneThenTwo == [n \in Node |-> IF n = s1 THEN 1 ELSE 2]

Quiet ==
    [disks |-> FreshDisks, log |-> UpToOne, transfers |-> 0, restarts |-> 0, crashers |-> Node,
     heartbeats |-> 0, campaigns |-> S1ThenS2, reach |-> FirstTermOfTwo,
     readers |-> {}, inputs |-> {}]

TermScenarios ==
    [contend |-> [Quiet EXCEPT !.restarts = 1]]

\* Two candidates of one term.
OneBallot == [t \in 1..MaxTerm |-> IF t = 1 THEN {s1, s2} ELSE {}]
Everyone == [t \in 1..MaxTerm |-> Node]
NoEntry == [n \in Node |-> 0]

\* s1 brings s3 up to date with a snapshot.
Repair ==
    [Quiet EXCEPT
        !.disks = LaggingDisks, !.log = UpToTwo,
        !.campaigns = OnlyS1, !.reach = WithoutS2, !.inputs = {"snapshot"}]

LogScenarios ==
    [diverge |-> [Quiet EXCEPT
        !.disks = DivergentDisks, !.log = UpToTwo, !.restarts = 1, !.crashers = {s2},
        !.campaigns = S1ThenS3, !.reach = Partitioned],
     repair |-> [Repair EXCEPT !.transfers = 1, !.restarts = 1, !.crashers = {s1, s3}],
     resend |-> [Repair EXCEPT !.disks = AheadDisks, !.transfers = 2],
     refuse |-> [Quiet EXCEPT
        !.disks = ShorterDisks, !.log = UpToTwo, !.transfers = 2, !.restarts = 1, !.crashers = {s1, s3},
        !.campaigns = OnlyS1, !.reach = WithoutS2, !.inputs = {"snapshot"}],
     ballot |-> [Quiet EXCEPT
        !.log = NoEntry, !.restarts = 2, !.campaigns = OneBallot, !.reach = Everyone]]

RepairScenarios == [repair |-> LogScenarios.repair]

\* A read while leadership is handed over; one that is cancelled or delayed.
ReadScenarios ==
    [handover |-> [Quiet EXCEPT
        !.log = OneThenTwo, !.reach = HandedOver, !.readers = {s1}],
     cancel |-> [Quiet EXCEPT
        !.campaigns = OnlyS1, !.reach = HandedOver, !.readers = {s1}, !.inputs = {"cancel", "failure"}]]
============================================================================
