---------------------------- MODULE MCKuraClient ----------------------------
(***************************************************************************)
(* Four rosters: two writers compete for the table; a writer, a reader and *)
(* the collector meet; two followers that use the same watch IDs follow a  *)
(* writer faster than their queues; one follower falls so far behind that  *)
(* its replay is longer than its queue.                                    *)
(***************************************************************************)
EXTENDS KuraClient, TLC

CONSTANTS w1, w2, r1, f1, f2

\* current, readers/, snapshots/, writer in byte order.
MCKeys == 1..6
MCReaderKeys == {2, 3}
MCSnapshotKey == <<4, 5>>
MCInitialValues == {[k \in Keys |-> Absent]}

Following ==
    [clients |-> {w1, f1, f2}, grants |-> 1, ttl |-> 1, ticks |-> 0,
     pointers |-> (w1 :> {1, 2}), publishes |-> 2, faults |-> 0, collects |-> FALSE]

MCRosters ==
    [writers |-> [clients |-> {w1, w2}, grants |-> 2, ttl |-> 1, ticks |-> Uint64Max,
                  pointers |-> (w1 :> {1} @@ w2 :> {1, 2}),
                  publishes |-> 2, faults |-> 1, collects |-> FALSE],
     readers |-> [clients |-> {w1, r1}, grants |-> 2, ttl |-> 2, ticks |-> Uint64Max,
                  pointers |-> (w1 :> {1, 2} @@ r1 :> {1}),
                  publishes |-> 2, faults |-> 0, collects |-> TRUE],
     followers |-> Following,
     lagging |-> [Following EXCEPT !.clients = {w1, f1}, !.publishes = 3]]
=============================================================================
