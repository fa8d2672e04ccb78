------------------------- MODULE MCLinearizability -------------------------
EXTENDS Linearizability

CONSTANTS k, v, w

get == Operation("get", k, Absent, Absent)
put == Operation("put", k, Absent, v)
erase == Operation("erase", k, Absent, Absent)
cas(expected, desired) == Operation("cas", k, expected, desired)

Program(operations, refusal, lost) ==
    [operations |-> operations, refusal |-> refusal, lost |-> lost]

AllPrograms ==
    {Program(<<put, cas(v, w), get>>, "failed", 1),
     Program(<<cas(Absent, v), erase, get>>, "timed_out", 1),
     Program(<<put, cas(v, Absent), cas(Absent, Absent)>>, "failed", 1),
     Program(<<put, put, erase>>, "timed_out", 2)}

Bound(operations, explored, memo) ==
    [operations |-> operations, states |-> explored, memo |-> memo]

\* Room for the whole search, and limits that cut it at each of its tests.
AllLimits ==
    {Bound(3, 31, 31), Bound(3, 3, 31), Bound(3, 31, 1), Bound(2, 5, 5), Bound(3, 0, 31)}
=============================================================================
