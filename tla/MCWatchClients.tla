--------------------------- MODULE MCWatchClients ---------------------------
(* Small instances of WatchClients: two keys, and what clients watch. *)
EXTENDS WatchClients

Put(k) == [op |-> "put", key |-> k, value |-> 1, lease_id |-> 0]
LeasedPut(k, id) == [op |-> "put", key |-> k, value |-> 1, lease_id |-> id]

\* Both keys at once, and one key under the first lease.
MCTransactions ==
    {[comparisons |-> {}, lease_ownership |-> {},
      success |-> <<Put(1), [op |-> "delete", start |-> 2, end |-> 3]>>,
      failure |-> <<>>],
     [comparisons |-> {}, lease_ownership |-> {[id |-> 1, fencing_token |-> 1]},
      success |-> <<LeasedPut(2, 1)>>, failure |-> <<>>]}

MCInitialValues == {[k \in Keys |-> Absent]}

\* One exact key, all keys without erasures, and one key's erasures.
MCWatchRequests ==
    {[start |-> 2, end |-> 0, filter |-> "none", progress |-> FALSE],
     [start |-> 1, end |-> 3, filter |-> "exclude_erase", progress |-> TRUE],
     [start |-> 1, end |-> 2, filter |-> "exclude_put", progress |-> FALSE]}
=============================================================================
