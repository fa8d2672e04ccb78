--------------------------- MODULE MCMetadataStore --------------------------
(* Small instances of MetadataStore: the transactions clients send. *)
EXTENDS MetadataStore

Put(k, v, id) == [op |-> "put", key |-> k, value |-> v, lease_id |-> id]
Delete(from, to) == [op |-> "delete", start |-> from, end |-> to]
Read(from, to) == [op |-> "range", start |-> from, end |-> to, revision |-> 0]
Test(k, target, result, expected) ==
    [key |-> k, target |-> target, result |-> result, expected |-> expected]

Request(comparisons, ownership, success, failure) ==
    [comparisons |-> comparisons, lease_ownership |-> ownership,
     success |-> success, failure |-> failure]

Owner(id, token) == [id |-> id, fencing_token |-> token]

\* Claim a key for a lease, and drop a claim when the lease is not owned.
LeaseTransactions ==
    {Request({}, {Owner(id, token)}, <<Put(k, 1, id)>>, <<Delete(k, k + 1)>>) :
        id \in 1..2, token \in 1..2, k \in Keys}

\* Hand both keys from one lease to another under both ownerships.
HandoverTransactions ==
    {Request({Test(1, "lease_id", "equal", a)}, {Owner(a, s), Owner(b, t)},
             <<Put(1, 1, b), Put(2, 1, a)>>, <<Read(1, 3)>>) :
        <<a, b, s, t>> \in {<<1, 2, 1, 2>>, <<1, 2, 2, 1>>, <<2, 1, 1, 2>>}}

\* Guarded swaps, invalid branches, and a leased put without ownership.
PlainTransactions ==
    {Request({Test(1, "version", "greater", 0), Test(2, "mod_revision", "less", 2)},
             {}, <<Delete(1, 2), Put(2, 1, 0)>>, <<Delete(1, 3)>>),
     Request({Test(2, "create_revision", "not_equal", 0)},
             {}, <<Put(1, 1, 0), Delete(1, 3)>>, <<Put(1, 1, 0), Put(2, 1, 0)>>),
     Request({Test(1, "value", "equal", 1)},
             {}, <<Put(2, 1, 1)>>, <<Delete(1, 3), Delete(2, 3)>>)}

MCTransactions == LeaseTransactions \cup HandoverTransactions \cup PlainTransactions

\* An empty store, and one built from two initial key values.
MCInitialValues ==
    {[k \in Keys |-> Absent],
     [k \in Keys |-> [value |-> 1, version |-> k, create_revision |-> 1,
                      mod_revision |-> 1, lease_id |-> 0]]}

MCWatchRequests ==
    {[start |-> 2, end |-> 0, filter |-> "exclude_put", progress |-> FALSE],
     [start |-> 1, end |-> 3, filter |-> "exclude_erase", progress |-> TRUE]}

\* Watches and leases meet in WatchClients; here each has the store to itself.
WatchesOrLeases ==
    \/ \A w \in WatchIds : watchers[w] = Absent
    \/ \A id \in LeaseIds : leases[id] = Absent
=============================================================================
