---------------------------- MODULE RaftElection ----------------------------
(***************************************************************************)
(* Leader election over durable hard state: the election handlers of the   *)
(* figure2 core, with every effect that depends on a new term or vote held *)
(* back until the persistence of that term and vote completes, and servers *)
(* that crash at any point and restart from what their disk holds.         *)
(*                                                                         *)
(* Messages are never removed: a message that is lost is never received,   *)
(* one that is duplicated is received again, and any order is possible.  A *)
(* server that is down is one that takes no step.  A refused vote tells    *)
(* its receiver only a term, which ObserveHigherTerm stands for.  Logs are *)
(* left out: whether a candidate's is up to date is a free choice here.    *)
(***************************************************************************)
EXTENDS RaftServers, Sequences

VARIABLES
    currentTerm, votedFor, role, votes_received,
    pending,        \* hard states whose persistence is requested, in order
    deferred,       \* messages held back until all of them are durable
    durable,        \* the hard state on disk
    messages,       \* every message ever sent
    leaders         \* history: [term, node] of every initialize_leader

node == <<currentTerm, votedFor, role, votes_received, pending, deferred>>
vars == <<node, durable, messages, leaders>>

Term == 0..MaxTerm

HardState == [term : Term, vote : Node \cup {None}]

Message ==
    [type : {"request"}, term : Term, from : Node]
    \cup [type : {"grant"}, term : Term, from : Node, to : Node]

HardStateOf(t, v) == [term |-> t, vote |-> v]

\* Servers start from whatever term and vote their disks hold.
Init ==
    /\ durable \in [Node -> HardState]
    /\ currentTerm = [n \in Node |-> durable[n].term]
    /\ votedFor = [n \in Node |-> durable[n].vote]
    /\ role = [n \in Node |-> "follower"]
    /\ votes_received = [n \in Node |-> {}]
    /\ pending = [n \in Node |-> <<>>]
    /\ deferred = [n \in Node |-> {}]
    /\ messages = {}
    /\ leaders = {}

-----------------------------------------------------------------------------

\* Input reaches a server only while no hard state is pending.
Ready(n) == pending[n] = <<>>

\* gate_on_hard_state: send at once, or after the stages are durable.
Emit(n, stages, out) ==
    /\ pending' = [pending EXCEPT ![n] = stages]
    /\ IF stages = <<>>
       THEN messages' = messages \cup out /\ UNCHANGED deferred
       ELSE deferred' = [deferred EXCEPT ![n] = out] /\ UNCHANGED messages

Become(n, newRole, newVotes) ==
    /\ role' = [role EXCEPT ![n] = newRole]
    /\ votes_received' = [votes_received EXCEPT ![n] = newVotes]

\* handle_timeout and start_election.
ElectionTimeout(n) ==
    LET t == currentTerm[n] + 1
    IN  /\ Ready(n)
        /\ role[n] # "leader"
        /\ t <= MaxTerm
        /\ currentTerm' = [currentTerm EXCEPT ![n] = t]
        /\ votedFor' = [votedFor EXCEPT ![n] = n]
        /\ Become(n, "candidate", {n})
        /\ Emit(n, <<HardStateOf(t, n)>>,
                {[type |-> "request", term |-> t, from |-> n]})
        /\ UNCHANGED <<durable, leaders>>

\* observe_higher_term for any RPC other than a vote request.
ObserveHigherTerm(n, t) ==
    /\ Ready(n)
    /\ t > currentTerm[n]
    /\ currentTerm' = [currentTerm EXCEPT ![n] = t]
    /\ votedFor' = [votedFor EXCEPT ![n] = None]
    /\ Become(n, "follower", {})
    /\ Emit(n, <<HardStateOf(t, None)>>, {})
    /\ UNCHANGED <<durable, leaders>>

\* handle_request_vote; a higher term and the vote persist one by one.
ReceiveRequestVote(n, m, fresh) ==
    LET higher == m.term > currentTerm[n]
        t == IF higher THEN m.term ELSE currentTerm[n]
        vote == IF higher THEN None ELSE votedFor[n]
        granted == m.term = t /\ vote \in {None, m.from} /\ fresh
        stages == (IF higher THEN <<HardStateOf(t, None)>> ELSE <<>>)
                  \o (IF granted /\ vote # m.from
                      THEN <<HardStateOf(t, m.from)>> ELSE <<>>)
    IN  /\ Ready(n)
        /\ m.type = "request" /\ m.from # n
        /\ currentTerm' = [currentTerm EXCEPT ![n] = t]
        /\ votedFor' = [votedFor EXCEPT ![n] = IF granted THEN m.from ELSE vote]
        /\ IF higher THEN Become(n, "follower", {})
           ELSE UNCHANGED <<role, votes_received>>
        /\ Emit(n, stages,
                IF granted
                THEN {[type |-> "grant", term |-> t, from |-> n, to |-> m.from]}
                ELSE {})
        /\ UNCHANGED <<durable, leaders>>

\* handle_request_vote_response and initialize_leader.
ReceiveRequestVoteResponse(n, m) ==
    LET votes == votes_received[n] \cup {m.from}
    IN  /\ Ready(n)
        /\ m.type = "grant" /\ m.to = n
        /\ m.term = currentTerm[n] /\ role[n] = "candidate"
        /\ IF Cardinality(votes) >= majority
           THEN /\ Become(n, "leader", {})
                /\ leaders' = leaders \cup {[term |-> currentTerm[n], node |-> n]}
           ELSE /\ Become(n, "candidate", votes)
                /\ UNCHANGED leaders
        /\ UNCHANGED <<currentTerm, votedFor, pending, deferred, durable, messages>>

\* An AppendEntries or InstallSnapshot of the server's own term.
AcceptLeader(n) ==
    /\ Ready(n)
    /\ Become(n, "follower", {})
    /\ UNCHANGED <<currentTerm, votedFor, pending, deferred, durable, messages, leaders>>

\* RaftHardStatePersisted: one stage is durable, the last one releases.
HardStatePersisted(n) ==
    /\ pending[n] # <<>>
    /\ durable' = [durable EXCEPT ![n] = Head(pending[n])]
    /\ pending' = [pending EXCEPT ![n] = Tail(@)]
    /\ IF Len(pending[n]) = 1
       THEN /\ messages' = messages \cup deferred[n]
            /\ deferred' = [deferred EXCEPT ![n] = {}]
       ELSE UNCHANGED <<messages, deferred>>
    /\ UNCHANGED <<currentTerm, votedFor, role, votes_received, leaders>>

\* A crash loses memory and pending persistence; the disk is reloaded.
Restart(n) ==
    /\ currentTerm' = [currentTerm EXCEPT ![n] = durable[n].term]
    /\ votedFor' = [votedFor EXCEPT ![n] = durable[n].vote]
    /\ Become(n, "follower", {})
    /\ pending' = [pending EXCEPT ![n] = <<>>]
    /\ deferred' = [deferred EXCEPT ![n] = {}]
    /\ UNCHANGED <<durable, messages, leaders>>

Next ==
    \E n \in Node :
       \/ ElectionTimeout(n)
       \/ \E t \in Term : ObserveHigherTerm(n, t)
       \/ \E m \in messages, fresh \in BOOLEAN : ReceiveRequestVote(n, m, fresh)
       \/ \E m \in messages : ReceiveRequestVoteResponse(n, m)
       \/ AcceptLeader(n)
       \/ HardStatePersisted(n)
       \/ Restart(n)

Spec == Init /\ [][Next]_vars

-----------------------------------------------------------------------------

\* Terms stay within the bound, votes name servers, and only well-formed
\* ballots are sent or deferred.
TypeOK ==
    /\ currentTerm \in [Node -> Term]
    /\ votedFor \in [Node -> Node \cup {None}]
    /\ role \in [Node -> {"follower", "candidate", "leader"}]
    /\ votes_received \in [Node -> SUBSET Node]
    /\ pending \in [Node -> Seq(HardState)]
    /\ deferred \in [Node -> SUBSET Message]
    /\ durable \in [Node -> HardState]
    /\ messages \subseteq Message
    /\ leaders \subseteq [term : Term, node : Node]

(***************************************************************************)
(* Over the whole life of the cluster no term elects two leaders, wherever *)
(* a voter crashes between the two stages of a vote and whichever requests *)
(* and responses are lost, repeated or late.                               *)
(***************************************************************************)
ElectionSafety ==
    \A a, b \in leaders : a.term = b.term => a.node = b.node

(***************************************************************************)
(* The hard state on disk never goes back: the term never falls, and a     *)
(* vote cast in a term stays as long as the term does.                     *)
(***************************************************************************)
DurableVoteKept ==
    [][\A n \in Node :
         /\ durable'[n].term >= durable[n].term
         /\ durable'[n].term = durable[n].term /\ durable[n].vote # None
              => durable'[n].vote = durable[n].vote]_vars
=============================================================================
