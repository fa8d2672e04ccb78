------------------------- MODULE RaftElectionProofs -------------------------
(***************************************************************************)
(* Election safety for every number of servers and every term bound.       *)
(***************************************************************************)
EXTENDS RaftElection, FiniteSetTheorems, SequenceTheorems, TLAPS

\* The candidate a message is a vote for: a request is the vote for itself.
CandidateOf(m) == IF m.type = "request" THEN m.from ELSE m.to

Final(n) == HardStateOf(currentTerm[n], votedFor[n])
First(n) == HardStateOf(currentTerm[n], None)

\* Memory and disk agree when nothing is pending; otherwise the stages lead
\* from the disk to memory without passing over a vote.
StagesLeadToMemory(n) ==
    \/ /\ pending[n] = <<>>
       /\ durable[n] = Final(n)
       /\ deferred[n] = {}
    \/ /\ pending[n] = <<Final(n)>>
       /\ \/ durable[n].term < currentTerm[n]
          \/ durable[n] = First(n)
    \/ /\ pending[n] = <<First(n), Final(n)>>
       /\ durable[n].term < currentTerm[n]

\* What is held back speaks of the vote in memory.
DeferredMatchesMemory(n) ==
    \A m \in deferred[n] :
       m.from = n /\ m.term = currentTerm[n] /\ CandidateOf(m) = votedFor[n]

\* A released ballot is on its voter's disk until a later term is.
BallotsDurable ==
    \A m \in messages :
       \/ durable[m.from].term > m.term
       \/ durable[m.from] = HardStateOf(m.term, CandidateOf(m))

OneBallot ==
    \A a, b \in messages :
       a.from = b.from /\ a.term = b.term => CandidateOf(a) = CandidateOf(b)

Ballot(S, v, t, c) == \E m \in S : m.from = v /\ m.term = t /\ CandidateOf(m) = c

VotesAreBallots(n) ==
    role[n] = "candidate" =>
       /\ votedFor[n] = n
       /\ \A v \in votes_received[n] :
            Ballot(messages \cup deferred[n], v, currentTerm[n], n)

\* What holds of each server by itself.
NodeInv(n) == StagesLeadToMemory(n) /\ DeferredMatchesMemory(n) /\ VotesAreBallots(n)

LeadersHaveMajority ==
    \A l \in leaders :
       \E Q \in SUBSET Node :
          /\ Cardinality(Q) >= majority
          /\ \A v \in Q : Ballot(messages, v, l.term, l.node)

ElectionInv ==
    /\ TypeOK
    /\ \A n \in Node : NodeInv(n)
    /\ BallotsDurable
    /\ OneBallot
    /\ LeadersHaveMajority

\* Servers that start from their disks satisfy the invariant.
LEMMA ElectionInit == Init => ElectionInv
<1> SUFFICES ASSUME Init PROVE ElectionInv
  OBVIOUS
<1>1. \A n \in Node : /\ durable[n].term \in Term /\ durable[n].vote \in Node \cup {None}
                      /\ durable[n] = HardStateOf(durable[n].term, durable[n].vote)
  BY DEF Init, HardState, HardStateOf
<1>2. TypeOK
  BY <1>1 DEF Init, TypeOK
<1>3. \A n \in Node : NodeInv(n)
  BY <1>1 DEF Init, NodeInv, StagesLeadToMemory, DeferredMatchesMemory, VotesAreBallots, Final
<1> QED
  BY Zenon, <1>2, <1>3 DEF Init, ElectionInv, BallotsDurable, OneBallot, LeadersHaveMajority

\* Ballots already released are never withdrawn.
LEMMA BallotsStay ==
    ASSUME NEW S, NEW T, S \subseteq T, NEW v, NEW t, NEW c, Ballot(S, v, t, c)
    PROVE  Ballot(T, v, t, c)
  BY DEF Ballot

\* Sending more messages takes no majority away from an elected leader.
LEMMA LeadersKept ==
    ASSUME ElectionInv, messages \subseteq messages', leaders' = leaders
    PROVE  LeadersHaveMajority'
<1> SUFFICES ASSUME NEW l \in leaders
             PROVE  \E Q \in SUBSET Node :
                      /\ Cardinality(Q) >= majority
                      /\ \A v \in Q : Ballot(messages', v, l.term, l.node)
  BY DEF LeadersHaveMajority, Ballot, CandidateOf
<1>1. PICK Q \in SUBSET Node :
         Cardinality(Q) >= majority /\ \A v \in Q : Ballot(messages, v, l.term, l.node)
  BY DEF ElectionInv, LeadersHaveMajority
<1> QED
  BY <1>1, BallotsStay

\* A server whose disk moves to h without dropping a vote may release
\* ballots for h.
LEMMA ReleaseKeeps ==
    ASSUME ElectionInv, NEW n \in Node, NEW h \in HardState, NEW out \in SUBSET Message,
           durable' = [durable EXCEPT ![n] = h], messages' = messages \cup out,
           \/ h = durable[n]
           \/ durable[n].term < h.term
           \/ durable[n].term = h.term /\ durable[n].vote = None,
           \A m \in out : m.from = n /\ m.term = h.term /\ CandidateOf(m) = h.vote
    PROVE  BallotsDurable' /\ OneBallot'
<1>1. \A m \in Message : CandidateOf(m) \in Node /\ m.from \in Node /\ m.term \in Term
  BY DEF Message, CandidateOf
<1>2. durable'[n] = h /\ \A j \in Node \ {n} : durable'[j] = durable[j]
  BY DEF ElectionInv, TypeOK
<1>3. \A j \in Node : durable[j].term \in Int /\ h.term \in Int
  BY DEF ElectionInv, TypeOK, HardState, Term
<1>4. \A t \in Term : t \in Int
  BY DEF Term
<1>5. HardStateOf(h.term, h.vote) = h
  BY DEF HardState, HardStateOf
<1>6. \A t, v : HardStateOf(t, v).term = t /\ HardStateOf(t, v).vote = v
  BY DEF HardStateOf
<1>7. BallotsDurable'
  <2> SUFFICES ASSUME NEW m \in messages'
               PROVE  \/ durable'[m.from].term > m.term
                      \/ durable'[m.from] = HardStateOf(m.term, CandidateOf(m))
    BY Zenon DEF BallotsDurable, CandidateOf
  <2>1. CASE m \in out
    BY <1>2, <1>5, <2>1
  <2>2. CASE m \in messages /\ m.from # n
    BY <1>1, <1>2, <2>2 DEF ElectionInv, BallotsDurable, TypeOK
  <2>3. CASE m \in messages /\ m.from = n
    <3>1. m.term \in Int /\ CandidateOf(m) # None
      BY <1>1, <1>4, <2>3, ElectionConstants DEF ElectionInv, TypeOK
    <3>2. durable[n].term > m.term \/ durable[n] = HardStateOf(m.term, CandidateOf(m))
      BY <2>3 DEF ElectionInv, BallotsDurable
    <3> QED
      BY <1>2, <1>3, <1>6, <2>3, <3>1, <3>2
  <2> QED
    BY <2>1, <2>2, <2>3
<1>8. \A a, b \in messages' :
         a.from = b.from /\ a.term = b.term => CandidateOf(a) = CandidateOf(b)
  <2>1. \A a \in out, b \in messages :
           a.from = b.from /\ a.term = b.term => CandidateOf(a) = CandidateOf(b)
    <3> SUFFICES ASSUME NEW a \in out, NEW b \in messages,
                        a.from = b.from, a.term = b.term
                 PROVE  CandidateOf(a) = CandidateOf(b)
      OBVIOUS
    <3>1. b.from = n /\ b.term = h.term /\ CandidateOf(a) = h.vote /\ b \in messages'
      OBVIOUS
    <3>2. durable'[n].term > h.term \/ durable'[n] = HardStateOf(h.term, CandidateOf(b))
      BY <1>7, <3>1 DEF BallotsDurable, CandidateOf
    <3> QED
      BY <1>2, <1>3, <1>6, <3>1, <3>2
  <2> QED
    BY <2>1 DEF ElectionInv, OneBallot
<1> QED
  BY <1>7, <1>8 DEF OneBallot, CandidateOf

\* The invariant with nothing released and the disk untouched.
LEMMA QuietKeeps ==
    ASSUME ElectionInv, UNCHANGED <<durable, messages>>
    PROVE  BallotsDurable' /\ OneBallot'
  BY DEF ElectionInv, BallotsDurable, OneBallot, CandidateOf

\* A step of one server leaves what holds of the others.
LEMMA OthersKeep ==
    ASSUME ElectionInv, NEW n \in Node, messages \subseteq messages',
           NodeInv(n)',
           \A j \in Node \ {n} :
              /\ currentTerm'[j] = currentTerm[j] /\ votedFor'[j] = votedFor[j]
              /\ role'[j] = role[j] /\ votes_received'[j] = votes_received[j]
              /\ pending'[j] = pending[j] /\ deferred'[j] = deferred[j]
              /\ durable'[j] = durable[j]
    PROVE  \A j \in Node : NodeInv(j)'
<1> SUFFICES ASSUME NEW j \in Node \ {n} PROVE NodeInv(j)'
  OBVIOUS
<1>1. StagesLeadToMemory(j) /\ DeferredMatchesMemory(j) /\ VotesAreBallots(j)
  BY DEF ElectionInv, NodeInv
<1>2. StagesLeadToMemory(j)'
  BY <1>1 DEF StagesLeadToMemory, Final, First
<1>3. DeferredMatchesMemory(j)'
  BY <1>1 DEF DeferredMatchesMemory, CandidateOf
<1>4. VotesAreBallots(j)'
  <2> SUFFICES ASSUME role'[j] = "candidate"
               PROVE  /\ votedFor'[j] = j
                      /\ \A v \in votes_received'[j] :
                           Ballot(messages' \cup deferred'[j], v, currentTerm'[j], j)
    BY Zenon DEF VotesAreBallots, Ballot, CandidateOf
  <2>1. \A v \in votes_received[j] : Ballot(messages \cup deferred[j], v, currentTerm[j], j)
    BY Zenon, <1>1 DEF VotesAreBallots
  <2>2. \A v \in votes_received[j] : Ballot(messages' \cup deferred[j], v, currentTerm[j], j)
    BY <2>1 DEF Ballot
  <2> QED
    BY Zenon, <1>1, <2>2 DEF VotesAreBallots
<1> QED
  BY <1>2, <1>3, <1>4 DEF NodeInv

\* A candidate votes for itself in a term its disk has not reached.
LEMMA TimeoutPreserves ==
    ASSUME ElectionInv, NEW n \in Node, ElectionTimeout(n)
    PROVE  ElectionInv'
<1> DEFINE t == currentTerm[n] + 1
           request == [type |-> "request", term |-> t, from |-> n]
<1>1. /\ Ready(n) /\ t <= MaxTerm
      /\ currentTerm' = [currentTerm EXCEPT ![n] = t]
      /\ votedFor' = [votedFor EXCEPT ![n] = n]
      /\ role' = [role EXCEPT ![n] = "candidate"]
      /\ votes_received' = [votes_received EXCEPT ![n] = {n}]
      /\ pending' = [pending EXCEPT ![n] = <<HardStateOf(t, n)>>]
      /\ deferred' = [deferred EXCEPT ![n] = {request}]
      /\ UNCHANGED <<messages, durable, leaders>>
  BY Zenon DEF ElectionTimeout, Become, Emit
<1>2. t \in Term /\ t > currentTerm[n]
  BY <1>1, ElectionConstants DEF ElectionInv, TypeOK, Term
<1>3. request \in Message /\ HardStateOf(t, n) \in HardState
  BY Zenon, <1>2 DEF Message, HardState, HardStateOf
<1>4. request.from = n /\ request.term = t /\ CandidateOf(request) = n
  BY DEF CandidateOf
<1> HIDE DEF t, request
<1>5. TypeOK'
  BY <1>1, <1>2, <1>3 DEF ElectionInv, TypeOK
<1>6. /\ currentTerm'[n] = t /\ votedFor'[n] = n /\ votes_received'[n] = {n}
      /\ pending'[n] = <<HardStateOf(t, n)>> /\ deferred'[n] = {request}
      /\ durable'[n] = durable[n]
  BY Zenon, <1>1 DEF ElectionInv, TypeOK
<1>7. StagesLeadToMemory(n)'
  <2>1. durable[n] = Final(n)
    BY <1>1 DEF ElectionInv, NodeInv, StagesLeadToMemory, Ready
  <2>2. durable[n].term < t
    BY <1>2, <2>1 DEF Final, HardStateOf
  <2> QED
    BY Zenon, <1>6, <2>2 DEF StagesLeadToMemory, Final
<1>8. DeferredMatchesMemory(n)'
  BY Zenon, <1>4, <1>6 DEF DeferredMatchesMemory, CandidateOf
<1>9. VotesAreBallots(n)'
  <2>1. Ballot(messages' \cup deferred'[n], n, t, n)
    BY Zenon, <1>4, <1>6 DEF Ballot
  <2> QED
    BY Zenon, <1>6, <2>1 DEF VotesAreBallots, Ballot, CandidateOf
<1>10. \A j \in Node : NodeInv(j)'
  BY Zenon, <1>1, <1>7, <1>8, <1>9, OthersKeep DEF NodeInv, ElectionInv, TypeOK
<1> QED
  BY Zenon, <1>1, <1>5, <1>10, QuietKeeps, LeadersKept DEF ElectionInv

\* A higher term clears the vote of an older one.
LEMMA ObservePreserves ==
    ASSUME ElectionInv, NEW n \in Node, NEW t \in Term, ObserveHigherTerm(n, t)
    PROVE  ElectionInv'
<1>1. /\ Ready(n) /\ t > currentTerm[n]
      /\ currentTerm' = [currentTerm EXCEPT ![n] = t]
      /\ votedFor' = [votedFor EXCEPT ![n] = None]
      /\ role' = [role EXCEPT ![n] = "follower"]
      /\ votes_received' = [votes_received EXCEPT ![n] = {}]
      /\ pending' = [pending EXCEPT ![n] = <<HardStateOf(t, None)>>]
      /\ deferred' = [deferred EXCEPT ![n] = {}]
      /\ UNCHANGED <<messages, durable, leaders>>
  BY Zenon DEF ObserveHigherTerm, Become, Emit
<1>2. HardStateOf(t, None) \in HardState
  BY DEF HardState, HardStateOf
<1>3. TypeOK'
  BY <1>1, <1>2 DEF ElectionInv, TypeOK
<1>4. /\ currentTerm'[n] = t /\ votedFor'[n] = None /\ role'[n] = "follower"
      /\ pending'[n] = <<HardStateOf(t, None)>> /\ deferred'[n] = {}
      /\ durable'[n] = durable[n]
  BY Zenon, <1>1 DEF ElectionInv, TypeOK
<1>5. StagesLeadToMemory(n)'
  <2> StagesLeadToMemory(n)
    BY DEF ElectionInv, NodeInv
  <2>1. durable[n] = Final(n)
    BY <1>1 DEF StagesLeadToMemory, Ready
  <2>2. durable[n].term < t
    BY <1>1, <2>1 DEF Final, HardStateOf, ElectionInv, TypeOK, Term
  <2> QED
    BY Zenon, <1>4, <2>2 DEF StagesLeadToMemory, Final
<1>6. DeferredMatchesMemory(n)' /\ VotesAreBallots(n)'
  BY Zenon, <1>4 DEF DeferredMatchesMemory, VotesAreBallots
<1>7. \A j \in Node : NodeInv(j)'
  BY Zenon, <1>1, <1>5, <1>6, OthersKeep DEF NodeInv, ElectionInv, TypeOK
<1> QED
  BY Zenon, <1>1, <1>3, <1>7, QuietKeeps, LeadersKept DEF ElectionInv

\* The term and the vote of one request are two stages.
LEMMA TwoStages ==
    ASSUME NEW a \in HardState, NEW b \in HardState
    PROVE  <<a>> \o <<b>> = <<a, b>>
<1>1. <<a>> \in Seq(HardState) /\ <<b>> \in Seq(HardState) /\ <<a, b>> \in Seq(HardState)
  OBVIOUS
<1>2. /\ <<a>> \o <<b>> \in Seq(HardState) /\ Len(<<a>> \o <<b>>) = 2
      /\ (<<a>> \o <<b>>)[1] = a /\ (<<a>> \o <<b>>)[2] = b
  BY <1>1, ConcatProperties
<1> DEFINE s == <<a>> \o <<b>>
           t == <<a, b>>
<1>3. t \in Seq(HardState) /\ Len(t) = 2 /\ t[1] = a /\ t[2] = b
  BY <1>1
<1>4. s \in Seq(HardState) /\ Len(s) = 2 /\ s[1] = a /\ s[2] = b
  BY <1>2
<1> HIDE DEF s, t
<1>5. \A i \in 1 .. Len(s) : s[i] = t[i]
  BY <1>3, <1>4
<1>6. s = t
  BY Zenon, <1>3, <1>4, <1>5, SeqEqual
<1> QED
  BY Zenon, <1>6 DEF s, t

\* A vote is granted once per term and waits for its stages.
LEMMA RequestVotePreserves ==
    ASSUME ElectionInv, NEW n \in Node, NEW m \in messages, NEW fresh \in BOOLEAN,
           ReceiveRequestVote(n, m, fresh)
    PROVE  ElectionInv'
<1> DEFINE higher == m.term > currentTerm[n]
           t == IF higher THEN m.term ELSE currentTerm[n]
           vote == IF higher THEN None ELSE votedFor[n]
           granted == m.term = t /\ vote \in {None, m.from} /\ fresh
           newVote == IF granted THEN m.from ELSE vote
           voted == IF granted /\ vote # m.from
                    THEN <<HardStateOf(t, m.from)>> ELSE <<>>
           stages == (IF higher THEN <<HardStateOf(t, None)>> ELSE <<>>) \o voted
           grant == [type |-> "grant", term |-> t, from |-> n, to |-> m.from]
           out == IF granted THEN {grant} ELSE {}
<1>1. /\ Ready(n)
      /\ currentTerm' = [currentTerm EXCEPT ![n] = t]
      /\ votedFor' = [votedFor EXCEPT ![n] = newVote]
      /\ IF higher THEN /\ role' = [role EXCEPT ![n] = "follower"]
                        /\ votes_received' = [votes_received EXCEPT ![n] = {}]
         ELSE UNCHANGED <<role, votes_received>>
      /\ pending' = [pending EXCEPT ![n] = stages]
      /\ IF stages = <<>>
         THEN messages' = messages \cup out /\ UNCHANGED deferred
         ELSE deferred' = [deferred EXCEPT ![n] = out] /\ UNCHANGED messages
      /\ UNCHANGED <<durable, leaders>>
  BY Zenon DEF ReceiveRequestVote, Become, Emit
<1>2. m.from \in Node /\ m.term \in Term /\ currentTerm[n] \in Term
      /\ votedFor[n] \in Node \cup {None}
  BY Zenon DEF ElectionInv, TypeOK, Message
<1>3. t \in Term /\ t >= currentTerm[n] /\ newVote \in Node \cup {None}
  BY <1>2 DEF Term
<1>4. /\ grant \in Message /\ grant.from = n /\ grant.term = t
      /\ CandidateOf(grant) = m.from /\ HardStateOf(t, None) \in HardState
      /\ HardStateOf(t, m.from) \in HardState
  BY Zenon, <1>2, <1>3 DEF Message, CandidateOf, HardState, HardStateOf
<1>5. out \in SUBSET Message
      /\ \A g \in out : g.from = n /\ g.term = t /\ CandidateOf(g) = newVote
  BY Zenon, <1>4
<1>6. durable[n] = HardStateOf(currentTerm[n], votedFor[n]) /\ deferred[n] = {}
  <2>1. StagesLeadToMemory(n)
    BY DEF ElectionInv, NodeInv
  <2> QED
    BY <1>1, <2>1 DEF StagesLeadToMemory, Ready, Final
<1>7. /\ higher /\ granted => stages = <<HardStateOf(t, None), HardStateOf(t, newVote)>>
      /\ higher /\ ~granted => stages = <<HardStateOf(t, newVote)>> /\ newVote = None
      /\ ~higher /\ granted /\ vote # m.from
           => stages = <<HardStateOf(t, newVote)>> /\ votedFor[n] = None
      /\ ~higher /\ ~(granted /\ vote # m.from) => stages = <<>> /\ newVote = votedFor[n]
  <2>1. CASE higher /\ granted
    <3>1. vote # m.from /\ newVote = m.from
      BY Zenon, <1>2, <2>1, ElectionConstants
    <3>2. stages = <<HardStateOf(t, None)>> \o <<HardStateOf(t, m.from)>>
      BY Zenon, <2>1, <3>1
    <3>3. stages = <<HardStateOf(t, None), HardStateOf(t, m.from)>>
      BY Zenon, <1>4, <3>2, TwoStages
    <3> QED
      BY Zenon, <2>1, <3>1, <3>3
  <2>2. CASE higher /\ ~granted
    <3>1. stages = <<HardStateOf(t, None)>> \o << >> /\ newVote = None
      BY <2>2
    <3>2. stages = <<HardStateOf(t, None)>>
      BY <1>4, <3>1
    <3> QED
      BY Zenon, <2>2, <3>1, <3>2
  <2>3. CASE ~higher /\ granted /\ vote # m.from
    <3>1. stages = << >> \o <<HardStateOf(t, m.from)>>
      BY Zenon, <2>3
    <3>2. stages = <<HardStateOf(t, m.from)>> /\ newVote = m.from /\ votedFor[n] = None
      BY <1>4, <2>3, <3>1
    <3> QED
      BY Zenon, <2>3, <3>2
  <2>4. CASE ~higher /\ ~(granted /\ vote # m.from)
    BY <2>4
  <2> QED
    BY Zenon, <2>1, <2>2, <2>3, <2>4
<1>8. stages \in Seq(HardState)
  BY <1>3, <1>4
<1>9. higher => t > currentTerm[n]
  BY Zenon
<1>10. ~higher => t = currentTerm[n]
  OBVIOUS
<1> HIDE DEF higher, t, vote, granted, newVote, voted, stages, grant, out
<1>11. TypeOK'
  BY Zenon, <1>1, <1>3, <1>5, <1>8 DEF ElectionInv, TypeOK
<1>12. /\ currentTerm'[n] = t /\ votedFor'[n] = newVote /\ pending'[n] = stages
       /\ deferred'[n] = (IF stages = <<>> THEN {} ELSE out) /\ durable'[n] = durable[n]
       /\ messages \subseteq messages'
       /\ higher => role'[n] = "follower"
       /\ ~higher => role'[n] = role[n] /\ votes_received'[n] = votes_received[n]
  BY Zenon, <1>1, <1>6 DEF ElectionInv, TypeOK
<1>13. \A a, b : HardStateOf(a, b).term = a /\ HardStateOf(a, b).vote = b
  BY Zenon DEF HardStateOf
<1>14. StagesLeadToMemory(n)'
  <2>1. higher => durable[n].term < t
    BY <1>6, <1>9, <1>13, <1>2, <1>3 DEF Term
  <2>2. CASE higher
    BY Zenon, <1>7, <1>12, <2>1, <2>2 DEF StagesLeadToMemory, Final, First
  <2>3. CASE ~higher
    BY Zenon, <1>6, <1>7, <1>10, <1>12, <2>3 DEF StagesLeadToMemory, Final, First
  <2> QED
    BY <2>2, <2>3
<1>15. DeferredMatchesMemory(n)'
  BY Zenon, <1>5, <1>12 DEF DeferredMatchesMemory, CandidateOf
<1>16. VotesAreBallots(n)'
  <2>1. CASE higher
    BY Zenon, <1>12, <2>1 DEF VotesAreBallots
  <2>2. CASE ~higher /\ role[n] # "candidate"
    BY Zenon, <1>12, <2>2 DEF VotesAreBallots
  <2>3. CASE ~higher /\ role[n] = "candidate"
    <3>1. /\ votedFor[n] = n
          /\ \A v \in votes_received[n] : Ballot(messages \cup deferred[n], v, currentTerm[n], n)
      BY Zenon, <2>3 DEF ElectionInv, NodeInv, VotesAreBallots
    <3>2. newVote = n
      BY Zenon, <1>7, <2>3, <3>1, ElectionConstants
    <3>3. \A v \in votes_received[n] : Ballot(messages' \cup deferred'[n], v, t, n)
      BY <1>6, <1>10, <1>12, <2>3, <3>1 DEF Ballot
    <3> QED
      BY Zenon, <1>12, <2>3, <3>2, <3>3 DEF VotesAreBallots, Ballot, CandidateOf
  <2> QED
    BY Zenon, <2>1, <2>2, <2>3
<1>17. \A j \in Node : NodeInv(j)'
  BY Zenon, <1>1, <1>12, <1>14, <1>15, <1>16, OthersKeep DEF NodeInv, ElectionInv, TypeOK
<1>18. BallotsDurable' /\ OneBallot'
  <2>1. CASE stages # <<>>
    BY Zenon, <1>1, <2>1, QuietKeeps
  <2>2. CASE stages = <<>>
    <3>1. /\ durable[n] = HardStateOf(t, newVote) /\ durable[n] \in HardState
          /\ durable' = [durable EXCEPT ![n] = durable[n]]
      BY Zenon, <1>1, <1>6, <1>7, <1>10, <2>2 DEF ElectionInv, TypeOK
    <3>2. \A g \in out : g.from = n /\ g.term = durable[n].term
                         /\ CandidateOf(g) = durable[n].vote
      BY <1>5, <1>13, <3>1
    <3>3. messages' = messages \cup out
      BY <1>1, <2>2
    <3> QED
      BY Zenon, <1>5, <3>1, <3>2, <3>3, ReleaseKeeps
  <2> QED
    BY <2>1, <2>2
<1> QED
  BY Zenon, <1>1, <1>11, <1>12, <1>17, <1>18, LeadersKept DEF ElectionInv

\* A leader is elected by voters that each sent their only ballot of the term.
LEMMA ResponsePreserves ==
    ASSUME ElectionInv, NEW n \in Node, NEW m \in messages,
           ReceiveRequestVoteResponse(n, m)
    PROVE  ElectionInv'
<1> DEFINE votes == votes_received[n] \cup {m.from}
           leader == [term |-> currentTerm[n], node |-> n]
<1>1. /\ Ready(n) /\ role[n] = "candidate"
      /\ m.type = "grant" /\ m.to = n /\ m.term = currentTerm[n]
      /\ UNCHANGED <<currentTerm, votedFor, pending, deferred, durable, messages>>
  BY Zenon DEF ReceiveRequestVoteResponse
<1>2. \/ /\ Cardinality(votes) >= majority
         /\ role' = [role EXCEPT ![n] = "leader"]
         /\ votes_received' = [votes_received EXCEPT ![n] = {}]
         /\ leaders' = leaders \cup {leader}
      \/ /\ role' = [role EXCEPT ![n] = "candidate"]
         /\ votes_received' = [votes_received EXCEPT ![n] = votes]
         /\ leaders' = leaders
  BY Zenon DEF ReceiveRequestVoteResponse, Become
<1>3. m.from \in Node /\ votes \in SUBSET Node /\ leader \in [term : Term, node : Node]
  BY Zenon DEF ElectionInv, TypeOK, Message
<1>4. deferred[n] = {} /\ votedFor[n] = n
  <2>1. StagesLeadToMemory(n) /\ VotesAreBallots(n)
    BY Zenon DEF ElectionInv, NodeInv
  <2>2. deferred[n] = {}
    BY <1>1, <2>1 DEF StagesLeadToMemory, Ready
  <2> QED
    BY Zenon, <1>1, <2>1, <2>2 DEF VotesAreBallots
<1>5. \A v \in votes : Ballot(messages, v, currentTerm[n], n)
  <2>1. \A v \in votes_received[n] : Ballot(messages \cup deferred[n], v, currentTerm[n], n)
    BY Zenon, <1>1 DEF ElectionInv, NodeInv, VotesAreBallots
  <2>2. Ballot(messages, m.from, currentTerm[n], n)
    BY Zenon, <1>1 DEF Ballot, CandidateOf
  <2>3. messages \cup deferred[n] = messages
    BY <1>4
  <2> QED
    BY Zenon, <2>1, <2>2, <2>3
<1> HIDE DEF votes, leader
<1>6. TypeOK'
  BY Zenon, <1>1, <1>2, <1>3 DEF ElectionInv, TypeOK
<1>7. StagesLeadToMemory(n)' /\ DeferredMatchesMemory(n)'
  BY <1>1 DEF ElectionInv, NodeInv, StagesLeadToMemory, DeferredMatchesMemory,
              Final, First, CandidateOf
<1>8. VotesAreBallots(n)'
  <2>1. votes_received'[n] = votes \/ role'[n] = "leader"
    BY <1>2 DEF ElectionInv, TypeOK
  <2>2. \A v \in votes : Ballot(messages' \cup deferred'[n], v, currentTerm'[n], n)
    BY Zenon, <1>1, <1>5 DEF Ballot
  <2> QED
    BY <1>1, <1>4, <2>1, <2>2 DEF VotesAreBallots, Ballot, CandidateOf
<1>9. \A j \in Node : NodeInv(j)'
  BY Zenon, <1>1, <1>2, <1>7, <1>8, OthersKeep DEF NodeInv, ElectionInv, TypeOK
<1>10. LeadersHaveMajority'
  <2>1. CASE leaders' = leaders
    BY Zenon, <1>1, <2>1, LeadersKept
  <2>2. CASE Cardinality(votes) >= majority /\ leaders' = leaders \cup {leader}
    <3>1. leader.term = currentTerm[n] /\ leader.node = n
      BY Zenon DEF leader
    <3>2. \E Q \in SUBSET Node :
             /\ Cardinality(Q) >= majority
             /\ \A v \in Q : Ballot(messages, v, leader.term, leader.node)
      BY Zenon, <1>3, <1>5, <2>2, <3>1
    <3>3. LeadersHaveMajority
      BY DEF ElectionInv
    <3> QED
      BY <1>1, <2>2, <3>2, <3>3 DEF LeadersHaveMajority, Ballot, CandidateOf
  <2> QED
    BY Zenon, <1>2, <2>1, <2>2
<1> QED
  BY Zenon, <1>1, <1>6, <1>9, <1>10, QuietKeeps DEF ElectionInv

\* Following a leader touches neither term nor vote.
LEMMA AcceptPreserves ==
    ASSUME ElectionInv, NEW n \in Node, AcceptLeader(n)
    PROVE  ElectionInv'
<1>1. /\ role' = [role EXCEPT ![n] = "follower"]
      /\ votes_received' = [votes_received EXCEPT ![n] = {}]
      /\ UNCHANGED <<currentTerm, votedFor, pending, deferred, durable, messages, leaders>>
  BY Zenon DEF AcceptLeader, Become
<1>2. TypeOK'
  BY Zenon, <1>1 DEF ElectionInv, TypeOK
<1>3. StagesLeadToMemory(n)' /\ DeferredMatchesMemory(n)'
  BY <1>1 DEF ElectionInv, NodeInv, StagesLeadToMemory, DeferredMatchesMemory,
              Final, First, CandidateOf
<1>4. VotesAreBallots(n)'
  BY Zenon, <1>1 DEF ElectionInv, TypeOK, VotesAreBallots
<1>5. \A j \in Node : NodeInv(j)'
  BY Zenon, <1>1, <1>3, <1>4, OthersKeep DEF NodeInv, ElectionInv, TypeOK
<1> QED
  BY Zenon, <1>1, <1>2, <1>5, QuietKeeps, LeadersKept DEF ElectionInv

\* The two shapes of a completed persistence.
LEMMA PersistedForms ==
    ASSUME ElectionInv, NEW n \in Node, HardStatePersisted(n)
    PROVE  \/ /\ durable' = [durable EXCEPT ![n] = Final(n)]
              /\ pending' = [pending EXCEPT ![n] = <<>>]
              /\ messages' = messages \cup deferred[n]
              /\ deferred' = [deferred EXCEPT ![n] = {}]
              /\ durable[n].term < currentTerm[n] \/ durable[n] = First(n)
           \/ /\ durable' = [durable EXCEPT ![n] = First(n)]
              /\ pending' = [pending EXCEPT ![n] = <<Final(n)>>]
              /\ UNCHANGED <<messages, deferred>>
              /\ durable[n].term < currentTerm[n]
<1>1. Final(n) \in HardState /\ First(n) \in HardState
  BY Zenon DEF Final, First, HardStateOf, HardState, ElectionInv, TypeOK
<1>2. StagesLeadToMemory(n)
  BY Zenon DEF ElectionInv, NodeInv
<1>3. CASE pending[n] = <<Final(n)>>
            /\ (durable[n].term < currentTerm[n] \/ durable[n] = First(n))
  <2>1. Len(pending[n]) = 1 /\ Head(pending[n]) = Final(n) /\ Tail(pending[n]) = <<>>
    BY <1>1, <1>3
  <2> QED
    BY Zenon, <1>3, <2>1 DEF HardStatePersisted
<1>4. CASE pending[n] = <<First(n), Final(n)>> /\ durable[n].term < currentTerm[n]
  <2>1. /\ Len(pending[n]) = 2 /\ Head(pending[n]) = First(n)
        /\ Tail(pending[n]) = <<Final(n)>>
    BY <1>1, <1>4
  <2> QED
    BY <1>4, <2>1 DEF HardStatePersisted
<1> QED
  BY Zenon, <1>2, <1>3, <1>4 DEF StagesLeadToMemory, HardStatePersisted

\* A stage that becomes durable keeps the vote, and the last one sends it.
LEMMA PersistedPreserves ==
    ASSUME ElectionInv, NEW n \in Node, HardStatePersisted(n)
    PROVE  ElectionInv'
<1>1. UNCHANGED <<currentTerm, votedFor, role, votes_received, leaders>>
  BY Zenon DEF HardStatePersisted
<1>2. Final(n) \in HardState /\ First(n) \in HardState
  BY DEF Final, First, HardStateOf, HardState, ElectionInv, TypeOK
<1>3. /\ Final(n).term = currentTerm[n] /\ Final(n).vote = votedFor[n]
      /\ First(n).term = currentTerm[n] /\ First(n).vote = None
  BY Zenon DEF Final, First, HardStateOf
<1>4. \A m \in deferred[n] :
         m.from = n /\ m.term = currentTerm[n] /\ CandidateOf(m) = votedFor[n]
  BY Zenon DEF ElectionInv, NodeInv, DeferredMatchesMemory
<1>5. CASE /\ durable' = [durable EXCEPT ![n] = Final(n)]
           /\ pending' = [pending EXCEPT ![n] = <<>>]
           /\ messages' = messages \cup deferred[n]
           /\ deferred' = [deferred EXCEPT ![n] = {}]
           /\ durable[n].term < currentTerm[n] \/ durable[n] = First(n)
  <2>1. TypeOK'
    BY <1>1, <1>2, <1>5 DEF ElectionInv, TypeOK
  <2>2. BallotsDurable' /\ OneBallot'
    <3>1. deferred[n] \in SUBSET Message
      BY DEF ElectionInv, TypeOK
    <3>2. \/ durable[n].term < Final(n).term
          \/ durable[n].term = Final(n).term /\ durable[n].vote = None
      BY Zenon, <1>3, <1>5
    <3> QED
      BY Zenon, <1>2, <1>3, <1>4, <1>5, <3>1, <3>2, ReleaseKeeps
  <2>3. /\ durable'[n] = Final(n) /\ pending'[n] = <<>> /\ deferred'[n] = {}
    BY Zenon, <1>5 DEF ElectionInv, TypeOK
  <2>4. StagesLeadToMemory(n)' /\ DeferredMatchesMemory(n)'
    BY Zenon, <1>1, <2>3 DEF StagesLeadToMemory, DeferredMatchesMemory, Final
  <2>5. VotesAreBallots(n)'
    <3>1. messages' \cup deferred'[n] = messages \cup deferred[n]
      BY Zenon, <1>5, <2>3
    <3>2. VotesAreBallots(n)
      BY Zenon DEF ElectionInv, NodeInv
    <3> QED
      BY Zenon, <1>1, <3>1, <3>2 DEF VotesAreBallots, Ballot, CandidateOf
  <2>6. \A j \in Node : NodeInv(j)'
    BY Zenon, <1>1, <1>5, <2>4, <2>5, OthersKeep DEF NodeInv, ElectionInv, TypeOK
  <2> QED
    BY Zenon, <1>1, <1>5, <2>1, <2>2, <2>6, LeadersKept DEF ElectionInv
<1>6. CASE /\ durable' = [durable EXCEPT ![n] = First(n)]
           /\ pending' = [pending EXCEPT ![n] = <<Final(n)>>]
           /\ UNCHANGED <<messages, deferred>>
           /\ durable[n].term < currentTerm[n]
  <2>1. TypeOK'
    BY <1>1, <1>2, <1>6 DEF ElectionInv, TypeOK
  <2>2. BallotsDurable' /\ OneBallot'
    <3>1. messages' = messages \cup {} /\ {} \in SUBSET Message
      BY <1>6
    <3>2. \A m \in {} : m.from = n /\ m.term = First(n).term /\ CandidateOf(m) = First(n).vote
      OBVIOUS
    <3>3. durable[n].term < First(n).term
      BY Zenon, <1>3, <1>6
    <3>4. durable' = [durable EXCEPT ![n] = First(n)]
      BY <1>6
    <3> QED
      BY Zenon, <1>2, <3>1, <3>2, <3>3, <3>4, ReleaseKeeps
  <2>3. durable'[n] = First(n) /\ pending'[n] = <<Final(n)>>
    BY Zenon, <1>6 DEF ElectionInv, TypeOK
  <2>4. StagesLeadToMemory(n)'
    BY Zenon, <1>1, <2>3 DEF StagesLeadToMemory, Final, First
  <2>5. DeferredMatchesMemory(n)' /\ VotesAreBallots(n)'
    <3>1. DeferredMatchesMemory(n) /\ VotesAreBallots(n)
      BY Zenon DEF ElectionInv, NodeInv
    <3>2. DeferredMatchesMemory(n)'
      BY Zenon, <1>1, <1>6, <3>1 DEF DeferredMatchesMemory, CandidateOf
    <3>3. VotesAreBallots(n)'
      BY Zenon, <1>1, <1>6, <3>1 DEF VotesAreBallots, Ballot, CandidateOf
    <3> QED
      BY <3>2, <3>3
  <2>6. \A j \in Node : NodeInv(j)'
    BY Zenon, <1>1, <1>6, <2>4, <2>5, OthersKeep DEF NodeInv, ElectionInv, TypeOK
  <2> QED
    BY <1>1, <1>6, <2>1, <2>2, <2>6, LeadersKept DEF ElectionInv
<1> QED
  BY Zenon, <1>5, <1>6, PersistedForms

\* Reloading the disk forgets only what was never sent.
LEMMA RestartPreserves ==
    ASSUME ElectionInv, NEW n \in Node, Restart(n)
    PROVE  ElectionInv'
<1>1. /\ currentTerm' = [currentTerm EXCEPT ![n] = durable[n].term]
      /\ votedFor' = [votedFor EXCEPT ![n] = durable[n].vote]
      /\ role' = [role EXCEPT ![n] = "follower"]
      /\ votes_received' = [votes_received EXCEPT ![n] = {}]
      /\ pending' = [pending EXCEPT ![n] = <<>>]
      /\ deferred' = [deferred EXCEPT ![n] = {}]
      /\ UNCHANGED <<durable, messages, leaders>>
  BY DEF Restart, Become
<1>2. durable[n] \in HardState
  BY DEF ElectionInv, TypeOK
<1>3. TypeOK'
  <2>1. durable[n].term \in Term /\ durable[n].vote \in Node \cup {None}
    BY Zenon, <1>2 DEF HardState
  <2> QED
    BY <1>1, <2>1 DEF ElectionInv, TypeOK
<1>4. durable[n] = HardStateOf(durable[n].term, durable[n].vote)
  BY Zenon, <1>2 DEF HardState, HardStateOf
<1>5. /\ currentTerm'[n] = durable[n].term /\ votedFor'[n] = durable[n].vote
      /\ role'[n] = "follower" /\ pending'[n] = <<>> /\ deferred'[n] = {}
      /\ durable'[n] = durable[n]
  BY Zenon, <1>1 DEF ElectionInv, TypeOK
<1>6. NodeInv(n)'
  BY Zenon, <1>4, <1>5 DEF NodeInv, StagesLeadToMemory, DeferredMatchesMemory,
                    VotesAreBallots, Final
<1>7. \A j \in Node : NodeInv(j)'
  BY Zenon, <1>1, <1>6, OthersKeep DEF ElectionInv, TypeOK
<1> QED
  BY Zenon, <1>1, <1>3, <1>7, QuietKeeps, LeadersKept DEF ElectionInv

\* Every step preserves the invariant.
LEMMA ElectionNext == ElectionInv /\ [Next]_vars => ElectionInv'
<1> SUFFICES ASSUME ElectionInv, [Next]_vars PROVE ElectionInv'
  BY Zenon
<1>1. CASE UNCHANGED vars
  <2>1. UNCHANGED <<currentTerm, votedFor, role, votes_received, pending, deferred,
                    durable, messages, leaders>>
    BY Zenon, <1>1 DEF vars, node
  <2>2. TypeOK'
    BY Zenon, <2>1 DEF ElectionInv, TypeOK
  <2>3. ASSUME NEW n \in Node PROVE NodeInv(n)'
    <3>1. StagesLeadToMemory(n) /\ DeferredMatchesMemory(n) /\ VotesAreBallots(n)
      BY Zenon DEF ElectionInv, NodeInv
    <3>2. StagesLeadToMemory(n)'
      BY Zenon, <2>1, <3>1 DEF StagesLeadToMemory, Final, First
    <3>3. DeferredMatchesMemory(n)'
      BY Zenon, <2>1, <3>1 DEF DeferredMatchesMemory, CandidateOf
    <3>4. VotesAreBallots(n)'
      BY Zenon, <2>1, <3>1 DEF VotesAreBallots, Ballot, CandidateOf
    <3> QED
      BY Zenon, <3>2, <3>3, <3>4 DEF NodeInv
  <2> QED
    BY Zenon, <2>1, <2>2, <2>3, QuietKeeps, LeadersKept DEF ElectionInv
<1>2. CASE Next
  <2>1. PICK n \in Node :
           \/ ElectionTimeout(n)
           \/ \E t \in Term : ObserveHigherTerm(n, t)
           \/ \E m \in messages, fresh \in BOOLEAN : ReceiveRequestVote(n, m, fresh)
           \/ \E m \in messages : ReceiveRequestVoteResponse(n, m)
           \/ AcceptLeader(n)
           \/ HardStatePersisted(n)
           \/ Restart(n)
    BY <1>2 DEF Next
  <2>2. CASE ElectionTimeout(n)
    BY Zenon, <2>2, TimeoutPreserves
  <2>3. CASE \E t \in Term : ObserveHigherTerm(n, t)
    BY Zenon, <2>3, ObservePreserves
  <2>4. CASE \E m \in messages, fresh \in BOOLEAN : ReceiveRequestVote(n, m, fresh)
    BY <2>4, RequestVotePreserves
  <2>5. CASE \E m \in messages : ReceiveRequestVoteResponse(n, m)
    BY <2>5, ResponsePreserves
  <2>6. CASE AcceptLeader(n)
    BY <2>6, AcceptPreserves
  <2>7. CASE HardStatePersisted(n)
    BY <2>7, PersistedPreserves
  <2>8. CASE Restart(n)
    BY <2>8, RestartPreserves
  <2> QED
    BY Zenon, <2>1, <2>2, <2>3, <2>4, <2>5, <2>6, <2>7, <2>8
<1> QED
  BY Zenon, <1>1, <1>2

\* The invariant holds in every reachable state.
LEMMA ElectionInvariant == Spec => []ElectionInv
  BY ElectionInit, ElectionNext, PTL DEF Spec

(***************************************************************************)
(* At most one leader is ever elected in a term, for every cluster size:   *)
(* two majorities share a voter, and a voter's released ballots of a term  *)
(* name one candidate because its disk holds the vote before they leave.   *)
(***************************************************************************)
THEOREM OneLeaderPerTerm == Spec => []ElectionSafety
<1>1. ElectionInv => ElectionSafety
  <2> SUFFICES ASSUME ElectionInv, NEW a \in leaders, NEW b \in leaders,
                      a.term = b.term
               PROVE  a.node = b.node
    BY DEF ElectionSafety
  <2>1. PICK P \in SUBSET Node :
           Cardinality(P) >= majority /\ \A v \in P : Ballot(messages, v, a.term, a.node)
    BY Zenon DEF ElectionInv, LeadersHaveMajority
  <2>2. PICK Q \in SUBSET Node :
           Cardinality(Q) >= majority /\ \A v \in Q : Ballot(messages, v, b.term, b.node)
    BY Zenon DEF ElectionInv, LeadersHaveMajority
  <2>3. /\ Cardinality(Node) \in Nat /\ Cardinality(P) \in Nat /\ Cardinality(Q) \in Nat
    BY Zenon, ElectionConstants, FS_CardinalityType, FS_Subset
  <2>4. Cardinality(P) + Cardinality(Q) > Cardinality(Node)
    BY <2>1, <2>2, <2>3 DEF majority
  <2>5. P \cap Q # {}
    BY Zenon, <2>4, ElectionConstants, FS_MajoritiesIntersect
  <2>6. PICK v \in P \cap Q : TRUE
    BY Zenon, <2>5
  <2>7. Ballot(messages, v, a.term, a.node) /\ Ballot(messages, v, b.term, b.node)
    BY Zenon, <2>1, <2>2, <2>6
  <2> QED
    BY Zenon, <2>7 DEF ElectionInv, OneBallot, Ballot
<1> QED
  BY <1>1, ElectionInvariant, PTL

(***************************************************************************)
(* No step rewrites a vote on disk within its term or lowers the term.     *)
(***************************************************************************)
THEOREM VotesAreKept == Spec => DurableVoteKept
<1>1. ElectionInv /\ [Next]_vars =>
        [\A n \in Node :
           /\ durable'[n].term >= durable[n].term
           /\ durable'[n].term = durable[n].term /\ durable[n].vote # None
                => durable'[n].vote = durable[n].vote]_vars
  <2> SUFFICES ASSUME ElectionInv, [Next]_vars, NEW n \in Node
               PROVE  /\ durable'[n].term >= durable[n].term
                      /\ durable'[n].term = durable[n].term /\ durable[n].vote # None
                           => durable'[n].vote = durable[n].vote
    BY Zenon
  <2>1. durable[n].term \in Int /\ currentTerm[n] \in Int
    BY DEF ElectionInv, TypeOK, HardState, Term
  <2>2. CASE durable'[n] = durable[n]
    BY <2>1, <2>2
  <2>3. CASE HardStatePersisted(n)
    <3>1. /\ Final(n).term = currentTerm[n]
          /\ First(n).term = currentTerm[n] /\ First(n).vote = None
      BY Zenon DEF Final, First, HardStateOf
    <3>2. /\ durable'[n] \in {Final(n), First(n)}
          /\ durable[n].term < currentTerm[n] \/ durable[n] = First(n)
      BY <2>3, PersistedForms DEF ElectionInv, TypeOK
    <3> QED
      BY <2>1, <3>1, <3>2
  <2>4. ASSUME NEW j \in Node, j # n, HardStatePersisted(j) PROVE durable'[n] = durable[n]
    BY Zenon, <2>4 DEF HardStatePersisted, ElectionInv, TypeOK
  <2>5. ASSUME NEW j \in Node,
               \/ ElectionTimeout(j)
               \/ \E t \in Term : ObserveHigherTerm(j, t)
               \/ \E m \in messages, fresh \in BOOLEAN : ReceiveRequestVote(j, m, fresh)
               \/ \E m \in messages : ReceiveRequestVoteResponse(j, m)
               \/ AcceptLeader(j)
               \/ Restart(j)
        PROVE  durable' = durable
    <3>1. CASE ElectionTimeout(j) \/ AcceptLeader(j) \/ Restart(j)
      BY Zenon, <3>1 DEF ElectionTimeout, AcceptLeader, Restart
    <3>2. CASE \E t \in Term : ObserveHigherTerm(j, t)
      BY Zenon, <3>2 DEF ObserveHigherTerm
    <3>3. CASE \E m \in messages, fresh \in BOOLEAN : ReceiveRequestVote(j, m, fresh)
      BY Zenon, <3>3 DEF ReceiveRequestVote
    <3>4. CASE \E m \in messages : ReceiveRequestVoteResponse(j, m)
      BY Zenon, <3>4 DEF ReceiveRequestVoteResponse
    <3> QED
      BY Zenon, <2>5, <3>1, <3>2, <3>3, <3>4
  <2>6. durable' = durable \/ \E j \in Node : HardStatePersisted(j)
    BY <2>5 DEF Next, vars
  <2> QED
    BY Zenon, <2>2, <2>3, <2>4, <2>6
<1> QED
  BY <1>1, ElectionInvariant, PTL DEF Spec, DurableVoteKept
=============================================================================
