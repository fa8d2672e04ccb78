------------------------------ MODULE Figure2 ------------------------------
(***************************************************************************)
(* figure2::step of src/src/figure2_spec.cpp: the pure transition function *)
(* of one Raft server.  A handler maps the server's state and an event to  *)
(* [state, effects]; effects keep the order in which the code emits them,  *)
(* and all that follows a PersistRaftHardState is deferred until it is     *)
(* durable.  An input for which the code throws has no transition.         *)
(*                                                                         *)
(* A log entry is the term and the server that appended it (the command),  *)
(* its index is its place after the snapshot.  A snapshot carries the      *)
(* entries it stands for as its state; index 0 means there is none.        *)
(***************************************************************************)
EXTENDS RaftServers, Sequences, FiniteSetsExt, SequencesExt

NoSnapshot == [index |-> 0, term |-> 0, state |-> <<>>]

peers(n) == Node \ {n}

\* The effects of figure2::Effect that a handler emits.
PersistRaftHardState(s) == [kind |-> "hard", term |-> s.current_term, vote |-> s.voted_for]
PersistState == [kind |-> "log"]
ResetElectionTimer == [kind |-> "timer"]
Send(ms) == [kind |-> "send", msgs |-> ms]

Result(s, out) == [state |-> s, effects |-> out]

-----------------------------------------------------------------------------
(* The log, addressed by absolute index. *)

last_index(s) == s.snapshot.index + Len(s.log)

last_term(s) == IF s.log = <<>> THEN s.snapshot.term ELSE Last(s.log).term

term_at(s, i) ==
    IF i = s.snapshot.index THEN s.snapshot.term ELSE s.log[i - s.snapshot.index].term

\* Mutant: a vote is granted whatever the candidate's log.
MutUpToDate(s, lastTerm, lastIndex) == TRUE

is_log_at_least_as_up_to_date(s, lastTerm, lastIndex) ==
    \/ lastTerm > last_term(s)
    \/ lastTerm = last_term(s) /\ lastIndex >= last_index(s)

-----------------------------------------------------------------------------
(* Leader-only state, at its default while the server does not lead. *)

LeaderState(s, next) ==
    [s EXCEPT !.next_index = [p \in peers(s.node) |-> next],
              !.match_index = [p \in peers(s.node) |-> 0],
              !.pending_clients = {}]

BecomeFollower(s) ==
    LeaderState([s EXCEPT !.role = "follower", !.votes_received = {}], 1)

\* append_request: everything from next_index on, context 0 for none.
append_request(s, p, ctx) ==
    LET base == s.snapshot.index
        previous == Max({s.next_index[p], base + 1}) - 1
    IN  [type |-> "append", term |-> s.current_term, from |-> s.node, to |-> p,
         previous |-> previous, previous_term |-> term_at(s, previous),
         entries |-> SubSeq(s.log, previous - base + 1, Len(s.log)),
         commit |-> s.commit_index, ctx |-> ctx]

send_append(s, p, ctx) == Send({append_request(s, p, ctx)})

ToAllPeers(s) == Send({append_request(s, p, 0) : p \in peers(s.node)})

initialize_leader(s) ==
    LET led == LeaderState([s EXCEPT !.role = "leader", !.votes_received = {}],
                           last_index(s) + 1)
    IN  Result(led, <<ToAllPeers(led)>>)

\* observe_higher_term: the effect to persist, if the term is new.
observe_higher_term(s, term) ==
    LET adopted == BecomeFollower([s EXCEPT !.current_term = term, !.voted_for = None])
    IN  IF term > s.current_term
        THEN Result(adopted, <<PersistRaftHardState(adopted)>>)
        ELSE Result(s, <<>>)

-----------------------------------------------------------------------------
(* Elections. *)

start_election(s) ==
    LET c == LeaderState([s EXCEPT !.current_term = @ + 1, !.voted_for = s.node,
                                   !.role = "candidate", !.votes_received = {s.node}], 1)
        request == [type |-> "vote", term |-> c.current_term, from |-> c.node,
                    last |-> last_index(c), last_term |-> last_term(c)]
    IN  Result(c, <<PersistRaftHardState(c), ResetElectionTimer, Send({request})>>)

\* Mutant: a vote already cast in the term is not looked at.
MutRequestVote(s, m) ==
    LET seen == observe_higher_term(s, m.term)
        t == seen.state
        reply(granted) == Send({[type |-> "voted", term |-> t.current_term, from |-> s.node,
                                 to |-> m.from, granted |-> granted]})
        voted == [t EXCEPT !.voted_for = m.from]
    IN  IF m.term >= t.current_term /\ is_log_at_least_as_up_to_date(t, m.last_term, m.last)
        THEN Result(voted,
                    seen.effects \o <<PersistRaftHardState(voted), ResetElectionTimer, reply(TRUE)>>)
        ELSE Result(t, Append(seen.effects, reply(FALSE)))

handle_request_vote(s, m) ==
    LET seen == observe_higher_term(s, m.term)
        t == seen.state
        reply(granted) == Send({[type |-> "voted", term |-> t.current_term, from |-> s.node,
                                 to |-> m.from, granted |-> granted]})
        voted == [t EXCEPT !.voted_for = m.from]
    IN  IF /\ m.term >= t.current_term
           /\ t.voted_for \in {None, m.from}
           /\ is_log_at_least_as_up_to_date(t, m.last_term, m.last)
        THEN Result(voted,
                    seen.effects
                    \o (IF t.voted_for # m.from THEN <<PersistRaftHardState(voted)>> ELSE <<>>)
                    \o <<ResetElectionTimer, reply(TRUE)>>)
        ELSE Result(t, Append(seen.effects, reply(FALSE)))

\* Mutant: a refusal counts as a vote.
MutVoteResponse(s, m) ==
    LET seen == observe_higher_term(s, m.term)
        t == seen.state
        votes == t.votes_received \cup {m.from}
    IN  IF t.role # "candidate" \/ m.term # t.current_term
        THEN seen
        ELSE IF Cardinality(votes) >= majority
        THEN initialize_leader(t)
        ELSE Result([t EXCEPT !.votes_received = votes], <<>>)

handle_request_vote_response(s, m) ==
    LET seen == observe_higher_term(s, m.term)
        t == seen.state
        votes == t.votes_received \cup {m.from}
    IN  IF t.role # "candidate" \/ m.term # t.current_term \/ ~m.granted
        THEN seen
        ELSE IF Cardinality(votes) >= majority
        THEN initialize_leader(t)
        ELSE Result([t EXCEPT !.votes_received = votes], <<>>)

-----------------------------------------------------------------------------
(* Replication. *)

\* How many leading entries of the request the log already holds.
Agreeing(s, m) ==
    Max({k \in 0..Len(m.entries) :
           \A j \in 1..k : /\ m.previous + j <= last_index(s)
                           /\ term_at(s, m.previous + j) = m.entries[j].term})

\* Mutant: the term of the previous entry is not compared.
MutPrefixMatches(s, m) == m.previous \in s.snapshot.index..last_index(s)

PrefixMatches(s, m) ==
    /\ m.previous \in s.snapshot.index..last_index(s)
    /\ term_at(s, m.previous) = m.previous_term

\* The first entry that differs would replace a committed one.
ReplacesCommitted(s, m) ==
    LET first == m.previous + Agreeing(s, m) + 1
    IN  Agreeing(s, m) < Len(m.entries) /\ first <= Min({last_index(s), s.commit_index})

handle_append_entries(s, m) ==
    LET seen == observe_higher_term(s, m.term)
        t == BecomeFollower(seen.state)
        reply(ok, match) ==
            Send({[type |-> "appended", term |-> seen.state.current_term, from |-> s.node,
                   to |-> m.from, ok |-> ok, match |-> match, ctx |-> m.ctx]})
        kept == Agreeing(t, m)
        changed == kept < Len(m.entries)
        end == m.previous + Len(m.entries)
        appended ==
            [t EXCEPT !.log = IF changed
                              THEN SubSeq(@, 1, m.previous + kept - t.snapshot.index)
                                   \o SubSeq(m.entries, kept + 1, Len(m.entries))
                              ELSE @,
                      !.commit_index = Max({@, Min({m.commit, end})})]
    IN  IF m.term < seen.state.current_term
        THEN Result(seen.state, Append(seen.effects, reply(FALSE, 0)))
        ELSE IF ~PrefixMatches(t, m) \/ ReplacesCommitted(t, m)
        THEN Result(t, seen.effects \o <<ResetElectionTimer, reply(FALSE, 0)>>)
        ELSE Result(appended,
                    seen.effects \o <<ResetElectionTimer>>
                    \o (IF changed THEN <<PersistState>> ELSE <<>>)
                    \o <<reply(TRUE, end)>>)

\* Mutant: an entry of an earlier term is committed by counting.
MutCommitAnyTerm(s) ==
    LET Replicated(i) == {s.node} \cup {p \in peers(s.node) : s.match_index[p] >= i}
        ready == {i \in s.commit_index + 1..last_index(s) :
                    Cardinality(Replicated(i)) >= majority}
    IN  [s EXCEPT !.commit_index = Max({@} \cup ready)]

\* Mutant: the quorum is one server short.
MutCommitQuorum(s) ==
    LET Replicated(i) == {s.node} \cup {p \in peers(s.node) : s.match_index[p] >= i}
        ready == {i \in s.commit_index + 1..last_index(s) :
                    /\ term_at(s, i) = s.current_term
                    /\ Cardinality(Replicated(i)) >= majority - 1}
    IN  [s EXCEPT !.commit_index = Max({@} \cup ready)]

\* advance_leader_commit: only an entry of the current term is counted.
advance_leader_commit(s) ==
    LET Replicated(i) == {s.node} \cup {p \in peers(s.node) : s.match_index[p] >= i}
        ready == {i \in s.commit_index + 1..last_index(s) :
                    /\ term_at(s, i) = s.current_term
                    /\ Cardinality(Replicated(i)) >= majority}
    IN  [s EXCEPT !.commit_index = Max({@} \cup ready)]

handle_append_entries_response(s, m) ==
    LET seen == observe_higher_term(s, m.term)
        match == Max({s.match_index[m.from], m.match})
        recorded == [s EXCEPT !.match_index[m.from] = match,
                              !.next_index[m.from] = match + 1]
        retried == [s EXCEPT !.next_index[m.from] =
                                Max({s.match_index[m.from] + 1, 1, @ - 1})]
    IN  IF seen.state.role # "leader" \/ m.term # seen.state.current_term
        THEN seen
        ELSE IF m.ok
        THEN Result(advance_leader_commit(recorded), <<>>)
        ELSE Result(retried, <<send_append(retried, m.from, m.ctx)>>)

handle_client(s) ==
    LET t == [s EXCEPT !.log = Append(@, [term |-> s.current_term, command |-> s.node]),
                       !.pending_clients = @ \cup {last_index(s) + 1}]
    IN  IF s.role # "leader" THEN Result(s, <<>>)
        ELSE Result(advance_leader_commit(t), <<PersistState, ToAllPeers(t)>>)

heartbeat(s) == Result(s, <<ToAllPeers(s)>>)

-----------------------------------------------------------------------------
(* step: the effects up to a hard-state request go out, the rest wait. *)

\* Mutant: nothing waits for the hard state.
MutGate(r) == r

gate_on_hard_state(r) ==
    LET Hard(e) == e.kind = "hard"
        i == SelectInSeq(r.effects, Hard)
    IN  IF i = 0 THEN r
        ELSE [state |-> [r.state EXCEPT !.pending_hard_state =
                                           SubSeq(r.effects, i, Len(r.effects))],
              effects |-> SubSeq(r.effects, 1, i)]

\* Mutant: a second hard state among the deferred effects is not gated.
MutHardStatePersisted(s) ==
    Result([s EXCEPT !.pending_hard_state = <<>>], Tail(s.pending_hard_state))

\* The matching RaftHardStatePersisted: what was deferred is gated again.
hard_state_persisted(s) ==
    gate_on_hard_state(Result([s EXCEPT !.pending_hard_state = <<>>],
                              Tail(s.pending_hard_state)))

\* validate: what step demands of the state before and after a transition.
validate(s) ==
    /\ s.snapshot.index # 0 => s.snapshot.term \in 1..s.current_term
    /\ s.snapshot.index <= s.last_applied
    /\ s.last_applied <= s.commit_index
    /\ s.commit_index <= last_index(s)
    /\ \A i \in DOMAIN s.log : s.log[i].term <= s.current_term
    /\ s.role # "candidate" => s.votes_received = {}
    /\ s.role = "leader" =>
         /\ \A p \in peers(s.node) : /\ s.next_index[p] \in 1..last_index(s) + 1
                                     /\ s.match_index[p] < s.next_index[p]
         /\ s.pending_clients \subseteq 1..last_index(s)
=============================================================================
