--------------------------- MODULE Linearizability ---------------------------
(***************************************************************************)
(* The bounded linearizability checker, run on the histories that clients  *)
(* record against a metadata service.                                      *)
(*                                                                         *)
(* The recorder is the environment: operations are invoked, take effect at *)
(* one instant and are completed, at logical times that several records    *)
(* may share.  A faulty service may answer from a state it has left.  At   *)
(* any moment the history recorded so far is handed to check with some     *)
(* limits; the verdict ends the behaviour.                                 *)
(*                                                                         *)
(* A 64-bit mask of operations is the set of their identifiers, a vector   *)
(* of records the set of them, and an operation's key, value and expected  *)
(* value are model values.                                                 *)
(***************************************************************************)
EXTENDS Integers, Sequences, FiniteSets, SequencesExt

CONSTANTS
    Programs,       \* what clients do: operations in the order of their identifiers,
                    \* the way one is refused, and how many answers are lost
    Absent,         \* no value, no completion
    Int64Max,       \* largest revision
    Limits,         \* CheckerLimits the checker is called with
    MaxTime,        \* bound on the logical clock
    MaxFaults       \* bound on the answers given from a stale state

VARIABLES
    program,        \* the program that runs
    history,        \* the History recorded so far
    time,           \* the logical time
    states,         \* the states the service has been in, latest last
    effects,        \* operations that took effect, with their results
    faults,         \* answers given from a stale state
    limits,         \* the limits check was called with
    checked         \* its CheckResult

vars == <<program, history, time, states, effects, faults, limits, checked>>

ASSUME CheckerConstants ==
    /\ {Int64Max, MaxTime, MaxFaults} \subseteq Nat
    /\ \A l \in Limits : {l.operations, l.states, l.memo} \subseteq Nat

\* desired is the value of a put; expected belongs to a compare-and-swap only.
Operation(kind, key, expected, desired) ==
    [kind |-> kind, key |-> key, expected |-> expected, desired |-> desired]

Ids(h) == {i.id : i \in h.invocations}

Invocation(h, id) == CHOOSE i \in h.invocations : i.id = id

\* The completion of an operation, or Absent.
Completion(h, id) ==
    IF \E c \in h.completions : c.id = id
    THEN CHOOSE c \in h.completions : c.id = id
    ELSE Absent

Completed(h, id) == Completion(h, id) # Absent

-----------------------------------------------------------------------------
(***************************************************************************)
(* The sequential model of the checker.  A result has the fields changed   *)
(* (erased, exchanged), value (of a get) and revision; the ones a kind of  *)
(* operation does not have are FALSE and Absent.                           *)
(***************************************************************************)

EmptyState == [revision |-> 0, values |-> <<>>]

Lookup(state, key) ==
    IF key \in DOMAIN state.values THEN state.values[key] ELSE Absent

Result(changed, value, revision) ==
    [changed |-> changed, value |-> value, revision |-> revision]

Versioned(value, revision) ==
    [value |-> value, modification_revision |-> revision]

current_equals(state, key, expected) ==
    IF expected = Absent
    THEN Lookup(state, key) = Absent
    ELSE Lookup(state, key) # Absent /\ Lookup(state, key).value = expected

WithKey(state, key, value) ==
    LET next == state.revision + 1
    IN  [revision |-> next,
         values |-> [k \in DOMAIN state.values \cup {key} |->
                       IF k = key THEN Versioned(value, next) ELSE state.values[k]]]

WithoutKey(state, key) ==
    [revision |-> state.revision + 1,
     values |-> Restrict(state.values, DOMAIN state.values \ {key})]

\* Does the operation change the state it is applied to?
Mutates(state, op) ==
    CASE op.kind = "get" -> FALSE
      [] op.kind = "put" -> TRUE
      [] op.kind = "erase" -> Lookup(state, op.key) # Absent
      [] op.kind = "cas" ->
            /\ current_equals(state, op.key, op.expected)
            /\ op.desired # Absent \/ Lookup(state, op.key) # Absent

Actual(state, op) ==
    LET revision == state.revision + (IF Mutates(state, op) THEN 1 ELSE 0)
    IN  CASE op.kind = "get" -> Result(FALSE, Lookup(state, op.key), revision)
          [] op.kind = "put" -> Result(FALSE, Absent, revision)
          [] op.kind = "erase" -> Result(Mutates(state, op), Absent, revision)
          [] op.kind = "cas" ->
                Result(current_equals(state, op.key, op.expected), Absent, revision)

Successor(state, op) ==
    IF ~Mutates(state, op) THEN state
    ELSE IF op.desired = Absent THEN WithoutKey(state, op.key)
    ELSE WithKey(state, op.key, op.desired)

\* Mutant: the recorded result is not compared.
MutApply(state, op, expected) ==
    IF Mutates(state, op) /\ state.revision = Int64Max
    THEN {}
    ELSE {Successor(state, op)}

\* The states apply can leave: none when it returns false.  An expected result
\* that is Absent is not compared.
apply(state, op, expected) ==
    IF \/ Mutates(state, op) /\ state.revision = Int64Max
       \/ expected # Absent /\ expected # Actual(state, op)
    THEN {}
    ELSE {Successor(state, op)}

-----------------------------------------------------------------------------
(***************************************************************************)
(* search threads its context, the states explored and the dead states,    *)
(* through the recursion; Try is its loop over the operations in the order *)
(* of their identifiers.                                                   *)
(***************************************************************************)

Kind(h, id) == IF Completed(h, id) THEN Completion(h, id).kind ELSE "pending"

Required(h, id) == Kind(h, id) = "succeeded"

\* Failed and timed-out operations, and reads without an answer, are dropped.
Searched(h) ==
    {id \in Ids(h) :
       /\ Kind(h, id) \notin {"failed", "timed_out"}
       /\ Required(h, id) \/ Invocation(h, id).op.kind # "get"}

Predecessors(h, id) ==
    {e \in Searched(h) \ {id} :
       /\ Completed(h, e)
       /\ Completion(h, e).at < Invocation(h, id).at}

Context(explored, dead) == [explored |-> explored, dead |-> dead]

Found(outcome, context) == [outcome |-> outcome, context |-> context]

\* saw_inconclusive after one more branch.
Worse(outcome, saw) == saw \/ outcome = "inconclusive"

RECURSIVE search(_, _, _, _, _), Try(_, _, _, _, _, _, _)

search(h, l, context, remaining, state) ==
    LET memo == <<remaining, state>>
        visited == Context(context.explored + 1, context.dead)
    IN  IF remaining = {} THEN Found("linearizable", context)
        ELSE IF context.explored >= l.states THEN Found("inconclusive", context)
        ELSE IF memo \in context.dead THEN Found("not_linearizable", visited)
        ELSE IF Cardinality(context.dead) >= l.memo THEN Found("inconclusive", visited)
        ELSE Try(h, l, visited, remaining, state, remaining, FALSE)

Try(h, l, context, remaining, state, untried, saw) ==
    IF untried = {}
    THEN IF saw THEN Found("inconclusive", context)
         ELSE Found("not_linearizable",
                    Context(context.explored, context.dead \cup {<<remaining, state>>}))
    ELSE
    LET id == Min(untried)
        after == remaining \ {id}
        required == Required(h, id)
        omitted == IF required THEN Found("not_linearizable", context)
                   ELSE search(h, l, context, after, state)
        next == apply(state, Invocation(h, id).op,
                      IF required THEN Completion(h, id).result ELSE Absent)
        applied == IF next = {} THEN Found("not_linearizable", omitted.context)
                   ELSE search(h, l, omitted.context, after, CHOOSE s \in next : TRUE)
    IN  IF Predecessors(h, id) \cap remaining # {}
        THEN Try(h, l, context, remaining, state, untried \ {id}, saw)
        ELSE IF omitted.outcome = "linearizable" THEN omitted
        ELSE IF applied.outcome = "linearizable" THEN applied
        ELSE Try(h, l, applied.context, remaining, state, untried \ {id},
                 Worse(applied.outcome, Worse(omitted.outcome, saw)))

\* Mutant: a value cannot be as recent as the read that returns it.
MutPossibleResult(result) ==
    \/ result.value = Absent
    \/ result.value.modification_revision \in 1..(result.revision - 1)

\* A read's value was modified at a positive revision no later than the read's.
PossibleResult(result) ==
    \/ result.value = Absent
    \/ result.value.modification_revision \in 1..result.revision

\* The histories validate lets pass; it throws InvalidHistory on the others.
validate(h) ==
    /\ \A i, j \in h.invocations : i.id = j.id => i = j
    /\ \A c, d \in h.completions : c.id = d.id => c = d
    /\ \A c \in h.completions :
         /\ c.id \in Ids(h)
         /\ c.at >= Invocation(h, c.id).at
         /\ c.result # Absent <=> c.kind = "succeeded"
         /\ c.result # Absent => PossibleResult(c.result)

check_internal(h, l) ==
    IF ~validate(h) THEN "invalid_history"
    ELSE IF 0 \in {l.operations, l.states, l.memo} THEN "inconclusive"
    ELSE IF Cardinality(h.invocations) > l.operations THEN "inconclusive"
    ELSE search(h, l, Context(0, {}), Searched(h), EmptyState).outcome

without(h, id) ==
    [invocations |-> {i \in h.invocations : i.id # id},
     completions |-> {c \in h.completions : c.id # id}]

\* The operations whose deletion leaves a history that is rejected as well.
Deletable(h, l) ==
    {id \in Ids(h) : /\ without(h, id).invocations # {}
                     /\ check_internal(without(h, id), l) = "not_linearizable"}

\* Mutant: only one operation is deleted.
MutReduce(h, l) ==
    LET deletable == Deletable(h, l)
    IN  IF deletable = {} THEN h ELSE without(h, Min(deletable))

RECURSIVE Reduce(_, _)

\* Deletion restarts from the lowest identifier after every success.
Reduce(h, l) ==
    LET deletable == Deletable(h, l)
    IN  IF deletable = {} THEN h ELSE Reduce(without(h, Min(deletable)), l)

Unchecked == [outcome |-> "unchecked", counterexample |-> Absent]

check(h, l) ==
    LET outcome == check_internal(h, l)
    IN  [outcome |-> outcome,
         counterexample |-> IF outcome = "not_linearizable"
                            THEN Reduce(h, l)
                            ELSE Absent]

-----------------------------------------------------------------------------
(***************************************************************************)
(* The service clients talk to, as design 0015 describes it: a put and an  *)
(* erase write unconditionally, a compare-and-swap when the value is the   *)
(* expected one, and a write takes a new revision unless it removes what   *)
(* is not there.                                                           *)
(***************************************************************************)

Keys == UNION {{op.key : op \in Range(p.operations)} : p \in Programs}

Fresh == [revision |-> 0, record |-> [k \in Keys |-> Absent]]

ValueIn(s, key) == IF s.record[key] = Absent THEN Absent ELSE s.record[key].value

Passes(s, op) == op.kind = "cas" => ValueIn(s, op.key) = op.expected

Writes(s, op) ==
    /\ op.kind # "get"
    /\ Passes(s, op)
    /\ {op.desired, ValueIn(s, op.key)} # {Absent}

Execute(s, op) ==
    IF ~Writes(s, op) THEN s
    ELSE [revision |-> s.revision + 1,
          record |-> [s.record EXCEPT ![op.key] =
                        IF op.desired = Absent THEN Absent
                        ELSE Versioned(op.desired, s.revision + 1)]]

Answer(s, op) ==
    Result(CASE op.kind = "erase" -> Writes(s, op)
             [] op.kind = "cas" -> Passes(s, op)
             [] OTHER -> FALSE,
           IF op.kind = "get" THEN s.record[op.key] ELSE Absent,
           Execute(s, op).revision)

\* No write is possible when revisions are exhausted.
Executable(s, op) == Writes(s, op) => s.revision < Int64Max

-----------------------------------------------------------------------------
(***************************************************************************)
(* The recorder.                                                           *)
(***************************************************************************)

store == states[Len(states)]

Recording == checked = Unchecked

Open(id) == id \in Ids(history) /\ ~Completed(history, id)

Record(id, kind, result) ==
    history' = [history EXCEPT !.completions =
                  @ \cup {[id |-> id, at |-> time, kind |-> kind, result |-> result]}]

Invoke ==
    LET id == Cardinality(history.invocations) + 1
    IN  /\ Recording
        /\ id <= Len(program.operations)
        /\ history' = [history EXCEPT !.invocations =
               @ \cup {[id |-> id, at |-> time, op |-> program.operations[id]]}]
        /\ UNCHANGED <<program, time, states, effects, faults, limits, checked>>

\* The service executes an operation that its client still waits for.
TakeEffect(id) ==
    LET op == Invocation(history, id).op
    IN  /\ Recording
        /\ Open(id)
        /\ id \notin DOMAIN effects
        /\ Executable(store, op)
        /\ effects' = [e \in DOMAIN effects \cup {id} |->
                         IF e = id THEN Answer(store, op) ELSE effects[e]]
        /\ states' = IF Writes(store, op) THEN Append(states, Execute(store, op))
                     ELSE states
        /\ UNCHANGED <<program, history, time, faults, limits, checked>>

Succeed(id) ==
    /\ Recording
    /\ Open(id)
    /\ id \in DOMAIN effects
    /\ Record(id, "succeeded", effects[id])
    /\ UNCHANGED <<program, time, states, effects, faults, limits, checked>>

\* The answer is computed from a state the service has left.
AnswerStale(id, i) ==
    LET op == Invocation(history, id).op
    IN  /\ Recording
        /\ Open(id)
        /\ id \in DOMAIN effects
        /\ faults < MaxFaults
        /\ Answer(states[i], op) # effects[id]
        /\ Record(id, "succeeded", Answer(states[i], op))
        /\ faults' = faults + 1
        /\ UNCHANGED <<program, time, states, effects, limits, checked>>

\* A definite failure changed nothing.
Fail(id) ==
    /\ Recording
    /\ Open(id)
    /\ id \notin DOMAIN effects
    /\ Record(id, program.refusal, Absent)
    /\ UNCHANGED <<program, time, states, effects, faults, limits, checked>>

\* The client does not know; the service did or will never execute it.
LoseAnswer(id) ==
    /\ Recording
    /\ Open(id)
    /\ Cardinality({c \in history.completions : c.kind = "indeterminate"}) < program.lost
    /\ Record(id, "indeterminate", Absent)
    /\ UNCHANGED <<program, time, states, effects, faults, limits, checked>>

Tick ==
    /\ Recording
    /\ time < MaxTime
    /\ \E r \in history.invocations \cup history.completions : r.at = time
    /\ time' = time + 1
    /\ UNCHANGED <<program, history, states, effects, faults, limits, checked>>

Check(l) ==
    /\ Recording
    /\ limits' = l
    /\ checked' = check(history, l)
    /\ UNCHANGED <<program, history, time, states, effects, faults>>

Init ==
    /\ program \in Programs
    /\ history = [invocations |-> {}, completions |-> {}]
    /\ time = 0
    /\ states = <<Fresh>>
    /\ effects = <<>>
    /\ faults = 0
    /\ limits = Absent
    /\ checked = Unchecked

Next ==
    \/ Invoke
    \/ \E id \in Ids(history) :
         \/ TakeEffect(id)
         \/ Succeed(id)
         \/ \E i \in 1..Len(states) : AnswerStale(id, i)
         \/ Fail(id)
         \/ LoseAnswer(id)
    \/ Tick
    \/ \E l \in Limits : Check(l)

Spec == Init /\ [][Next]_vars

-----------------------------------------------------------------------------
(***************************************************************************)
(* The reference: some of the operations that may have taken effect, and   *)
(* all that did, have an order that respects real time and in which the    *)
(* service gives every recorded answer.                                    *)
(***************************************************************************)

Before(h, a, b) ==
    /\ Completed(h, a)
    /\ Completion(h, a).at < Invocation(h, b).at

Uncertain(h) ==
    {id \in Ids(h) : Kind(h, id) \in {"pending", "indeterminate"}}

Orders(S) == {f \in [1..Cardinality(S) -> S] : IsInjective(f)}

\* The state after the first n operations of an order.
After(h, order, n) ==
    FoldLeft(LAMBDA s, id : Execute(s, Invocation(h, id).op), Fresh, SubSeq(order, 1, n))

Explains(h, order) ==
    \A n \in DOMAIN order :
      LET op == Invocation(h, order[n]).op
          s == After(h, order, n - 1)
      IN  /\ \A m \in 1..(n - 1) : ~Before(h, order[n], order[m])
          /\ Executable(s, op)
          /\ Required(h, order[n]) => Completion(h, order[n]).result = Answer(s, op)

Linearizable(h) ==
    \E extra \in SUBSET Uncertain(h) :
      LET executed == extra \cup {id \in Ids(h) : Required(h, id)}
      IN  \E order \in Orders(executed) : Explains(h, order)

-----------------------------------------------------------------------------

\* The states a search of n operations can explore without a memo.
Tree[n \in Nat] == IF n = 0 THEN 0 ELSE 1 + 2 * n * Tree[n - 1]

Ample(l) ==
    /\ l.operations >= Len(program.operations)
    /\ {l.states, l.memo} \cap 0..(Tree[Len(program.operations)] - 1) = {}

(***************************************************************************)
(* Under any limits check accepts only histories that have an explanation  *)
(* and rejects only histories that have none, and it decides when the      *)
(* limits leave room for the whole search: memoised states, masks of       *)
(* predecessors, omitted operations and cut-off branches change no         *)
(* verdict.                                                                *)
(***************************************************************************)
VerdictIsRight ==
    /\ checked.outcome = "linearizable" => Linearizable(history)
    /\ checked.outcome = "not_linearizable" => ~Linearizable(history)
    /\ ~Recording /\ Ample(limits) => checked.outcome # "inconclusive"

(***************************************************************************)
(* A history recorded from a service that never answered from a stale      *)
(* state is valid and is not rejected, whichever operations overlapped,    *)
(* failed, were lost or were still pending when it was checked.            *)
(***************************************************************************)
HonestHistoryAccepted ==
    ~Recording /\ faults = 0 =>
        checked.outcome \in {"linearizable"} \cup
                            (IF Ample(limits) THEN {} ELSE {"inconclusive"})

(***************************************************************************)
(* The counterexample check returns is a valid part of the history, is     *)
(* itself without an explanation, and, when the limits leave room for the  *)
(* search, every operation deleted from it would give it one.              *)
(***************************************************************************)
CounterexampleIsMinimal ==
    checked.outcome = "not_linearizable" =>
      LET c == checked.counterexample
          deleted(id) == [invocations |-> c.invocations \ {Invocation(c, id)},
                          completions |-> {d \in c.completions : d.id # id}]
      IN  /\ c.invocations \subseteq history.invocations
          /\ c.completions = {d \in history.completions : d.id \in Ids(c)}
          /\ validate(c)
          /\ ~Linearizable(c)
          /\ Ample(limits) => \A id \in Ids(c) : Linearizable(deleted(id))
=============================================================================
