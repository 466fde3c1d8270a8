-------------------------- MODULE AggregationEvaluator --------------------------
(***************************************************************************)
(* AggregationEvaluator::evaluate (src/aggregation/evaluator.rs): tasks    *)
(* that look the state of a group up in a cache, lock it and update it.    *)
(* The cache drops a group when it likes, for its age or for room, also    *)
(* between the two; the task then updates a state that nobody will find.   *)
(*                                                                         *)
(* The states ever created are numbered in their order, and the cache maps *)
(* a group to the number of its state.                                     *)
(***************************************************************************)
EXTENDS Integers, Sequences, FiniteSetsExt

CONSTANTS
  Tasks,
  Nodes,         \* NodeAggregation: [function, comparison, by_field, threshold], without
                 \*   the name of the field, which is the one number an event has
  Events,        \* [user, amount, timestamp]; Missing for a field that is not there
  Unknown,       \* the text "unknown", which a user may be called
  Missing,
  Largest,       \* f64::MAX
  TimeWindow,    \* `time_window` of the nodes
  MaxEvaluations, MaxEvictions   \* bounds

VARIABLES
  cache, states,        \* the group of a key, GroupState
  total_evaluations, pc, call,   \* the statistics; per task: its place, its node and event, its state
  evictions,            \* bound
  results               \* history: each update, with what it answered, in their order

aggregation == <<cache, states, total_evaluations, pc, call, evictions, results>>

ASSUME EvaluatorAssumption ==
  /\ IsFiniteSet(Tasks) /\ Largest \in Nat \ {0}
  /\ Nodes \subseteq [function : {"Count", "Sum", "Average", "Min", "Max"},
                      comparison : {">", ">=", "<", "<=", "==", "!="},
                      by_field : BOOLEAN, threshold : Int]
  /\ \A e \in Events : e.amount \in (-Largest..Largest) \cup {Missing} /\ e.timestamp \in Nat

Nobody == 0
\* The group key: the value of the field, "unknown" when it is missing, or "default".
User(event) == IF event.user = Missing THEN Unknown ELSE event.user
GroupKey(node, event) == IF node.by_field THEN <<"user", User(event)>> ELSE <<"default">>
Keys == {GroupKey(n, e) : n \in Nodes, e \in Events}

\* extract_numeric_value(): a field that is missing counts as zero.
NumericValue(event) == IF event.amount = Missing THEN 0 ELSE event.amount

NewGroup == [count |-> 0, sum |-> 0, min |-> Largest, max |-> -Largest]

EvaluatorInit ==
  /\ cache = [k \in Keys |-> Nobody] /\ states = <<>>
  /\ total_evaluations = 0 /\ pc = [t \in Tasks |-> "idle"]
  /\ call = [t \in Tasks |-> <<>>] /\ evictions = 0 /\ results = <<>>

Evaluate(t) ==
  /\ pc[t] = "idle" /\ total_evaluations < MaxEvaluations
  /\ \E n \in Nodes, e \in Events :
       call' = [call EXCEPT ![t] = [node |-> n, event |-> e, state |-> Nobody]]
  /\ total_evaluations' = total_evaluations + 1
  /\ pc' = [pc EXCEPT ![t] = "get"]
  /\ UNCHANGED <<cache, states, evictions, results>>

Key(t) == GroupKey(call[t].node, call[t].event)
Found(t, id) ==
  /\ call' = [call EXCEPT ![t].state = id]
  /\ pc' = [pc EXCEPT ![t] = "update"]
  /\ UNCHANGED <<total_evaluations, evictions, results>>

\* Mutant of GetGroup: a look that does not wait for a group that another is creating.
GetNewGroup(t) ==
  /\ pc[t] = "get"
  /\ states' = Append(states, NewGroup)
  /\ cache' = [cache EXCEPT ![Key(t)] = Len(states) + 1]
  /\ Found(t, Len(states) + 1)

\* try_get_with(): the group in the cache, or a new one that is put there.
GetGroup(t) ==
  /\ pc[t] = "get"
  /\ IF cache[Key(t)] # Nobody THEN Found(t, cache[Key(t)]) /\ UNCHANGED <<cache, states>>
     ELSE /\ states' = Append(states, NewGroup)
          /\ cache' = [cache EXCEPT ![Key(t)] = Len(states) + 1]
          /\ Found(t, Len(states) + 1)

Lesser(a, b) == IF a <= b THEN a ELSE b
Greater(a, b) == IF a >= b THEN a ELSE b

\* Mutant of UpdatedGroup: the average does not count its events.
UpdatedGroupUncounted(group, function, value) ==
  CASE function = "Count" -> [group EXCEPT !.count = @ + 1]
    [] function \in {"Sum", "Average"} -> [group EXCEPT !.sum = @ + value]
    [] function = "Min" -> [group EXCEPT !.min = Lesser(@, value)]
    [] function = "Max" -> [group EXCEPT !.max = Greater(@, value)]

\* The group after an update by a node, and what the node then answers.
UpdatedGroup(group, function, value) ==
  CASE function = "Count" -> [group EXCEPT !.count = @ + 1]
    [] function = "Sum" -> [group EXCEPT !.sum = @ + value]
    [] function = "Average" -> [group EXCEPT !.sum = @ + value, !.count = @ + 1]
    [] function = "Min" -> [group EXCEPT !.min = Lesser(@, value)]
    [] function = "Max" -> [group EXCEPT !.max = Greater(@, value)]

\* An average is the pair of its terms, the others stand over one.
CurrentValue(group, function) ==
  CASE function = "Count" -> <<group.count, 1>>
    [] function = "Sum" -> <<group.sum, 1>>
    [] function = "Average" -> <<group.sum, group.count>>
    [] function = "Min" -> <<group.min, 1>>
    [] function = "Max" -> <<group.max, 1>>

\* ComparisonOp::evaluate(); the epsilon of == is finer than these values.
Compares(value, op, threshold) ==
  LET bound == threshold * value[2] IN
  CASE op = ">" -> value[1] > bound
    [] op = ">=" -> value[1] >= bound
    [] op = "<" -> value[1] < bound
    [] op = "<=" -> value[1] <= bound
    [] op = "==" -> value[1] = bound
    [] op = "!=" -> value[1] # bound

\* Under the lock of the group: update, answer, compare with the threshold.
UpdateGroup(t) ==
  LET id == call[t].state
      node == call[t].node
      group == UpdatedGroup(states[id], node.function, NumericValue(call[t].event))
      value == CurrentValue(group, node.function)
  IN
  /\ pc[t] = "update"
  /\ states' = [states EXCEPT ![id] = group]
  /\ results' = Append(results,
       [state |-> id, node |-> node, event |-> call[t].event, value |-> value,
        triggered |-> Compares(value, node.comparison, node.threshold)])
  /\ pc' = [pc EXCEPT ![t] = "idle"] /\ call' = [call EXCEPT ![t] = <<>>]
  /\ UNCHANGED <<cache, total_evaluations, evictions>>

\* The cache: group_ttl or max_cache_size.
Evict(k) ==
  /\ cache[k] # Nobody /\ evictions < MaxEvictions
  /\ cache' = [cache EXCEPT ![k] = Nobody]
  /\ evictions' = evictions + 1
  /\ UNCHANGED <<states, total_evaluations, pc, call, results>>

EvaluatorNext == \/ \E t \in Tasks : Evaluate(t) \/ GetGroup(t) \/ UpdateGroup(t)
                 \/ \E k \in Keys : Evict(k)

EvaluatorSpec == EvaluatorInit /\ [][EvaluatorNext]_aggregation

------------------------------------------------------------------------------
(* Properties *)

Cached == {k \in Keys : cache[k] # Nobody}

Call == [node : Nodes, event : Events, state : Nat]

EvaluatorTypeOK ==
  /\ cache \in [Keys -> 0..Len(states)]
  /\ states \in Seq([count : Nat, sum : Int, min : Int, max : Int])
  /\ total_evaluations \in Nat /\ evictions \in Nat
  /\ pc \in [Tasks -> {"idle", "get", "update"}]
  /\ call \in [Tasks -> Call \cup {<<>>}]
  /\ \A t \in Tasks :
       /\ pc[t] # "idle" => call[t] \in Call
       /\ pc[t] = "update" => call[t].state \in 1..Len(states)

\* Tasks that meet at a group without a state make one for it, not one each: what
\* was counted is lost only to the cache's own dropping of a group, once for each
\* group it drops.
NoStateLost == Len(states) = Cardinality(Cached) + evictions

Fields(function) ==
  CASE function = "Count" -> {"count"} [] function = "Sum" -> {"sum"}
    [] function = "Average" -> {"count", "sum"}
    [] function = "Min" -> {"min"} [] function = "Max" -> {"max"}

\* The updates of the state of the i-th up to it, and those of them by its function.
Before(i) == {j \in 1..i : results[j].state = results[i].state}
Alike(i) == {j \in Before(i) : results[j].node.function = results[i].node.function}
Amount(result) == IF result.event.amount = Missing THEN 0 ELSE result.event.amount
Totals(rs, js) ==
  LET total[n \in 0..Len(rs)] ==
        IF n = 0 THEN 0 ELSE IF n \in js THEN total[n - 1] + Amount(rs[n]) ELSE total[n - 1]
  IN total
Total(rs, js) == Totals(rs, js)[Len(rs)]

\* What "Evaluate an aggregation node against an event" should answer: the aggregate
\* over the events that the node, or one like it, was given for that state.
Aggregate(function, rs, js) ==
  CASE function = "Count" -> <<Cardinality(js), 1>>
    [] function = "Sum" -> <<Total(rs, js), 1>>
    [] function = "Average" -> <<Total(rs, js), Cardinality(js)>>
    [] function = "Min" -> <<Min({Amount(rs[j]) : j \in js}), 1>>
    [] function = "Max" -> <<Max({Amount(rs[j]) : j \in js}), 1>>

\* However the updates of several tasks interleave, each answer is the aggregate over
\* the updates before it, unless a node with another function uses the same field of
\* the shared state of the group, whose key names neither the node nor its function.
AloneIsExact ==
  \A i \in DOMAIN results :
    (\A j \in Before(i) : results[j].node.function = results[i].node.function
        \/ Fields(results[j].node.function) \cap Fields(results[i].node.function) = {})
      => results[i].value = Aggregate(results[i].node.function, results, Alike(i))

\* Of tests/aggregation_tests.rs: "first event should have expired": a count is of the
\* events of its group that are in the time window of the event it is asked for.
CountIsWindowed ==
  \A i \in DOMAIN results :
    results[i].node.function = "Count" =>
      results[i].value[1] <= Cardinality({j \in Before(i) :
        results[j].event.timestamp >= results[i].event.timestamp - TimeWindow})
==============================================================================
