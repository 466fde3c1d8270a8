-------------------------------- MODULE RuleSet --------------------------------
(***************************************************************************)
(* RuleSet and ConcurrentRuleSet (src/ruleset/mod.rs): callers add rules,  *)
(* switch them on and off by id and evaluate events, behind a read-write   *)
(* lock that is granted in the order it is asked for.  An evaluation       *)
(* starts one task per enabled rule, lets MaxConcurrent of them run at a   *)
(* time, and collects them in the order of the rules.                      *)
(*                                                                         *)
(* A rule is its id and what becomes of it: whether its tree can be built, *)
(* and how its task ends ("match", "other" or "panic").                    *)
(***************************************************************************)
EXTENDS Integers, SequencesExt, FiniteSets, Enumeration

CONSTANTS
  Callers,
  Rules,              \* [id, builds, verdict]; an id is a pair, NoId an empty one
  NoId,
  MaxConcurrent,      \* MAX_CONCURRENT_EVALUATIONS
  MaxCalls, MaxRules  \* bounds

\* How a rule's task ends.
Ended == {"match", "other", "panic"}

ASSUME RulesAssumption ==
  /\ \A rule \in Rules : rule.verdict \in Ended
  /\ MaxConcurrent \in Nat /\ MaxRules \in Nat

------------------------------------------------------------------------------
(* The rule set as a value *)

NewRuleSet == [rules |-> <<>>, index |-> {}, enabled |-> 0, failed |-> 0]

\* A rule without an id gets one of its place, which another may have as its own.
RuleId(rule, i) == IF rule.id = NoId THEN <<"rule", i>> ELSE rule.id

\* Mutant of Inserted: the first rule of a key keeps it.
InsertedOnce(index, key, i) == IF \E p \in index : p[1] = key THEN index ELSE index \cup {<<key, i>>}

\* rule_index is a set of pairs; insert() replaces the pair of the key.
Inserted(index, key, i) == {p \in index : p[1] # key} \cup {<<key, i>>}
IndexOf(index, key) == {p[2] : p \in {q \in index : q[1] = key}}

\* add_rule(): a rule whose tree cannot be built changes nothing.
AddRule(rs, rule) ==
  LET i == Len(rs.rules) + 1 IN
  IF ~rule.builds THEN rs
  ELSE [rs EXCEPT !.rules = Append(@, [rule |-> rule, enabled |-> TRUE]),
                  !.index = Inserted(@, RuleId(rule, i), i),
                  !.enabled = @ + 1]

\* Mutant of SetRuleEnabled: the counter moves though the rule does not.
SetRuleAlways(rs, key, enabled) ==
  IF IndexOf(rs.index, key) = {} THEN rs
  ELSE LET i == CHOOSE i \in IndexOf(rs.index, key) : TRUE IN
       [rs EXCEPT !.rules[i].enabled = enabled,
                  !.enabled = IF enabled THEN @ + 1 ELSE @ - 1]

\* set_rule_enabled(): the counter moves only if the rule does.
SetRuleEnabled(rs, key, enabled) ==
  LET at == {i \in IndexOf(rs.index, key) : rs.rules[i].enabled # enabled} IN
  IF at = {} THEN rs
  ELSE LET i == CHOOSE i \in at : TRUE IN
       [rs EXCEPT !.rules[i].enabled = enabled,
                  !.enabled = IF enabled THEN @ + 1 ELSE @ - 1]

EnabledAt(rs) == {i \in DOMAIN rs.rules : rs.rules[i].enabled}

------------------------------------------------------------------------------
(* The callers *)

VARIABLES
  ruleset,          \* RuleSet
  queue, readers, writer,   \* RwLock: who waits, who reads, whether someone writes
  call_pc, op,           \* per caller: its place and its call
  tasks, permits,   \* its tasks, one per enabled rule and in their order; the semaphore
  cursor, matches,  \* the task awaited, the matches collected
  calls             \* bound

lock == <<queue, readers, writer>>
evaluation == <<tasks, permits, cursor, matches>>
concurrent == <<ruleset, lock, call_pc, op, evaluation, calls>>

Keys == {RuleId(r, i) : r \in Rules, i \in 1..MaxRules}
Calls == [kind : {"evaluate"}] \cup [kind : {"add"}, rule : Rules]
         \cup [kind : {"set"}, key : Keys, enabled : BOOLEAN]

RuleSetInit ==
  /\ ruleset = NewRuleSet
  /\ queue = <<>> /\ readers = {} /\ writer = FALSE
  /\ call_pc = [c \in Callers |-> "idle"] /\ op = [c \in Callers |-> [kind |-> "evaluate"]]
  /\ tasks = [c \in Callers |-> <<>>] /\ permits = [c \in Callers |-> 0]
  /\ cursor = [c \in Callers |-> 1] /\ matches = [c \in Callers |-> <<>>]
  /\ calls = 0

At(c, from, to) == call_pc[c] = from /\ call_pc' = [call_pc EXCEPT ![c] = to]

Adding == Cardinality({c \in Callers : call_pc[c] \in {"waiting", "write"} /\ op[c].kind = "add"})

Call(c) ==
  /\ At(c, "idle", "waiting") /\ calls < MaxCalls
  /\ \E call \in Calls :
       /\ call.kind = "add" => Len(ruleset.rules) + Adding < MaxRules
       /\ op' = [op EXCEPT ![c] = call]
  /\ queue' = Append(queue, c) /\ calls' = calls + 1
  /\ UNCHANGED <<ruleset, readers, writer, evaluation>>

First(c) == queue # <<>> /\ Head(queue) = c

ReadLock(c) ==
  /\ At(c, "waiting", "spawn") /\ op[c].kind = "evaluate"
  /\ First(c) /\ ~writer
  /\ queue' = Tail(queue) /\ readers' = readers \cup {c}
  /\ UNCHANGED <<ruleset, writer, op, evaluation, calls>>

WriteLock(c) ==
  /\ At(c, "waiting", "write") /\ op[c].kind # "evaluate"
  /\ First(c) /\ ~writer /\ readers = {}
  /\ queue' = Tail(queue) /\ writer' = TRUE
  /\ UNCHANGED <<ruleset, readers, op, evaluation, calls>>

\* add_rule() awaits the building of the tree, set_rule_enabled() awaits nothing.
Write(c) ==
  /\ At(c, "write", "idle")
  /\ ruleset' = (IF op[c].kind = "add" THEN AddRule(ruleset, op[c].rule)
                 ELSE SetRuleEnabled(ruleset, op[c].key, op[c].enabled))
  /\ writer' = FALSE
  /\ UNCHANGED <<queue, readers, op, evaluation, calls>>

\* evaluate(): a semaphore and a task for each enabled rule.
Spawn(c) ==
  /\ At(c, "spawn", "collect")
  /\ tasks' = [tasks EXCEPT ![c] =
       [j \in 1..Cardinality(EnabledAt(ruleset)) |->
          [rule |-> InOrder(EnabledAt(ruleset))[j], state |-> "new"]]]
  /\ permits' = [permits EXCEPT ![c] = MaxConcurrent]
  /\ cursor' = [cursor EXCEPT ![c] = 1] /\ matches' = [matches EXCEPT ![c] = <<>>]
  /\ UNCHANGED <<ruleset, lock, op, calls>>

Verdict(c, j) == ruleset.rules[tasks[c][j].rule].rule.verdict

\* Mutant of StartTask: a task does not wait for a permit.
StartTaskAtOnce(c, j) ==
  /\ tasks[c][j].state = "new"
  /\ tasks' = [tasks EXCEPT ![c][j].state = "running"]
  /\ permits' = [permits EXCEPT ![c] = @ - 1]
  /\ UNCHANGED <<ruleset, lock, call_pc, op, cursor, matches, calls>>

StartTask(c, j) ==
  /\ tasks[c][j].state = "new" /\ permits[c] > 0
  /\ tasks' = [tasks EXCEPT ![c][j].state = "running"]
  /\ permits' = [permits EXCEPT ![c] = @ - 1]
  /\ UNCHANGED <<ruleset, lock, call_pc, op, cursor, matches, calls>>

\* Mutant of EndTask: a task that panics keeps its permit.
EndTaskLeaks(c, j) ==
  /\ tasks[c][j].state = "running"
  /\ tasks' = [tasks EXCEPT ![c][j].state = Verdict(c, j)]
  /\ permits' = [permits EXCEPT ![c] = IF Verdict(c, j) = "panic" THEN @ ELSE @ + 1]
  /\ UNCHANGED <<ruleset, lock, call_pc, op, cursor, matches, calls>>

\* The tree's answer or a panic, which unwinds and so gives the permit back too.
EndTask(c, j) ==
  /\ tasks[c][j].state = "running"
  /\ tasks' = [tasks EXCEPT ![c][j].state = Verdict(c, j)]
  /\ permits' = [permits EXCEPT ![c] = @ + 1]
  /\ UNCHANGED <<ruleset, lock, call_pc, op, cursor, matches, calls>>

\* Mutant of Collect: what a panic leaves out is not left out.
CollectAll(c) ==
  /\ call_pc[c] = "collect" /\ cursor[c] <= Len(tasks[c])
  /\ tasks[c][cursor[c]].state \in Ended
  /\ matches' = [matches EXCEPT ![c] =
       Append(@, [rule |-> tasks[c][cursor[c]].rule, matched |-> tasks[c][cursor[c]].state = "match"])]
  /\ cursor' = [cursor EXCEPT ![c] = @ + 1]
  /\ UNCHANGED <<ruleset, lock, call_pc, op, tasks, permits, calls>>

\* task.await: a task that panicked is left out, with a warning.
Collect(c) ==
  LET task == tasks[c][cursor[c]] IN
  /\ call_pc[c] = "collect" /\ cursor[c] <= Len(tasks[c]) /\ task.state \in Ended
  /\ matches' = [matches EXCEPT ![c] =
       IF task.state = "panic" THEN @
       ELSE Append(@, [rule |-> task.rule, matched |-> task.state = "match"])]
  /\ cursor' = [cursor EXCEPT ![c] = @ + 1]
  /\ UNCHANGED <<ruleset, lock, call_pc, op, tasks, permits, calls>>

\* The result is complete; its read lock is dropped with the return.
Complete(c) == call_pc[c] = "collect" /\ cursor[c] > Len(tasks[c])

Return(c) ==
  /\ Complete(c) /\ call_pc' = [call_pc EXCEPT ![c] = "idle"]
  /\ readers' = readers \ {c}
  /\ tasks' = [tasks EXCEPT ![c] = <<>>] /\ matches' = [matches EXCEPT ![c] = <<>>]
  /\ cursor' = [cursor EXCEPT ![c] = 1] /\ permits' = [permits EXCEPT ![c] = 0]
  /\ UNCHANGED <<ruleset, queue, writer, op, calls>>

Step(c) ==
  \/ ReadLock(c) \/ WriteLock(c) \/ Write(c) \/ Spawn(c) \/ Collect(c) \/ Return(c)
  \/ \E j \in DOMAIN tasks[c] : StartTask(c, j) \/ EndTask(c, j)

RuleSetNext == \E c \in Callers : Call(c) \/ Step(c)

\* The runtime runs every task that can go on.  Call is the environment's.
RuleSetFairness ==
  /\ \A c \in Callers :
       WF_concurrent(ReadLock(c) \/ WriteLock(c) \/ Write(c) \/ Spawn(c) \/ Collect(c) \/ Return(c))
  /\ \A c \in Callers, j \in 1..MaxRules :
       WF_concurrent(j \in DOMAIN tasks[c] /\ (StartTask(c, j) \/ EndTask(c, j)))

RuleSetSpec == RuleSetInit /\ [][RuleSetNext]_concurrent /\ RuleSetFairness

------------------------------------------------------------------------------
(* Properties *)

RuleSetTypeOK ==
  /\ Len(ruleset.rules) \in 0..MaxRules /\ ruleset.enabled \in Nat
  /\ readers \subseteq Callers /\ writer \in BOOLEAN
  /\ \A c \in Callers : permits[c] \in 0..MaxConcurrent /\ cursor[c] \in 1..(Len(tasks[c]) + 1)

\* metadata.enabled_rules, kept apart from the flags of the rules, counts them, whatever
\* is added and however often a rule is switched to what it is already.
EnabledIsCounted == ruleset.enabled = Cardinality(EnabledAt(ruleset))

\* A key leads to one rule, one that has it, and to the last of those that have: the
\* others of the same id can no longer be switched.
IndexLeadsToLast ==
  \A i \in DOMAIN ruleset.rules :
    LET key == RuleId(ruleset.rules[i].rule, i) IN
    \E j \in DOMAIN ruleset.rules :
      /\ IndexOf(ruleset.index, key) = {j} /\ j >= i
      /\ RuleId(ruleset.rules[j].rule, j) = key

\* What an evaluation returns is one look at the rule set: the answers, in order, of the
\* rules that are enabled at its return, but for those that panicked.
ResultIsOneLook ==
  \A c \in Callers :
    Complete(c) =>
      LET answered == {i \in EnabledAt(ruleset) : ruleset.rules[i].rule.verdict # "panic"} IN
      matches[c] = [k \in 1..Cardinality(answered) |->
        LET i == InOrder(answered)[k] IN
        [rule |-> i, matched |-> ruleset.rules[i].rule.verdict = "match"]]

\* Every call returns: more rules than permits, rules that panic and callers that take
\* turns at the lock block nobody for good.
CallsReturn == \A c \in Callers : call_pc[c] # "idle" ~> call_pc[c] = "idle"
==============================================================================
