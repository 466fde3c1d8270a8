# A verification project for sigma-rs

sigma-rs parses Sigma detection rules, evaluates them against events, and can
consume those events from Kafka/Redpanda or take them over HTTP and gRPC. This
directory holds TLA+ models of it, the TLC configurations that check them and
TLAPS proofs about them. Paths below are relative to `src/src/`.

## 1. The system

| component | state | operations | what is hard |
|---|---|---|---|
| consumer pipeline (`consumer/consumer.rs`) | channels, a batch per worker, the distributor's circuit breakers | `run`, consumer loop, distributor, single and batch worker, committer, drain at shutdown | six kinds of task over bounded channels; permits held while more are awaited; worker panics; a restart at any point |
| offset manager (`consumer/offset_manager.rs`) | pending and committed offsets | `mark_offset`, `commit_offsets` | marks out of order; a commit whose outcome is unknown |
| backpressure (`consumer/backpressure.rs`) | semaphore and five atomics | `acquire`, `try_acquire`, drop, `should_pause`, `should_resume`, `adjust_limits`, `force_cleanup` | no lock joins the atomics; timeouts; wrapping subtraction |
| shutdown state (`consumer/shutdown.rs`) | in-flight count | add, remove, has | wrapping subtraction; read by the drain between steps of workers |
| retries, processor, dead letters (`consumer/retry.rs`, `processor.rs`, `dlq.rs`) | attempt counter, headers, counters | `execute_with_predicate`, `process`, `send_message` | backoff arithmetic; non-retryable errors and the threshold; letters that die again |
| metrics (`consumer/metrics.rs`) | circular buffer, three maps with a lock each | push, statistics, set, export, reset | the order in which the locks are taken; a buffer that wraps |
| lexer (`lexer/`) | position in the condition | a state machine that emits tokens on a bounded channel | prefix matches inside words |
| condition parser (`parser/`, `tree/`) | tokens; pending `not`, pending quantifier | collect, validate, `new_branch`, `create_rule_from_ident` | state that outlives a token; entries that cannot be built |
| match tree (`ast/`) | none | `matches` of each node | short-circuit and `applicable` |
| patterns (`pattern/`) and events (`event.rs`) | none | escape, match, coerce, select | two escapes, wildcards, white space, types |
| string interner (`pattern/intern.rs`) | map | `intern` | double-checked lock, eviction, poisoning |
| rule set, engine (`ruleset/`, `engine.rs`) | rules, index by id, counts | load, add, enable, evaluate concurrently | duplicate ids; a failing task among the concurrent ones; files and directories that fail |
| aggregation (`aggregation/`) | sliding window with a cached sum; group states in an evicting cache | add, get, compact; evaluate | timestamps out of order; eviction between fetch and update |
| service (`service/`, `bin/`) | handles of the servers, metrics, a stream | start, requests with timeout and limit, stop | joins in sequence; handlers dropped half way |
| command line, telemetry, generated code | — | start-up | — |

**Interaction.** `RedpandaConsumer::run` spawns a consumer loop, a distributor
(when there is more than one worker), the workers, a metrics reporter and the
offset committer. The loop receives a message from Kafka, asks the
backpressure controller whether to pause, and sends the message on the main
channel; the distributor passes it round-robin to a worker's channel, skipping
workers whose circuit is open; a worker acquires a permit, calls the processor
with retries, marks the offset on success or sends the message to the dead
letter topic, and drops the permit. The committer commits the marks every five
seconds; on a shutdown signal `run` waits until the in-flight count is zero (or
30 s), commits once more and joins the tasks. The processor calls the rule set,
which evaluates its match trees concurrently; the trees come from the parser,
which reads the lexer's channel and makes a matcher for each entry of the
detection, whose texts the interner shares. The service loads the rules with the
engine and lets HTTP and gRPC requests evaluate events against them.

**What makes each correct.** Pipeline: no delivered message is lost or stuck, a
pause ends, the final commit covers what was drained. Offsets: a committed
position stands over settled messages only. Backpressure: permits are conserved,
the counter beside them is exact, memory is given back. Delivery: a message is
retried within the policy and then is dead, with headers that lead to its origin.
Metrics: they agree with each other. Parser: the tree means what the condition
says, and each of its leaves what its entry says. Match tree: the usual Boolean
laws where everything is applicable. Rule set: each enabled rule is evaluated
once, and the index leads to the last rule of an id. Window: the value is the sum
of what is inside. Interner: one Arc per string, bounded size. Service: what is
counted is what was answered, and every request is answered. `PROJECT.json`
lists each hazard at its line.

## 2. Modules

| module | models |
|---|---|
| `Backpressure` | `BackpressureController` and its permits: an atomic access to a step, or two or three where no property tells them apart |
| `OffsetManager` | the two maps and the group's position at the broker (no specification of its own: its actions are used by the pipeline) |
| `InOrderCommit` | abstract: the position only moves forward over settled messages |
| `ConsumerPipeline` | extends `OffsetManager`: loop, distributor, workers, committer, `run`, a crash and a restart |
| `MessageDelivery` | a message from being counted as consumed: dropped, queued, lost, or with a worker that retries, backs off, calls the processor and its metrics wrapper, and writes to the dead letter topic, which may be read again |
| `ConsumerMetrics` | the circular buffer with its statistics; the maps, their locks, the export and the reset |
| `MatchTree` | the answers of the AST's nodes, as an algebra: no state |
| `ConditionParser` | extends `MatchTree`: the lexer's task, the token channel, the parser's two passes |
| `ConditionGrammar` | extends `ConditionParser` with what a condition means, by its grammar: the reference the tree is compared with |
| `SigmaEscape` | the two copies of the escape of a pattern for the glob crate, each backwards over the text, and the escaped text read forwards: the reference |
| `FieldMatching` | extends `MatchTree` and `SigmaEscape`: from an entry of a detection to what it answers, through either builder, the matchers, coercion and selection |
| `FieldMeaning` | extends `FieldMatching` with what an entry means, without matchers, escapes and globs: the reference |
| `Enumeration` | a set of numbers in increasing order, as `RuleSet` evaluates its rules |
| `StringInterner` | the pool of pattern strings, a step for each stretch under its lock |
| `RuleSet` | the rule set as a value, and its callers behind the read-write lock, with the tasks of an evaluation |
| `SigmaEngine` | the loading of rules: the walk through the directories, validation, the two entry points |
| `SigmaService` | extends `SigmaEngine`: `main()` and the runner, the two servers, the HTTP handlers and layers, the metrics, the gRPC stream |
| `SlidingWindow` | the window, each method a step |
| `AggregationEvaluator` | `evaluate()` as the fetch and the update of a group, and a cache that drops groups at any time |
| `BackpressureProofs`, `ConsumerPipelineProofs`, `DeliveryProofs`, `ConditionParserProofs`, `AggregationProofs`, `RuleSetProofs`, `ServiceProofs`, `PatternProofs` | the theorems |
| `MC…` | instances for TLC: the sets explored, and the composition of parts into one run |

`MCAggregation` puts the window and the evaluator side by side, `MCDelivery` the
messages and the metrics, `MCMatching` the entries and the interner, and
`MCService` the engine, the HTTP requests, the stream and the callers of a rule
set. In these a variable `subject` says which part a behaviour is about: parts
that share no state need no interleaving, and with it the states of the parts
add up instead of multiplying. What is shared does interleave: all the tasks of the
pipeline, the handlers over one set of metrics, the callers over one rule set.

**Correspondence.** `Backpressure!pc[c]` is the place of a task in `acquire`,
`try_acquire` or a permit's drop; `seen`, `est`, `waits`, `reserved` are its
locals. In `ConsumerPipeline`, `loop`, `dist`, `pc[w]` and `run_pc` are the places
of the tasks between two awaits that others can observe; `main_queue` and
`worker_queue` are the mpsc channels, whose sends wait for room;
`batch[w]` is the vector of `run_batch_processor` and, when batching is off, the
single message of `run_single_processor`; `inflight_messages` is the count of
`ShutdownState`. The pipeline keeps of the controller only its permits
(`inflight_count` is their sum): `BackpressureProofs!InflightIsExact` is what
justifies that. `succeeded`, `failed`, `dropped`, `handled`, `owed` are history.

The pipeline takes the processing of a message as one step with two outcomes;
`MessageDelivery` is that step opened, with the counters around it. There `topics`
holds the main topic and the dead letters, a message being its payload and headers
and its offset its place. The consumer loop counts a message (`Count`) and drops it
if a pause is called for, or adds it to `queued`, from where a worker takes it with a
permit (`Take`), drops it without one (`Refuse`), or a dead worker leaves it behind
(`Strand`): what is dropped is in `lost`, a history, since no counter of the code
knows of it. `queued` stands for the channels and the batches and is a set: in which
order messages reach the workers is the subject of `ConsumerPipeline`. A send writes
its letter never, once or twice, since the producer's client sends again when an
answer is lost. `pc[w]` says whether the worker processes, sleeps or sends, `attempt`,
`tries` and `duration` are the locals of the executor. A backoff is computed on
integers as the code computes it on floats, `jitter` being any number of its
range. In `ConsumerMetrics` each lock has its readers and its writer, and a
thread that waits lets no new reader in when it wants to write, as parking_lot
does.

In `ConditionParser` the text of a condition is a sequence of symbols: a word is
one symbol, carrying the token that `check_keyword()` makes of it and the entries
of the detection that it names, and a run of spaces is another. `lex_state` is
`LexState`; `text` is what lies between `start` and `position`, `unread` what
follows. A word also says whether `check_keyword()` can split it at its third byte
(`splits`); the words of `Unsplittable` are those it cannot, and the lexer's task
panics at them (`LexPanics`) where it asks. `phase` tells the parser's passes apart and `stack` holds the local
variables of the calls of `new_branch()` in progress, innermost first. A branch of
the tree is the function of its answers to every event, an event being what each
entry of the detection answers to it, so that two trees are equal when no event
tells them apart. `FieldMatching` has branches of the same kind, over events that
are values: it shows what one entry answers, which `ConditionParser` takes as
given. There a text is a sequence of the few characters that its rules tell
apart, and a matcher is its kind and its token.

In `RuleSet` a call is granted the lock in the order of `queue`; `tasks[c]` are the
tasks of an evaluation in the order of the rules, `permits[c]` its semaphore,
`cursor[c]` the handle awaited. In `SigmaEngine`, `dirs_to_process` is the stack
and `entries` what is left of the directory being read, in any order.
`SigmaService!pc[c]` is the place of a handler between two updates of the atomic
counters, which a timeout can cut only where the handler awaits. In
`AggregationEvaluator` the states ever made are numbered, and `cache` maps a group
to a number, so that a task can hold a state that the cache has dropped. In
`StringInterner` the Arcs of a text are numbered in the order they were made.

`PROJECT.json` maps every definition to its lines. Machine integers are kept
modulo `UsizeMod`, because `fetch_sub` wraps. Time is abstracted: a timeout may
fire whenever its condition still holds.

## 3. Runs

| run | bounds | shows |
|---|---|---|
| `backpressure` | 3 callers, 2 permits, both entry points, memory limit 2, wrap at 4, max_inflight up to 2 | types, conservation of permits, exact in-flight count |
| `pipeline_one_worker` | 1 partition, 3 offsets, 2 failures, 1 crash, 1 panic, wrap at 8 | commits in order (refinement of `InOrderCommit`), commits only what was accepted, the final commit covers the drained messages |
| `pipeline_batches` | 4 offsets, 2 workers, batches of 2, channel of 2, 2 permits, 2 panics | types, loss bounded by the panics, each delivered message settles in spite of the competition for permits |
| `pipeline_overtaken` (violation) | 2 workers, 1 partition | a commit overtakes a message still in work |
| `pipeline_stalls` (violation) | 1 worker, 3 offsets, 2 permits | a pause never ends |
| `condition` | 2 entries, the 7984 conditions of `MCTexts`, channel of 2, 11 tokens, depth 2 | types, the tree means the condition, what is rejected has no meaning, breaks a limit or has a word that makes the lexer panic, both tasks end |
| `condition_glued` (violation) | conditions such as `not(s1 and s2)` | a word before a left parenthesis is lost: `not(s1)` is parsed as `(s1)` |
| `aggregation` | evaluator: 2 tasks, 6 nodes, 3 events, 3 evaluations, 1 eviction; window: duration 1, 3 values of both signs, instants 0 to 3, 3 additions | a group's updates are lost to an eviction only, a node alone on its group is exact, the window's cache, content and queries |
| `aggregation_window` (violation) | 3 events at 0, 30 and 65 s, window of 60 s | the time window of a node is not looked at: the third event counts three |
| `service` | 8 directories, at most 3 rules each; 2 connections under a limit of 1; a stream of 2; 2 callers, 4 calls, 2 rules, 1 task at a time | types, all rule files are accounted for, the metrics, the stream's order, the rule set's counts and index, results of one look; an awaited error ends the service, requests are answered, calls return |
| `delivery` | 2 workers, 2 messages, 4 policies, thresholds 0 and 2, dead letters read again while there are fewer than 2, up to 2 copies of each; buffer of 3, 4 durations pushed; 2 updaters, an exporter, a resetter, 4 steps | retries and waits are bounded, what failed is dead, what was counted is accounted for, origin of letters, statistics, export and the only deadlock there is; what was taken settles |
| `matching` | entries with every modifier, kind of value, list and object; every regular expression of 1 to 4 of the characters `a b * ? .` under `re`, of up to 3 between slashes; 2 threads, 3 texts, capacity 1 and 2, 1 panic | an entry's branch matches what the entry means, both escapes agree; one Arc per text while it is kept, capacity |

**Why these bounds are enough.** Three callers over two permits give contention,
a timeout and a drop at once. Two workers are the least that can overtake one
another or take a task over; two batches of two over two permits are the
least that can deadlock; two permits with 80 % and 50 % give a pause at 1 and a
resume at 1, so that pausing and resuming both happen. Two panics leave both
workers dead and the distributor with every circuit open. A crash and a panic are
each repeated at every point of the instance. Wrapping appears at `UsizeMod`,
chosen above every count of the instance: a value near it is a wrapped one.
`MCTexts` holds every sequence of up to three of the 16 tokens and every one of
four of the seven that can follow one another in most ways, so that each pair of
neighbours that the parser admits or refuses occurs, at the beginning, in the
middle and at the end; and the well-formed conditions of up to three operands,
in which a `not`, a quantifier or a group meets `and` and `or` on either side. A
word that does not split stands before, behind and between other operands, in a
group, after a quantifier and before a pipe.
The reductions treat one, two and more branches apart, hence three operands. A
channel of two fills. The longest texts have twelve tokens, one more than
`MaxTokens`, and groups nest three deep, one more than `MaxDepth`, so that both
limits are met and exceeded. With two entries an order of them exists.

Two tasks and one eviction are the least in which a state is lost; the nodes are
one of every function, of which two share a field of the state; a user may be
called "unknown", the name of the group of events without a user. Three additions
at four instants over a window of one give each order of expiry and every pair of
an entry that expires before or behind one that does not; sums of the values pass
`F64Max` on both sides. The directory tree nests, has unreadable, missing, empty
and overfull directories, and reading may fail in the middle of any; there are files
that are no rules, that fail to parse, to validate and to build, and ids that collide,
one of them with the id an earlier rule without one was given. Two connections under a limit of one wait for each
other; one of two rules panics under a single task at a time. The policies of
`delivery` are one whose backoff grows past its maximum, a fixed one, one without
retries and one whose backoff is no number; one message has headers; a letter can
die twice. A buffer of three wraps at the fourth duration and, at two, has the
percentiles out of order. The texts of `matching` are up to four characters of a
letter, a star, a backslash and a bracket for the escapes, which look at
neighbours and at the parity of a run; the regular expressions have every pair of
operators behind one character, and those that do not compile; lists and objects
have up to two members, of which one, both or none can be built. Two threads meet
between the read and the write lock, and three texts overfill a pool of two.

`pipeline_batches` leaves out the committer and the crash, which touch nothing
a task waits for and are in `pipeline_one_worker`, and lets `run` end only when no
message is on its way (`SteadySpec`): a smaller set of behaviours for the liveness
check. The signal may come at any time in it.

Deadlock detection is off where the system really stops: the consumer at the end
of the log or after a shutdown, the parser's two tasks when they end, the callers
when their calls are used up, the service after its end; the deadlock of
the metrics' locks is what `OnlyKnownDeadlock` is about. `Backpressure` never
stops and is checked for deadlock.

**Fairness.** In the pipeline `FairSpec` is weakly fair to each task: tokio
schedules every ready task, the batch timer and the 30 s timeout of `acquire()`
fire, and a processor is assumed to return (one that hangs blocks its worker for
ever, which the code does not guard against). `DeliverySpec` adds that Kafka
delivers what it has unless the partitions are paused; the stall is a violation
even under it. `ConditionParser` is weakly fair to the lexer's task and to the
parser's, and not to the lexer's timeout: `BothTasksEnd` does not lean on it. The
service is weakly fair to the loading, to the start, to the runner, to the handler
or timeout of each connection and to every step of each caller and of each task it
spawned, since the lock, the semaphore and the runtime are fair; clients, failures
of servers and ctrl-c need never come. `MessageDelivery` is weakly fair to each
worker, which includes that a sleep ends and a send to Kafka returns. No fairness
is assumed of failures, panics, crashes, evictions, commits or signals.

**Divergences found.** The four violation runs are listed as findings in
`PROJECT.json`, each with the line that says otherwise. In all of them the model
is checked as it is in the passing runs, on a small instance that meets the case.

**Known divergences that no run asserts.** They are in the models, and the
properties are stated so as to allow exactly them:

- `acquire()` reserves one average message size and its permit releases another,
  and a timeout keeps what it reserved: memory need not be zero at rest (the test
  at `consumer/backpressure.rs:755` says "Memory should be released").
- `adjust_limits()` raises the limit by a tenth, truncated: below ten it never
  rises again. `force_cleanup()` zeroes the count and the memory while permits are out,
  whose drops then wrap both.
- A batch whose permits ran out is processed whole (`consumer/consumer.rs:787`),
  although the comment at line 777 says "Process only the items we got permits
  for", and the rest leaves the in-flight count twice, which then wraps.
- `run` keeps its own sender of the main channel while it joins the tasks, so that
  each join runs into its 30 s. `channel_buffer_size / num_workers` may be zero,
  and start-up panics.
- A non-retryable error fails at attempt 0 and, below `dlq_after_retries`, the
  message is neither processed nor dead-lettered; behind a `MetricsProcessor` no
  error is non-retryable, since it does not forward `is_retryable()`.
- The jitter is added after the cap. An initial backoff of zero and a power beyond
  the floats make the wait no number, and the worker panics.
- A message is counted as consumed (`consumer/consumer.rs:329`) before the loop asks
  whether to pause and may drop it (332-336), and before a worker may drop it because
  `acquire()` failed (661-668, 765-781) or die with it in its channel; no counter
  tells of these.
- With exactly two durations the median is above the other percentiles. An
  `export_prometheus()` and a `set_high_water_mark()` can wait for each other.
- Reading its own dead letters the consumer drops headers that begin with `dlq.`.
- `applicable` of `all of` depends on the order of a `HashMap`; whether it matches
  does not. `1 of` and `all of` are recognised inside words; some meaningless
  conditions (`and s1`, a pending quantifier) are accepted.
- `check_keyword()` splits a word of six bytes or more at its third byte
  (`lexer/token.rs:201`). In the middle of a character, as in `abé123` or a Cyrillic
  name, that panics, and a good condition is rejected through the join error of the
  lexer's task. `OnlyBadRejected` allows exactly the rejections by that panic.
- A text with a `?` and no `*` is compared as it is (`pattern/factory.rs:78`), although
  the tree builder's comment says "Will be handled as glob by factory" of it
  (`tree/builder.rs:531-532`) and a test expects of "cmd.???" that it matches "cmd.exe"
  (`src/tests/modifier_tests.rs:163`). `MeansItsEntry` takes it as the factory does.
- Backslashes are doubled and brackets escaped for globs, but the glob crate knows
  no escapes: a `contains` of `a\b` or `[a]` does not find its own text.
  `MeansItsEntry` leaves such values out (`Regular`), as it does fractions and
  integers beyond `i64`, which never match themselves.
- A field that cannot be built is left out of the AND of its entry; `all` over a
  list with a number in it is ignored; `null` alone is rejected but in a list is
  the empty text, while that of an event is "null". The texts of a rule are
  trimmed, those of an event only collapsed.
- `test_weighted_interpolation` adds 10 at 0 s and 20 at 30 s to a window of 60 s and
  asserts 20 at 15 s and at 45 s, "Simple mock should return current value"
  (`src/tests/aggregation_tests.rs:493-499`). The code sums what is inside: 10 and 30.
  `QueryIsExact` covers the second, whose window begins no earlier than the last one
  applied, and agrees with the code.
- An interner of a capacity below ten evicts nothing. Once a thread panicked under
  its lock the map is cleared at every later insertion.
- `SigmaEngine::new` counts a file that fails even when told to fail on errors.
  While HTTP is awaited an error of the gRPC server goes unnoticed, and ctrl-c lets
  the runtime drop both servers.
- `set_rule_enabled()` on an id that two rules have reaches the last of them only,
  while both are evaluated; a rule without an id may be given that of another.

## 4. Proofs

`BackpressureProofs` proves, for any finite set of callers (fewer than
`UsizeMod`), any number of permits, thresholds and limits:

- `TypeCorrect`: `TypeOK`.
- `SemaphoreAccountingHolds`, `InflightIsExact`, `InflightBounded`. The count alone
  is not inductive: a drop wraps if the count could be 0 while a permit is
  counted. The invariant `AccountingInv` joins the semaphore's balance
  (`available + |Holding| = Permits`) with the exactness of the count
  (`inflight_count = |Counted|` until a forced cleanup); since `Counted` is a subset of
  `Holding`, the count is bounded by the permits and never wraps.

`ConsumerPipelineProofs` proves, for any number of partitions, workers, permits,
panics and crashes:

- `TypeCorrect`: `TypeOK`, with the facts it needs that a worker at work has a
  message and a distributor that sends has a task.
- `CommittedOnlyProcessed`: `CommittedWasProcessed`. The inductive invariant
  `CommitInv` follows a message from the worker to the broker: a worker about to
  mark has succeeded on its message, a marked offset belongs to a success, and
  so does the offset before each group position.
- `OneWorkerCommitsInOrder`: the refinement `CommitsInOrder` of `InOrderCommit`, for one
  worker, with batches or without, and through panics, failed commits and restarts; and
  `OneWorkerSkipsNothing`, the same as an invariant of the group's position. With
  two workers both are false, as `pipeline_overtaken` shows. The invariant `OrderInv`
  looks at everything on its way as one queue (`Pipe`: the rest of the batch, the
  worker's channel, the main channel, what the loop holds): it is in the order of
  the log, begins behind what was settled, and what was delivered is settled or in
  it. Each step either passes the head of this queue on or leaves it alone, however
  the messages move between the channels.
- `FinalCommitCoversOwed`: `FinalCommitCovers`, for one worker and batches of one. Then
  the in-flight count is exact (`OneAtATime`) and the drain ends between two messages;
  what succeeded is marked or committed (`HandledCovered`), which later marks do not
  undo since they are in order. With more in flight the count wraps, as section 3 says.
- `LossesAreBounded`: `LossIsBounded`, for any number of workers and no restart. `LossInv`
  says that the distributor takes over only from the dead, that it drops a
  task only once all are, and that what is neither settled nor on its way was in a
  dead worker's batch or channel, whose sizes bound it. A restart loses what was on
  its way, to read it again: the bound is about one life of the process.

`DeliveryProofs` proves, for any workers, published messages and policies:

- `CountersAlwaysAgree`, `FailedAreDead`, `OriginsAreKept`: `CountersAgree`,
  `FailedIsDead` and `OriginIsKept`. The invariant `DeliveryInv` has a
  condition for each place of a worker (`WorkerOK`), counts the messages on
  their way, lost and with a worker against the counters (`CountersOK`), which each step moves
  from one of these places to the next (`ReadingOK` keeps them apart), and says of each letter which message it was made
  from: a lemma on the headers shows that the consumer's own, which
  a letter of a letter brings along, are replaced.
- `RetriesAlwaysBounded`: `RetriesAreBounded`. To `DeliveryInv` it adds `WaitsInv`, that a
  worker sleeps for a wait its attempt allows, and `CallsInv`: a message is with one
  worker or settled, so that each call is one the set of `Calls` did not have yet. That
  the waits do not shrink rests on the powers of the multiplier (`PowersGrow`, by
  induction) and on the cap coming before the jitter (`BackoffGrows`, `WaitIsBetween`).
- `ExportsAreOneLook`, `OnlyOneDeadlock`: `ExportIsOneLook` and `OnlyKnownDeadlock`, for any
  updaters, exporters and resetters. `LocksInv` says for each place of a thread
  which locks it reads, which it writes and which it waits for; from the order in which
  they are taken it follows that a thread that waits for one that waits is in the
  one cycle there is.
- `StatsAlwaysRecent`: `StatsAreRecent`, for a buffer of any capacity. `BufferInv` says where
  in it the k-th oldest sample lies (`SamplesAlwaysRecent`); the k-th of the sorted
  samples is the least that k of them do not exceed, so that the percentiles ascend with
  their places (`SortedAscends`, `PlacesOfPercentiles`), but for the two samples of
  `TwoSamples`.

`ConditionParserProofs` proves, first of `MatchTree` and for lists of branches of any length:

- `ReduceAndChangesNothing`, `ReduceOrChangesNothing`: when no branch claims a match
  that does not apply, the node that `reduce()` picks for one or two branches
  answers like the node with a list.
- `MatchIsOrderFree`, `OrIsOrderFree`: whether an AND node matches, and all that an OR
  node answers, does not depend on the order of the branches. What does is
  `applicable` of an AND node.

and of the parser, for any detection, texts, channel, limits:

- `TypeCorrect`: `TypeOK`, in which the stack of calls never grows beyond `MaxDepth`:
  the check of the depth inside `new_branch()` is never the one that fails. The
  invariant is `NestInv`: while the parser parses, the calls in progress and the
  parentheses still to come balance and stay within the limit, a fact about
  `Depth` of the remaining tokens that each consumed token preserves
  (`DepthOfTail`).
- `TreesAnswerSanely`: `MatchesApply`, the condition under which the laws above hold.
  `ParserInv` carries it over the branches of every call in progress.
- `TreesMeanTheCondition`: `MeansTheCondition`, and `OnlyBadAreRejected`:
  `OnlyBadRejected`. The parser is correct against the grammar, for conditions of any
  length and depth. `MeaningInv` adds to the types that lexer and parser are where
  they should be. `LexSynced`: what the lexer sent, in the channel or collected, is the
  tokens of the text up to its place. `ParseSynced`: each call in progress began at a
  place of the tokens from which what it has put together so far (the list of
  alternatives, the current conjunction, the pending `not` and quantifier) means
  what the grammar gives the part read, and what it waits for closes the group
  it stands in (`Nested`). What the grammar says of a part rests on its shorter parts,
  so a lemma on parts is an induction over lengths. The main ones: a text with a meaning
  passes all checks on neighbours and parentheses (`MeaningIsShaped`,
  `NoneIsRefused`); a meaning splits only at the last connective outside of
  its groups (`ExpressionEnds`, `TermEnds`), which is where the parser, reading from left to
  right, splits it; and the reductions preserve the meaning, because the branches'
  matches apply. A failure inside `new_branch()` is out of reach (`ParseNeverFails`).
  Both properties suppose `WordsApart`, that no word stands directly before a left
  parenthesis or a quantifier: what happens otherwise is what `condition_glued` shows.
  A rejection by a panic of the lexer has its word (`PanicSeen`): what the lexer holds is
  always a part of the condition, and the panic needs one that does not split.
- `TokensAreTheCondition`: under `WordsApart` the parser collects the text, token by token,
  also of a condition without a meaning, which is as far as `condition_glued` leaves
  `TokensAreTheText` standing. `EndInv` adds to `LexSynced` that the end of the stream is seen
  only of a stream the lexer has ended (not cut short), and never behind a pipe.

`AggregationProofs` proves, for every duration, all values and instants in any
order, and for any number of tasks, nodes, events and evictions:

- `CacheNeverStale`: `CacheIsSum`, `NothingFreshRemoved`: `OnlyExpiredRemoved`, and
  `InOrderWindowIsExact`: `InOrderIsExact`. The invariant `WindowInv` says that the
  entries are the tail of what was added and that all before it had expired at the
  latest start applied (`horizon`), that no entry is younger than that window, and,
  while instants come in order, that the timestamps ascend and the first entry left
  is fresh, so that it decides for those behind it. Without the tail and the order
  the exactness is not inductive. The lemmas on `FromFirstFresh` say what the loop
  that pops the front removes.
- `StatesLostToEvictionOnly`: `NoStateLost`. `EvaluatorInv` adds the types: a state
  that is looked at exists, so that an update creates none.
- `QueriesAreExact`: `QueryIsExact`. What `WindowInv` says of the tail leaves out only
  entries before the window of the query; the sum over the places asked for is then
  the same over the tail as over all that was added (`SumOfTheEnd`).
- `AloneNodesAreExact`: `AloneIsExact`. `AloneInv` says of every group and of every function
  that has been alone on the fields it uses that those fields hold its aggregate over the
  results so far; one more result keeps that (`OneMoreHolds`), a result of another
  state or function leaves it (`OthersHold`), and a group that comes back after an
  eviction begins with a new state and nothing in it (`NewHolds`).
- Sums are recursive functions on the numbers. That such a function exists, and what
  follows by induction from its equation, is proved by the least counterexample
  (`Induction`), which needs no theorem with an operator as its parameter.

`RuleSetProofs` proves, for any callers and rules, ids that repeat and rules that
cannot be built or panic:

- `EnabledCounted`: `EnabledIsCounted`, and `IndexIsLast`: `IndexLeadsToLast`. The
  invariant `Inv` holds of the rule set as a value: the keys of the index
  are places of rules whose id is the key, and the count is the number of enabled
  rules; lemmas show that `AddRule` and `SetRuleEnabled` keep it, and the callers
  change the rule set by these alone.
- `ResultsAreOneLook`: `ResultIsOneLook`. `LookInv` adds to `Inv` that no writer is in
  while a caller reads, that the tasks of an evaluation are those of the enabled rules in
  order, each in a state of its own rule, and that the matches are the answers of
  the tasks awaited so far. That an increasing list of a set's members is the only one
  (`InOrderUnique`) makes the result the one of the definition.
- `RuleSetTypes`: `RuleSetTypeOK`, a conjunct of `MCService!TypeOK`, and that no evaluation
  runs more tasks than the semaphore admits. `PermitInv` says that while an evaluation
  collects, each permit is in the semaphore or with a task that runs (`TaskTakesPermit`),
  a panic included; the bound on the rules counts the adding calls under way (`RoomOK`).

`ServiceProofs` proves, for any directories, requests, connections and limits:

- `AllFilesAlwaysAccounted`, and `ServiceCountsFiles` of the whole service:
  `AllFilesAccounted`. `EngineInv` holds what was loaded and what failed against the
  files seen. `WalkInv` says which files those are: all but the ones still ahead, which
  are below a directory on the stack, below one among the entries that remain, or
  among these entries. No file may be ahead twice (`Apart`): no directory on the stack
  is below another. `Below` is the least closed set, not a recursion, so what it holds
  (`BelowSplits`, `ParentBelow`) follows without an induction over the tree.
- `StreamsInOrder`: `StreamInOrder`. `StreamInv` says that the answers are those of the first
  requests, an error only the last of them.
- `MetricsAlwaysAccount`: `MetricsAccount`. The counters are the sizes of the sets of
  connections that have passed the place where each is counted (`Tally`); `ConnectionsInv` says
  what each place of a handler implies of its request and its answer, so that
  those sets stand in the relations claimed. A timeout between two places leaves
  a connection in the one set and not in the other: this is what the
  inequalities are for.
- `ServiceTypes`: `ServiceTypeOK`, which includes the limit of the connections inside.

`PatternProofs` proves, for any threads, texts and capacities of the interner and any text over any characters:

- `OneArcAtATime`: `OneArcWhileKept`, and `PoolIsBounded`: `CapacityHolds`. The
  invariant joins the balance of Arcs made and removed with the bound, which an
  insertion keeps because it evicts first from a pool that is full.
- `EscapesAlwaysAgree`: `EscapesAgree`. Both copies of the escape go through the text
  backwards and decide on the backslashes when they come to the character before
  them; the reference goes forwards and decides at the character behind them. What
  was read forwards, joined with what was read backwards of the rest, is the same text
  wherever the two meet (`JoinsOn` moves the meeting place by a character), so that
  the reversed copy gives the reference (`ReversedIsEscaped`). The buffer holds, counted from its
  end, what the other copy pushes (`FillingIsPushing`), and a text with neither
  backslash nor bracket is left as it is by the reference too (`PlainIsEscaped`).
- `BufferSuffices`: the buffer of twice the length is enough: after `m` characters, with the
  backslash that may still be due, at most `2 * m` places are taken. This is why the
  index, which the code keeps as an `i32`, never goes below the first place.

Assumptions: `BackpressureAssumption`, `PipelineAssumption` (what `validate()` of
the configuration admits, and a channel buffer no smaller than the number of
workers, below which start-up panics), `DeliveryAssumption` (types; what was published
and its headers are lists), `MetricsAssumption` (a thread is of one kind; durations
are numbers; a buffer has room), `ParserAssumption` (a finite detection, and
no word directly after a word in a text), `WindowAssumption`,
`EvaluatorAssumption`, `InternerAssumption` (types of the constants, finite sets),
`RulesAssumption` (a rule matches, does not, or panics; the permits and the bound are numbers), `EngineAssumption`
(directories form a tree, since links are not followed), `ServiceAssumption` (finitely many connections, some
request, the four routes).
TLC evaluates them in each run.

Only model-checked:

- everything about liveness (`EveryDeliveredSettles`, `ConsumptionGoesOn`,
  `BothTasksEnd`, `AwaitedErrorEnds`, `EveryRequestAnswered`, `CallsReturn`,
  `EveryTakenSettles`), since the backends do not reason about fairness here;
- what is compared with a recursive operator: `MeansItsEntry`. `FieldMatching` and
  `FieldMeaning` have recursive operators (values and patterns nest) and no theorem
  can be stated of them for that reason; the sets explored by `matching` are their
  only check;
- `MCService!TypeOK` as one formula of the composition: its two conjuncts are proved of
  the specifications composed there, by `ServiceTypes` and `RuleSetTypes`.

## 5. What is not modelled

- Pipeline: rebalances, stream errors and the end of the stream,
  `auto_offset_reset = latest` (a restart reads from the group's position or the
  beginning), `shutdown()` from outside, the metrics reporter, the end of the
  runtime under the tasks that go on after `run` returned, `commit_specific()` and
  `reset()` of the offset manager, which only tests call. The signal handler and
  flags of `ShutdownState` are not read by the pipeline.
- Backpressure: the latency and success metrics that `adjust_limits` reads (it may
  go in either direction), the adaptive controller, which works on a controller of
  its own that no consumer uses. Of `adjust_limits` the model takes the truncated
  arithmetic in tenths. That five minutes of waiting for memory are over is possible in
  any round (`MemoryExhausted`), since time is abstracted.
- Delivery: what a shutdown leaves in the channels and what a crash loses
  (`ConsumerPipeline` has both), the partition, error text and time in a letter,
  `send_with_error_payload()`, `BatchProcessor` and the hooks of the processor that
  nobody calls; of the metrics the error counts, batch and commit durations (which
  use the same buffer), `total_lag()` and `lag_by_topic()`.
- Parser: the limit on its memory, keywords and quantifiers inside words,
  `NodeAggregation` (it answers that it does not match), `build_branch()` of
  `tree/builder.rs`, a second copy of `new_branch()` that `build_tree()` does not
  call, and `describe()`.
- Patterns: regular expressions with groups, classes, anchors, `+`, counts or escapes, and
  with them the checks of `pattern/security.rs` for dangerous ones, of which only those for
  an empty text and for one that does not compile are left; the inside of the regex and
  glob crates (their documented meaning is used, marked external), `lowercase`, which nobody asks for.
- Rule set: a caller that is dropped while it waits for the lock or for its tasks;
  `rules_evaluated` of a result. An error of the `next_entry()` that would find the last
  directory of a walk at its end; other errors of reading are in the model (`BreakOff`).
- Aggregation: the name of the field that a function reads (an event has one number);
  a duration that chrono cannot hold, which the window takes as zero
  (`unwrap_or_default()`).
- Rules and events: tags, log sources, results and their (de)serialisation, which
  are data without a decision.
- Service: the unary gRPC calls, which answer from the same engine without a state;
  `MetricsService` and `HealthCheckService`, which nothing starts; the text of
  answers.
- The command line program, telemetry and the code generated from the `.proto`
  file: start-up, set-up of libraries and generated code.
