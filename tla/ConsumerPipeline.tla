--------------------------- MODULE ConsumerPipeline ---------------------------
(***************************************************************************)
(* RedpandaConsumer (src/consumer/consumer.rs) with the parts it drives:   *)
(* the OffsetManager, the permits of the BackpressureController and the    *)
(* in-flight count of ShutdownState.  run() spawns a consumer loop, a      *)
(* distributor when there are several workers, the workers and an offset   *)
(* committer; they share bounded channels and those three objects.         *)
(*                                                                         *)
(* A message is <<partition, offset>>.  A worker without batching is one   *)
(* whose batch is a single message: both processors do the same to it.     *)
(* Retries are inside one Process step, of which only the outcome matters  *)
(* here; so does what the dead letter queue does with a failure.           *)
(***************************************************************************)
EXTENDS Integers, Sequences, FiniteSets, Functions, OffsetManager

CONSTANTS
  NumWorkers, ChannelBuffer, BatchSize, EnableBatching,    \* ConsumerConfig
  MaxInflight, PausePct, ResumePct,
  MaxFailures,            \* MAX_FAILURES of the circuit breaker
  MaxPanics, MaxCrashes,  \* bounds on the faults explored
  UsizeMod                \* 2^width of usize

ASSUME PipelineAssumption ==
  /\ NumWorkers \in Nat \ {0} /\ BatchSize \in Nat \ {0}
  /\ ChannelBuffer \in Nat /\ ChannelBuffer >= NumWorkers  \* mpsc::channel(0) panics
  /\ EnableBatching \in BOOLEAN
  /\ MaxInflight \in Nat
  /\ PausePct \in 0..100 /\ ResumePct \in 0..(PausePct - 1)   \* validate()
  /\ MaxFailures \in Nat \ {0}
  /\ MaxPanics \in Nat /\ MaxCrashes \in Nat
  /\ UsizeMod \in Nat \ {0, 1}
  /\ LogEnd \in Nat

VARIABLES
  position, assigned_paused,              \* Kafka: next offset of each partition; paused
  loop, loop_task, is_paused,             \* consumer loop, and the flag it keeps
  main_queue, worker_queue,               \* channels
  dist, dist_task, current_worker, attempts, failures, circuit_open,  \* distributor
  pc, batch, permits,                     \* workers
  inflight_messages,                      \* ShutdownState
  run_pc, committer,                      \* run() and the offset committer
  succeeded, failed, dropped,             \* history: how messages ended
  handled, owed,                          \* history: succeeded since the start; see DrainEnds
  panics, crashes                         \* history: faults so far

kafka == <<position, assigned_paused>>
source == <<loop, loop_task, is_paused>>
breaker == <<current_worker, attempts, failures, circuit_open>>
distributor == <<dist, dist_task, breaker>>
queues == <<main_queue, worker_queue>>
workers == <<pc, batch, permits>>
offsets == <<pending, committed, group>>
run == <<run_pc, committer>>
outcomes == <<succeeded, failed, dropped, handled, owed>>
faults == <<panics, crashes>>
vars == <<kafka, source, distributor, queues, workers, inflight_messages,
          offsets, run, outcomes, faults>>

Workers == 0..(NumWorkers - 1)
Message == Partitions \X Offset
NoTask == <<>>
BatchLimit == IF EnableBatching THEN BatchSize ELSE 1
WorkerCap == ChannelBuffer \div NumWorkers

Sub(x, y) == (x - y) % UsizeMod
Add(x, y) == (x + y) % UsizeMod

\* The permits out: inflight_count of the BackpressureController, which
\* BackpressureProofs!InflightIsExact ties to the permits held.
inflight_count == SumFunction(permits)
PauseAt == (MaxInflight * PausePct) \div 100
ResumeAt == (MaxInflight * ResumePct) \div 100

Shutdown == run_pc # "running"    \* the value of the watch channel

Init ==
  /\ OffsetsInit
  /\ position = group /\ assigned_paused = FALSE
  /\ loop = "poll" /\ loop_task = NoTask /\ is_paused = FALSE
  /\ main_queue = <<>> /\ worker_queue = [w \in Workers |-> <<>>]
  /\ dist = (IF NumWorkers = 1 THEN "unused" ELSE "recv") /\ dist_task = NoTask
  /\ current_worker = 0 /\ attempts = 0
  /\ failures = [w \in Workers |-> 0] /\ circuit_open = [w \in Workers |-> FALSE]
  /\ pc = [w \in Workers |-> "idle"] /\ batch = [w \in Workers |-> <<>>]
  /\ permits = [w \in Workers |-> 0]
  /\ inflight_messages = 0
  /\ run_pc = "running" /\ committer = TRUE
  /\ succeeded = {} /\ failed = {} /\ dropped = {} /\ handled = {} /\ owed = {}
  /\ panics = 0 /\ crashes = 0

------------------------------------------------------------------------------
(* The consumer loop *)

AtLoopHead == IF Shutdown THEN "stopped" ELSE "poll"   \* while !*shutdown_rx.borrow()

\* should_pause(): the message just received is dropped with its `continue`,
\* whether or not Kafka accepts the pause.
ReceiveAndPause(p) ==
  /\ loop = "poll" /\ ~assigned_paused /\ position[p] < LogEnd
  /\ inflight_count >= PauseAt /\ ~is_paused
  /\ is_paused' = TRUE
  /\ assigned_paused' \in BOOLEAN
  /\ position' = [position EXCEPT ![p] = @ + 1]
  /\ dropped' = dropped \cup {<<p, position[p]>>}
  /\ loop' = AtLoopHead
  /\ UNCHANGED <<loop_task, distributor, queues, workers, inflight_messages, offsets, run,
                 succeeded, failed, handled, owed, faults>>

\* Otherwise should_resume(), then the message becomes a task to send.
Receive(p) ==
  /\ loop = "poll" /\ ~assigned_paused /\ position[p] < LogEnd
  /\ ~(inflight_count >= PauseAt /\ ~is_paused)
  /\ is_paused' = (is_paused /\ inflight_count > ResumeAt)
  /\ position' = [position EXCEPT ![p] = @ + 1]
  /\ loop' = "send" /\ loop_task' = <<p, position[p]>>
  /\ UNCHANGED <<assigned_paused, distributor, queues, workers, inflight_messages, offsets,
                 run, outcomes, faults>>

\* The other branch of the select: the shutdown signal.
LoopStops ==
  /\ loop = "poll" /\ Shutdown
  /\ loop' = "stopped"
  /\ UNCHANGED <<kafka, loop_task, is_paused, distributor, queues, workers, inflight_messages,
                 offsets, run, outcomes, faults>>

MainReceiverGone ==
  IF NumWorkers = 1 THEN pc[0] \in {"dead", "done"} ELSE dist = "exited"

\* task_tx.send(): waits for room, Err when the receiver is gone.
LoopSends ==
  /\ loop = "send" /\ ~MainReceiverGone /\ Len(main_queue) < ChannelBuffer
  /\ main_queue' = Append(main_queue, loop_task)
  /\ loop' = AtLoopHead /\ loop_task' = NoTask
  /\ UNCHANGED <<kafka, is_paused, distributor, worker_queue, workers, inflight_messages,
                 offsets, run, outcomes, faults>>

LoopSendFails ==
  /\ loop = "send" /\ MainReceiverGone
  /\ loop' = "stopped" /\ loop_task' = NoTask
  /\ UNCHANGED <<kafka, is_paused, distributor, queues, workers, inflight_messages, offsets,
                 run, outcomes, faults>>

\* Both senders of the main channel are gone: the loop's and run()'s own.
MainClosed == loop = "stopped" /\ run_pc = "returned"

------------------------------------------------------------------------------
(* The distributor, when there are several workers *)

Target == (current_worker + attempts) % NumWorkers

DistributorReceives ==
  /\ dist = "recv" /\ main_queue # <<>>
  /\ dist' = "send" /\ dist_task' = Head(main_queue) /\ attempts' = 0
  /\ main_queue' = Tail(main_queue)
  /\ UNCHANGED <<kafka, source, current_worker, failures, circuit_open, worker_queue, workers,
                 inflight_messages, offsets, run, outcomes, faults>>

\* 30 s after the last failure: looked at only when a task comes to this worker.
CircuitResets ==
  /\ dist = "send" /\ attempts < NumWorkers /\ circuit_open[Target]
  /\ circuit_open' = [circuit_open EXCEPT ![Target] = FALSE]
  /\ failures' = [failures EXCEPT ![Target] = 0]
  /\ UNCHANGED <<kafka, source, dist, dist_task, current_worker, attempts, queues, workers,
                 inflight_messages, offsets, run, outcomes, faults>>

DistributorSkips ==
  /\ dist = "send" /\ attempts < NumWorkers /\ circuit_open[Target]
  /\ attempts' = attempts + 1
  /\ UNCHANGED <<kafka, source, dist, dist_task, current_worker, failures, circuit_open, queues,
                 workers, inflight_messages, offsets, run, outcomes, faults>>

NextWorkerUnwrapped == current_worker + 1   \* mutant of NextWorker
NextWorker == (current_worker + 1) % NumWorkers

\* Mutant of DistributorSends: try_send(), which does not wait for room.
DistributorTrySends ==
  /\ dist = "send" /\ attempts < NumWorkers /\ ~circuit_open[Target] /\ pc[Target] # "dead"
  /\ worker_queue' = IF Len(worker_queue[Target]) < WorkerCap
                     THEN [worker_queue EXCEPT ![Target] = Append(@, dist_task)]
                     ELSE worker_queue
  /\ failures' = [failures EXCEPT ![Target] = 0]
  /\ dist' = "recv" /\ dist_task' = NoTask /\ current_worker' = NextWorker /\ attempts' = 0
  /\ UNCHANGED <<kafka, source, circuit_open, main_queue, workers, inflight_messages, offsets,
                 run, outcomes, faults>>

DistributorSends ==
  /\ dist = "send" /\ attempts < NumWorkers /\ ~circuit_open[Target]
  /\ pc[Target] # "dead" /\ Len(worker_queue[Target]) < WorkerCap
  /\ worker_queue' = [worker_queue EXCEPT ![Target] = Append(@, dist_task)]
  /\ failures' = [failures EXCEPT ![Target] = 0]
  /\ dist' = "recv" /\ dist_task' = NoTask /\ current_worker' = NextWorker /\ attempts' = 0
  /\ UNCHANGED <<kafka, source, circuit_open, main_queue, workers, inflight_messages, offsets,
                 run, outcomes, faults>>

\* The worker's receiver is gone: the task comes back in the error and goes to
\* the next worker.
DistributorSendFails ==
  /\ dist = "send" /\ attempts < NumWorkers /\ ~circuit_open[Target] /\ pc[Target] = "dead"
  /\ failures' = [failures EXCEPT ![Target] = @ + 1]
  /\ circuit_open' = [circuit_open EXCEPT ![Target] = failures[Target] + 1 >= MaxFailures]
  /\ attempts' = attempts + 1
  /\ UNCHANGED <<kafka, source, dist, dist_task, current_worker, queues, workers,
                 inflight_messages, offsets, run, outcomes, faults>>

\* No worker took the task: it is dropped, and removed from the in-flight count
\* to which no one had added it.  With every circuit open the distributor exits,
\* and the main channel goes with it.
DistributorDrops ==
  LET all_failed == \A w \in Workers : circuit_open[w] IN
  /\ dist = "send" /\ attempts = NumWorkers
  /\ inflight_messages' = Sub(inflight_messages, 1)
  /\ dist' = (IF all_failed THEN "exited" ELSE "recv")
  /\ main_queue' = (IF all_failed THEN <<>> ELSE main_queue)
  /\ current_worker' = (IF all_failed THEN current_worker ELSE NextWorker)
  /\ dist_task' = NoTask /\ attempts' = 0
  /\ UNCHANGED <<kafka, source, failures, circuit_open, worker_queue, workers, offsets, run,
                 outcomes, faults>>

DistributorFinishes ==
  /\ dist = "recv" /\ main_queue = <<>> /\ MainClosed
  /\ dist' = "exited"
  /\ UNCHANGED <<kafka, source, dist_task, breaker, queues, workers, inflight_messages, offsets,
                 run, outcomes, faults>>

------------------------------------------------------------------------------
(* The workers: run_single_processor() and run_batch_processor() *)

Inbox(w) == IF NumWorkers = 1 THEN main_queue ELSE worker_queue[w]
InboxClosed == IF NumWorkers = 1 THEN MainClosed ELSE dist = "exited"

TakeFromInbox(w) ==
  IF NumWorkers = 1
  THEN main_queue' = Tail(main_queue) /\ UNCHANGED worker_queue
  ELSE worker_queue' = [worker_queue EXCEPT ![w] = Tail(@)] /\ UNCHANGED main_queue

\* recv(): a full batch is processed at once, and processing begins with
\* add_inflight_message() for each of its messages.
WorkerReceives(w) ==
  LET full == Len(batch[w]) + 1 >= BatchLimit IN
  /\ pc[w] = "idle" /\ Inbox(w) # <<>>
  /\ TakeFromInbox(w)
  /\ batch' = [batch EXCEPT ![w] = Append(@, Head(Inbox(w)))]
  /\ pc' = [pc EXCEPT ![w] = IF full THEN "acquire" ELSE "idle"]
  /\ inflight_messages' = IF full THEN Add(inflight_messages, Len(batch[w]) + 1)
                                  ELSE inflight_messages
  /\ UNCHANGED <<kafka, source, distributor, permits, offsets, run, outcomes, faults>>

\* The batch timer, or the end of the channel, finds an unfinished batch.
StartBatch(w) ==
  /\ pc[w] = "idle" /\ batch[w] # <<>>
  /\ pc' = [pc EXCEPT ![w] = "acquire"]
  /\ inflight_messages' = Add(inflight_messages, Len(batch[w]))
  /\ UNCHANGED <<kafka, source, distributor, queues, batch, permits, offsets, run, outcomes, faults>>

WorkerFinishes(w) ==
  /\ pc[w] = "idle" /\ batch[w] = <<>> /\ Inbox(w) = <<>> /\ InboxClosed
  /\ pc' = [pc EXCEPT ![w] = "done"]
  /\ UNCHANGED <<kafka, source, distributor, queues, batch, permits, inflight_messages, offsets,
                 run, outcomes, faults>>

\* backpressure.acquire(), once for each message of the batch.
Acquire(w) ==
  /\ pc[w] = "acquire" /\ inflight_count < MaxInflight
  /\ permits' = [permits EXCEPT ![w] = @ + 1]
  /\ pc' = [pc EXCEPT ![w] = IF permits[w] + 1 = Len(batch[w]) THEN "process" ELSE "acquire"]
  /\ UNCHANGED <<kafka, source, distributor, queues, batch, inflight_messages, offsets, run,
                 outcomes, faults>>

WaitForPermit(w) == FALSE   \* mutant of AcquireTimesOut: acquire() waits for ever

\* No permit for 30 s.  The messages without one leave the in-flight count; with
\* no permit at all the batch is given up, otherwise all of it is processed.
AcquireTimesOut(w) ==
  /\ pc[w] = "acquire" /\ inflight_count >= MaxInflight
  /\ inflight_messages' = Sub(inflight_messages, Len(batch[w]) - permits[w])
  /\ IF permits[w] = 0
     THEN /\ dropped' = dropped \cup Range(batch[w])
          /\ batch' = [batch EXCEPT ![w] = <<>>]
          /\ pc' = [pc EXCEPT ![w] = "idle"]
     ELSE /\ pc' = [pc EXCEPT ![w] = "process"]
          /\ UNCHANGED <<batch, dropped>>
  /\ UNCHANGED <<kafka, source, distributor, queues, permits, offsets, run,
                 succeeded, failed, handled, owed, faults>>

Current(w) == Head(batch[w])

\* process_message_with_retry(): Ok, or Err after the retries or at once when
\* the error is not retryable.
ProcessSucceeds(w) ==
  /\ pc[w] = "process"
  /\ succeeded' = succeeded \cup {Current(w)} /\ handled' = handled \cup {Current(w)}
  /\ pc' = [pc EXCEPT ![w] = "success"]
  /\ UNCHANGED <<kafka, source, distributor, queues, batch, permits, inflight_messages, offsets,
                 run, failed, dropped, owed, faults>>

ProcessFails(w) ==
  /\ pc[w] = "process"
  /\ failed' = failed \cup {Current(w)}
  /\ pc' = [pc EXCEPT ![w] = "failure"]
  /\ UNCHANGED <<kafka, source, distributor, queues, batch, permits, inflight_messages, offsets,
                 run, succeeded, dropped, handled, owed, faults>>

\* on_success(), then mark_offset().
Success(w) ==
  /\ pc[w] = "success"
  /\ MarkOffset(Current(w)[1], Current(w)[2])
  /\ pc' = [pc EXCEPT ![w] = "finish"]
  /\ UNCHANGED <<kafka, source, distributor, queues, batch, permits, inflight_messages, run,
                 outcomes, faults>>

\* Mutant of Failure: the offset is marked before the result is looked at.
FailureMarked(w) ==
  /\ pc[w] = "failure"
  /\ MarkOffset(Current(w)[1], Current(w)[2])
  /\ pc' = [pc EXCEPT ![w] = "finish"]
  /\ UNCHANGED <<kafka, source, distributor, queues, batch, permits, inflight_messages, run,
                 outcomes, faults>>

\* on_failure(), and perhaps the dead letter queue; the offset is not marked.
Failure(w) ==
  /\ pc[w] = "failure"
  /\ pc' = [pc EXCEPT ![w] = "finish"]
  /\ UNCHANGED <<kafka, source, distributor, queues, batch, permits, inflight_messages, offsets,
                 run, outcomes, faults>>

\* remove_inflight_message(), and the next message of the batch; the permits are
\* released together after the last.
FinishMessage(w) ==
  LET last == Len(batch[w]) = 1 IN
  /\ pc[w] = "finish"
  /\ inflight_messages' = Sub(inflight_messages, 1)
  /\ batch' = [batch EXCEPT ![w] = Tail(@)]
  /\ permits' = [permits EXCEPT ![w] = IF last THEN 0 ELSE @]
  /\ pc' = [pc EXCEPT ![w] = IF last THEN "idle" ELSE "process"]
  /\ UNCHANGED <<kafka, source, distributor, queues, offsets, run, outcomes, faults>>

\* The processor panics in process(), on_success() or on_failure(): the task
\* ends, its permits are dropped, the in-flight count is not corrected, and its
\* batch and its channel are gone.
WorkerPanics(w) ==
  /\ panics < MaxPanics /\ pc[w] \in {"process", "success", "failure"}
  /\ panics' = panics + 1
  /\ pc' = [pc EXCEPT ![w] = "dead"]
  /\ batch' = [batch EXCEPT ![w] = <<>>] /\ permits' = [permits EXCEPT ![w] = 0]
  /\ worker_queue' = [worker_queue EXCEPT ![w] = <<>>]
  /\ main_queue' = IF NumWorkers = 1 THEN <<>> ELSE main_queue
  /\ UNCHANGED <<kafka, source, distributor, inflight_messages, offsets, run, outcomes, crashes>>

------------------------------------------------------------------------------
(* The offset committer, the end of run(), and a restart *)

CommitTick ==
  /\ committer /\ CommitOffsets
  /\ UNCHANGED <<kafka, source, distributor, queues, workers, inflight_messages, run, outcomes,
                 faults>>

CommitterStops ==
  /\ committer /\ Shutdown
  /\ committer' = FALSE
  /\ UNCHANGED <<kafka, source, distributor, queues, workers, inflight_messages, offsets, run_pc,
                 outcomes, faults>>

CtrlC ==
  /\ run_pc = "running"
  /\ run_pc' = "draining"
  /\ UNCHANGED <<kafka, source, distributor, queues, workers, inflight_messages, offsets,
                 committer, outcomes, faults>>

\* Mutant of DrainEnds: no look at the in-flight count.
DrainSkipped ==
  /\ run_pc = "draining"
  /\ run_pc' = "committing"
  /\ owed' = handled
  /\ UNCHANGED <<kafka, source, distributor, queues, workers, inflight_messages, offsets,
                 committer, succeeded, failed, dropped, handled, faults>>

\* No message in flight: what succeeded so far is owed by the final commit.
DrainEnds ==
  /\ run_pc = "draining" /\ inflight_messages = 0
  /\ run_pc' = "committing"
  /\ owed' = handled
  /\ UNCHANGED <<kafka, source, distributor, queues, workers, inflight_messages, offsets,
                 committer, succeeded, failed, dropped, handled, faults>>

DrainDeadline ==
  /\ run_pc = "draining" /\ inflight_messages # 0
  /\ run_pc' = "committing"
  /\ UNCHANGED <<kafka, source, distributor, queues, workers, inflight_messages, offsets,
                 committer, outcomes, faults>>

FinalCommit ==
  /\ run_pc = "committing"
  /\ \/ CommitSucceeds /\ UNCHANGED owed
     \/ CommitFails /\ owed' = {}
  /\ run_pc' = "joining"
  /\ UNCHANGED <<kafka, source, distributor, queues, workers, inflight_messages, committer,
                 succeeded, failed, dropped, handled, faults>>

\* Every task has ended or had its 30 s; a JoinHandle that is dropped detaches
\* its task, which goes on.
Return ==
  /\ run_pc = "joining"
  /\ run_pc' = "returned"
  /\ UNCHANGED <<kafka, source, distributor, queues, workers, inflight_messages, offsets,
                 committer, outcomes, faults>>

\* The process ends and is started again; a partition without a committed offset
\* is read from its beginning (auto_offset_reset "earliest").
Crash ==
  /\ crashes < MaxCrashes
  /\ crashes' = crashes + 1
  /\ OffsetsLost
  /\ position' = group /\ assigned_paused' = FALSE
  /\ loop' = "poll" /\ loop_task' = NoTask /\ is_paused' = FALSE
  /\ main_queue' = <<>> /\ worker_queue' = [w \in Workers |-> <<>>]
  /\ dist' = (IF NumWorkers = 1 THEN "unused" ELSE "recv") /\ dist_task' = NoTask
  /\ current_worker' = 0 /\ attempts' = 0
  /\ failures' = [w \in Workers |-> 0] /\ circuit_open' = [w \in Workers |-> FALSE]
  /\ pc' = [w \in Workers |-> "idle"] /\ batch' = [w \in Workers |-> <<>>]
  /\ permits' = [w \in Workers |-> 0]
  /\ inflight_messages' = 0
  /\ run_pc' = "running" /\ committer' = TRUE
  /\ handled' = {} /\ owed' = {}
  /\ UNCHANGED <<succeeded, failed, dropped, panics>>

LoopStep == \/ \E p \in Partitions : ReceiveAndPause(p) \/ Receive(p)
            \/ LoopStops \/ LoopSends \/ LoopSendFails

DistributorStep == \/ DistributorReceives \/ CircuitResets \/ DistributorSkips
                   \/ DistributorSends \/ DistributorSendFails \/ DistributorDrops
                   \/ DistributorFinishes

WorkerStep(w) == \/ WorkerReceives(w) \/ StartBatch(w) \/ WorkerFinishes(w)
                 \/ Acquire(w) \/ AcquireTimesOut(w)
                 \/ ProcessSucceeds(w) \/ ProcessFails(w)
                 \/ Success(w) \/ Failure(w) \/ FinishMessage(w)

RunStep == \/ CommitTick \/ CommitterStops
           \/ CtrlC \/ DrainEnds \/ DrainDeadline \/ FinalCommit \/ Return

Next == \/ LoopStep \/ DistributorStep \/ RunStep \/ Crash
        \/ \E w \in Workers : WorkerStep(w) \/ WorkerPanics(w)

Spec == Init /\ [][Next]_vars

\* The messages on their way through the consumer.
InTransit ==
  {t \in {loop_task, dist_task} : t # NoTask} \cup Range(main_queue)
  \cup UNION {Range(worker_queue[w]) \cup Range(batch[w]) : w \in Workers}

\* The tasks run as long as they can: the scheduler is fair to each, timers fire
\* and a processor returns.
TaskFairness ==
  /\ WF_vars(LoopSends \/ LoopSendFails)
  /\ WF_vars(DistributorStep)
  /\ \A w \in Workers : WF_vars(WorkerStep(w))

FairSpec == Spec /\ TaskFairness

\* The same tasks without the committer and crashes, neither of which touches what a
\* task waits for, and with a run() that ends only when nothing is on its way: so the
\* instances stay small.
SteadyNext ==
  \/ LoopStep \/ DistributorStep \/ CtrlC
  \/ InTransit = {} /\ (DrainEnds \/ DrainDeadline \/ FinalCommit \/ Return)
  \/ \E w \in Workers : WorkerStep(w) \/ WorkerPanics(w)
SteadySpec == Init /\ [][SteadyNext]_vars /\ TaskFairness

\* Kafka moreover delivers what it has, unless the partitions are paused.
DeliverySpec ==
  FairSpec /\ WF_vars(\E p \in Partitions : ReceiveAndPause(p) \/ Receive(p))

------------------------------------------------------------------------------
(* Properties *)

Task == Message \cup {NoTask}

SourceTypeOK ==
  /\ position \in [Partitions -> 0..LogEnd] /\ assigned_paused \in BOOLEAN
  /\ loop \in {"poll", "send", "stopped"} /\ loop_task \in Task /\ is_paused \in BOOLEAN
  /\ loop = "send" => loop_task \in Message
QueuesTypeOK ==
  main_queue \in Seq(Message) /\ worker_queue \in [Workers -> Seq(Message)]
DistributorTypeOK ==
  /\ dist \in {"unused", "recv", "send", "exited"} /\ dist_task \in Task
  /\ dist = "send" => dist_task \in Message
  /\ current_worker \in Workers /\ attempts \in 0..NumWorkers
  /\ failures \in [Workers -> Nat] /\ circuit_open \in [Workers -> BOOLEAN]
Working == {"acquire", "process", "success", "failure", "finish"}
WorkersTypeOK ==
  /\ pc \in [Workers -> Working \cup {"idle", "done", "dead"}]
  /\ batch \in [Workers -> Seq(Message)] /\ permits \in [Workers -> Nat]
  /\ \A w \in Workers : pc[w] \in Working => batch[w] # <<>>
RunTypeOK ==
  /\ run_pc \in {"running", "draining", "committing", "joining", "returned"}
  /\ committer \in BOOLEAN
  /\ inflight_messages \in 0..(UsizeMod - 1)
OutcomesTypeOK ==
  /\ succeeded \subseteq Message /\ failed \subseteq Message /\ dropped \subseteq Message
  /\ handled \subseteq Message /\ owed \subseteq Message
  /\ panics \in Nat /\ crashes \in Nat

\* The types of the variables, and where a task or a message must be at hand.
TypeOK ==
  /\ OffsetsTypeOK /\ SourceTypeOK /\ QueuesTypeOK /\ DistributorTypeOK
  /\ WorkersTypeOK /\ RunTypeOK /\ OutcomesTypeOK

Delivered == {m \in Message : m[2] < position[m[1]]}

Settled == succeeded \cup failed \cup dropped

\* The position of the group always stands just behind a message the processor
\* accepted: a failed, dropped or unprocessed message is never the one that is
\* committed, whatever workers, commit errors and restarts do.
CommittedWasProcessed ==
  \A p \in Partitions : group[p] > 0 => <<p, group[p] - 1>> \in succeeded

\* "Manual offset management for reliability" (README): the position passes no
\* message that is still on its way, which a restart would then skip.
NothingSkipped == \A m \in Message : m[2] < group[m[1]] => m \in Settled

\* With one worker: the position only moves forward, over settled messages.
IOC == INSTANCE InOrderCommit WITH position <- group, settled <- Settled
CommitsInOrder == IOC!Spec

\* "Graceful shutdown handling": a message that had succeeded when the drain saw
\* nothing in flight is covered once the final commit has succeeded, though the
\* marks, the count and the commit are separate steps of several tasks.
FinalCommitCovers ==
  run_pc \in {"joining", "returned"} => \A m \in owed : m[2] < group[m[1]]

\* While a worker lives, a panic costs at most its own batch and channel: the
\* distributor takes a task back from a dead worker and gives it to another, and
\* without a panic no message goes missing between the channels.
LossIsBounded ==
  (\E w \in Workers : pc[w] # "dead") =>
    Cardinality(Delivered \ (InTransit \cup Settled)) <= panics * (WorkerCap + BatchLimit)

\* No message is stuck, unless a worker panics: once delivered it is processed or given
\* up, though the batches of the workers compete for permits that each holds while it
\* waits, and though the consumer is being stopped.
EveryDeliveredSettles == \A m \in Message : (m \in Delivered) ~> (m \in Settled \/ panics > 0)

\* "Resume when buffer drops to this %": while the consumer runs, a pause does
\* not keep it from what is left of the log.
ConsumptionGoesOn ==
  \A p \in Partitions : (position[p] < LogEnd) ~> (position[p] = LogEnd \/ Shutdown)
==============================================================================
