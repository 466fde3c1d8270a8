------------------------- MODULE ConsumerPipelineProofs -------------------------
(***************************************************************************)
(* What TLAPS proves of ConsumerPipeline, for any partitions and log, any  *)
(* number of workers, any buffer, batch and permit counts, and any number  *)
(* of panics and restarts: its types, and that what is committed was       *)
(* processed.  With one worker it implements InOrderCommit, and with       *)
(* batches of one its final commit covers what was delivered.  What is     *)
(* lost without a crash is bounded by the panics.                          *)
(***************************************************************************)
EXTENDS ConsumerPipeline, SequenceTheorems, FiniteSetTheorems, TLAPS

LEMMA CountInRange ==
  ASSUME NEW x \in Int, NEW y \in Int
  PROVE  Add(x, y) \in 0..(UsizeMod - 1) /\ Sub(x, y) \in 0..(UsizeMod - 1)
<1>1. UsizeMod \in Nat \ {0}
  BY PipelineAssumption
<1>2. \A z \in Int : z % UsizeMod \in 0..(UsizeMod - 1)
  BY <1>1
<1>3. x + y \in Int /\ x - y \in Int
  OBVIOUS
<1> QED BY <1>2, <1>3 DEF Add, Sub

(* Which variables the steps of each task leave alone. *)

LEMMA LoopFrame ==
  LoopStep => UNCHANGED <<distributor, worker_queue, workers, inflight_messages, offsets, run,
                          succeeded, failed, handled, owed, faults>>
<1> SUFFICES ASSUME LoopStep
             PROVE  UNCHANGED <<distributor, worker_queue, workers, inflight_messages, offsets,
                                run, succeeded, failed, handled, owed, faults>>
  OBVIOUS
<1> QED BY DEF LoopStep, ReceiveAndPause, Receive, LoopStops, LoopSends, LoopSendFails,
          outcomes, queues

LEMMA DistributorFrame ==
  DistributorStep => UNCHANGED <<kafka, source, workers, offsets, run, outcomes, faults>>
BY DEF DistributorStep, DistributorReceives, CircuitResets, DistributorSkips, DistributorSends,
   DistributorSendFails, DistributorDrops, DistributorFinishes

LEMMA WorkerFrame ==
  ASSUME NEW w \in Workers, WorkerStep(w)
  PROVE  UNCHANGED <<kafka, source, distributor, run, owed, faults, committed, group>>
BY DEF WorkerStep, WorkerReceives, StartBatch, WorkerFinishes, Acquire, AcquireTimesOut,
   ProcessSucceeds, ProcessFails, Success, Failure, FinishMessage, MarkOffset, offsets, outcomes

LEMMA RunFrame ==
  RunStep => UNCHANGED <<kafka, source, distributor, queues, workers, inflight_messages,
                         succeeded, failed, dropped, handled, faults>>
BY DEF RunStep, CommitTick, CommitterStops, CtrlC, DrainEnds, DrainDeadline, FinalCommit, Return,
   outcomes
(* Each part of the type invariant, over the steps that touch its variables. *)

LEMMA SourceTypes == TypeOK /\ [Next]_vars => SourceTypeOK'
<1> SUFFICES ASSUME TypeOK, [Next]_vars PROVE SourceTypeOK'
  OBVIOUS
<1> USE DEF SourceTypeOK, Task, kafka, source
<1>1. ASSUME NEW p \in Partitions, position[p] < LogEnd
      PROVE  <<p, position[p]>> \in Message /\ position[p] + 1 \in 0..LogEnd
  BY <1>1, PipelineAssumption DEF TypeOK, Message, Offset
<1>2. CASE LoopStep
  <2>1. ASSUME NEW p \in Partitions, ReceiveAndPause(p) PROVE SourceTypeOK'
    BY <1>1, <2>1 DEF TypeOK, ReceiveAndPause, AtLoopHead
  <2>2. ASSUME NEW p \in Partitions, Receive(p) PROVE SourceTypeOK'
    <3>1. is_paused' \in BOOLEAN
      BY <2>2 DEF Receive
    <3> QED BY <1>1, <2>2, <3>1 DEF TypeOK, Receive
  <2>3. CASE LoopStops \/ LoopSends \/ LoopSendFails
    BY <2>3 DEF TypeOK, LoopStops, LoopSends, LoopSendFails, AtLoopHead
  <2> QED BY <1>2, <2>1, <2>2, <2>3 DEF LoopStep
<1>3. CASE Crash
  BY <1>3, PipelineAssumption DEF Crash, OffsetsLost, TypeOK, OffsetsTypeOK
<1>4. CASE UNCHANGED <<kafka, source>>
  BY <1>4 DEF TypeOK
<1>5. ASSUME NEW w \in Workers, WorkerPanics(w) PROVE UNCHANGED <<kafka, source>>
  BY <1>5 DEF WorkerPanics
<1> QED BY <1>2, <1>3, <1>4, <1>5, DistributorFrame, WorkerFrame, RunFrame DEF Next, vars

LEMMA TargetInRange == DistributorTypeOK => Target \in Workers /\ NextWorker \in Workers
<1> SUFFICES ASSUME DistributorTypeOK PROVE Target \in Workers /\ NextWorker \in Workers
  OBVIOUS
<1>1. NumWorkers \in Nat \ {0}
  BY PipelineAssumption
<1>2. \A n \in Nat : n % NumWorkers \in 0..(NumWorkers - 1)
  BY <1>1
<1>3. current_worker + attempts \in Nat /\ current_worker + 1 \in Nat
  BY <1>1 DEF DistributorTypeOK, Workers
<1> QED BY <1>2, <1>3 DEF Target, NextWorker, Workers

LEMMA QueuesTypes == TypeOK /\ [Next]_vars => QueuesTypeOK'
<1> SUFFICES ASSUME TypeOK, [Next]_vars PROVE QueuesTypeOK'
  OBVIOUS
<1> USE DEF QueuesTypeOK, queues
<1>1. main_queue \in Seq(Message) /\ worker_queue \in [Workers -> Seq(Message)]
  BY DEF TypeOK
<1>2. CASE LoopStep
  <2>1. CASE LoopSends
    <3>1. loop_task \in Message
      BY <2>1 DEF TypeOK, SourceTypeOK, LoopSends
    <3> QED BY <1>1, <2>1, <3>1 DEF LoopSends
  <2>2. CASE UNCHANGED queues
    BY <1>1, <2>2
  <2> QED BY <1>2, <2>1, <2>2 DEF LoopStep, ReceiveAndPause, Receive, LoopStops, LoopSendFails
<1>3. CASE DistributorStep
  <2>1. CASE DistributorReceives
    BY <1>1, <2>1 DEF DistributorReceives
  <2>2. CASE DistributorSends
    <3>1. dist_task \in Message
      BY <2>2 DEF TypeOK, DistributorTypeOK, DistributorSends
    <3>2. Target \in Workers
      BY TargetInRange DEF TypeOK
    <3>3. Append(worker_queue[Target], dist_task) \in Seq(Message)
      BY <1>1, <3>1, <3>2
    <3>4. worker_queue' = [worker_queue EXCEPT ![Target] = Append(worker_queue[Target], dist_task)]
      BY <1>1, <2>2 DEF DistributorSends
    <3>5. worker_queue' \in [Workers -> Seq(Message)]
      BY <1>1, <3>2, <3>3, <3>4
    <3>6. main_queue' = main_queue
      BY <2>2 DEF DistributorSends
    <3> QED BY <1>1, <3>5, <3>6
  <2>3. CASE DistributorDrops
    BY <1>1, <2>3 DEF DistributorDrops
  <2>4. CASE UNCHANGED queues
    BY <1>1, <2>4
  <2> QED BY <1>3, <2>1, <2>2, <2>3, <2>4 DEF DistributorStep, CircuitResets, DistributorSkips,
          DistributorSendFails, DistributorFinishes
<1>4. ASSUME NEW w \in Workers, WorkerStep(w) PROVE QueuesTypeOK'
  <2>1. CASE WorkerReceives(w)
    <3>1. Inbox(w) # <<>> /\ TakeFromInbox(w)
      BY <2>1 DEF WorkerReceives
    <3>2. CASE NumWorkers = 1
      BY <1>1, <3>1, <3>2, SMTT(60) DEF TakeFromInbox, Inbox
    <3>3. CASE NumWorkers # 1
      <4>1. Tail(worker_queue[w]) \in Seq(Message)
        BY <1>1, <3>1, <3>3 DEF Inbox
      <4> QED BY <1>1, <3>1, <3>3, <4>1 DEF TakeFromInbox
    <3> QED BY <3>2, <3>3
  <2>2. CASE UNCHANGED queues
    BY <1>1, <2>2
  <2> QED BY <1>4, <2>1, <2>2 DEF WorkerStep, StartBatch, WorkerFinishes, Acquire,
          AcquireTimesOut, ProcessSucceeds, ProcessFails, Success, Failure, FinishMessage
<1>5. ASSUME NEW w \in Workers, WorkerPanics(w) PROVE QueuesTypeOK'
  BY <1>1, <1>5 DEF WorkerPanics
<1>6. CASE Crash
  BY <1>1, <1>6 DEF Crash
<1>7. CASE UNCHANGED queues
  BY <1>1, <1>7
<1> QED BY <1>2, <1>3, <1>4, <1>5, <1>6, <1>7, RunFrame DEF Next, vars

LEMMA DistributorTypes == TypeOK /\ [Next]_vars => DistributorTypeOK'
<1> SUFFICES ASSUME TypeOK, [Next]_vars PROVE DistributorTypeOK'
  OBVIOUS
<1>1. DistributorTypeOK /\ Target \in Workers /\ NextWorker \in Workers
  BY TargetInRange DEF TypeOK
<1> USE DEF DistributorTypeOK, distributor, breaker, Task
<1>2. CASE DistributorStep
  <2>1. CASE DistributorReceives
    <3>1. Head(main_queue) \in Message
      BY <2>1 DEF DistributorReceives, TypeOK, QueuesTypeOK
    <3> QED BY <1>1, <2>1, <3>1, PipelineAssumption DEF DistributorReceives
  <2>2. CASE CircuitResets
    BY <1>1, <2>2 DEF CircuitResets
  <2>3. CASE DistributorSkips
    BY <1>1, <2>3, PipelineAssumption DEF DistributorSkips
  <2>4. CASE DistributorSends
    BY <1>1, <2>4, PipelineAssumption DEF DistributorSends
  <2>5. CASE DistributorSendFails
    <3>1. failures' \in [Workers -> Nat] /\ circuit_open' \in [Workers -> BOOLEAN]
      BY <1>1, <2>5 DEF DistributorSendFails
    <3> QED BY <1>1, <2>5, <3>1, PipelineAssumption DEF DistributorSendFails
  <2>6. CASE DistributorDrops
    BY <1>1, <2>6, PipelineAssumption DEF DistributorDrops
  <2>7. CASE DistributorFinishes
    BY <1>1, <2>7 DEF DistributorFinishes
  <2> QED BY <1>2, <2>1, <2>2, <2>3, <2>4, <2>5, <2>6, <2>7 DEF DistributorStep
<1>3. CASE Crash
  <2>1. 0 \in Workers /\ 0 \in 0..NumWorkers
    BY PipelineAssumption DEF Workers
  <2> QED BY <1>3, <2>1 DEF Crash
<1>4. CASE UNCHANGED distributor
  BY <1>1, <1>4
<1>5. ASSUME NEW w \in Workers, WorkerPanics(w) PROVE UNCHANGED distributor
  BY <1>5 DEF WorkerPanics
<1> QED BY <1>2, <1>3, <1>4, <1>5, LoopFrame, WorkerFrame, RunFrame DEF Next, vars

LEMMA InboxTypes ==
  ASSUME TypeOK, NEW w \in Workers, Inbox(w) # <<>>
  PROVE  Head(Inbox(w)) \in Message
<1>1. Inbox(w) \in Seq(Message)
  BY DEF Inbox, TypeOK, QueuesTypeOK
<1> QED BY <1>1

LEMMA WorkersTypes == TypeOK /\ [Next]_vars => WorkersTypeOK'
<1> SUFFICES ASSUME TypeOK, [Next]_vars PROVE WorkersTypeOK'
  OBVIOUS
<1>1. WorkersTypeOK
  BY DEF TypeOK
<1> USE DEF WorkersTypeOK, Working, workers
<1>2. ASSUME NEW w \in Workers, WorkerStep(w) PROVE WorkersTypeOK'
  <2>1. CASE WorkerReceives(w)
    <3>1. Append(batch[w], Head(Inbox(w))) \in Seq(Message) \ {<<>>}
      BY <1>1, <2>1, InboxTypes DEF WorkerReceives
    <3>2. batch' = [batch EXCEPT ![w] = Append(batch[w], Head(Inbox(w)))]
      BY <2>1 DEF WorkerReceives
    <3>3. \E l \in {"acquire", "idle"} : pc' = [pc EXCEPT ![w] = l]
      BY <2>1 DEF WorkerReceives
    <3>4. permits' = permits
      BY <2>1 DEF WorkerReceives
    <3> QED BY <1>1, <3>1, <3>2, <3>3, <3>4
  <2>2. CASE StartBatch(w)
    BY <1>1, <2>2 DEF StartBatch
  <2>3. CASE WorkerFinishes(w)
    BY <1>1, <2>3 DEF WorkerFinishes
  <2>4. CASE Acquire(w)
    <3>1. \E l \in {"process", "acquire"} : pc' = [pc EXCEPT ![w] = l]
      BY <2>4 DEF Acquire
    <3>2. permits' = [permits EXCEPT ![w] = permits[w] + 1] /\ batch' = batch /\ pc[w] = "acquire"
      BY <2>4 DEF Acquire
    <3> QED BY <1>1, <3>1, <3>2
  <2>5. CASE AcquireTimesOut(w)
    <3>1. <<>> \in Seq(Message)
      OBVIOUS
    <3>2. CASE permits[w] = 0
      BY <1>1, <2>5, <3>1, <3>2 DEF AcquireTimesOut
    <3>3. CASE permits[w] # 0
      BY <1>1, <2>5, <3>3 DEF AcquireTimesOut
    <3> QED BY <3>2, <3>3
  <2>6. CASE ProcessSucceeds(w)
    BY <1>1, <2>6 DEF ProcessSucceeds
  <2>7. CASE ProcessFails(w)
    BY <1>1, <2>7 DEF ProcessFails
  <2>8. CASE Success(w)
    BY <1>1, <2>8 DEF Success
  <2>9. CASE Failure(w)
    BY <1>1, <2>9 DEF Failure
  <2>10. CASE FinishMessage(w)
    <3>1. batch[w] \in Seq(Message) /\ batch[w] # <<>>
      BY <1>1, <2>10 DEF FinishMessage
    <3>2. Tail(batch[w]) \in Seq(Message) /\ (Len(batch[w]) # 1 => Tail(batch[w]) # <<>>)
      <4>1. Len(batch[w]) \in Nat \ {0} /\ Len(Tail(batch[w])) = Len(batch[w]) - 1
        BY <3>1, LenProperties, HeadTailProperties
      <4>2. Tail(batch[w]) \in Seq(Message)
        BY <3>1
      <4>3. Len(<<>>) = 0
        OBVIOUS
      <4>4. ASSUME Tail(batch[w]) = <<>> PROVE Len(batch[w]) = 1
        <5>1. Len(Tail(batch[w])) = Len(<<>>)
          BY <4>4, Zenon
        <5> QED BY <4>1, <4>3, <5>1
      <4> QED BY <4>2, <4>4
    <3>3. /\ batch' = [batch EXCEPT ![w] = Tail(batch[w])]
          /\ permits' \in [Workers -> Nat]
      BY <1>1, <2>10 DEF FinishMessage
    <3>4. \/ pc' = [pc EXCEPT ![w] = "idle"]
          \/ pc' = [pc EXCEPT ![w] = "process"] /\ Len(batch[w]) # 1
      BY <2>10 DEF FinishMessage
    <3> QED BY <1>1, <3>2, <3>3, <3>4
  <2> QED BY <1>2, <2>1, <2>2, <2>3, <2>4, <2>5, <2>6, <2>7, <2>8, <2>9, <2>10 DEF WorkerStep
<1>3. ASSUME NEW w \in Workers, WorkerPanics(w) PROVE WorkersTypeOK'
  <2>1. <<>> \in Seq(Message)
    OBVIOUS
  <2> QED BY <1>1, <1>3, <2>1 DEF WorkerPanics
<1>4. CASE Crash
  BY <1>1, <1>4 DEF Crash
<1>5. CASE UNCHANGED workers
  BY <1>1, <1>5
<1> QED BY <1>2, <1>3, <1>4, <1>5, LoopFrame, DistributorFrame, RunFrame DEF Next, vars

LEMMA RunTypes == TypeOK /\ [Next]_vars => RunTypeOK'
<1> SUFFICES ASSUME TypeOK, [Next]_vars PROVE RunTypeOK'
  OBVIOUS
<1>1. RunTypeOK /\ inflight_messages \in Int /\ 1 \in Int
  BY DEF TypeOK, RunTypeOK
<1> USE DEF RunTypeOK, run
<1>2. CASE DistributorStep
  <2>1. CASE DistributorDrops
    BY <1>1, <2>1, CountInRange DEF DistributorDrops
  <2>2. CASE UNCHANGED inflight_messages
    BY <1>1, <1>2, <2>2, DistributorFrame
  <2> QED BY <1>2, <2>1, <2>2 DEF DistributorStep, DistributorReceives, CircuitResets,
          DistributorSkips, DistributorSends, DistributorSendFails, DistributorFinishes
<1>3. ASSUME NEW w \in Workers, WorkerStep(w) PROVE RunTypeOK'
  <2>1. Len(batch[w]) \in Int /\ Len(batch[w]) + 1 \in Int /\ permits[w] \in Int
    BY DEF TypeOK, WorkersTypeOK
  <2>2. /\ Add(inflight_messages, Len(batch[w]) + 1) \in 0..(UsizeMod - 1)
        /\ Add(inflight_messages, Len(batch[w])) \in 0..(UsizeMod - 1)
        /\ Sub(inflight_messages, Len(batch[w]) - permits[w]) \in 0..(UsizeMod - 1)
        /\ Sub(inflight_messages, 1) \in 0..(UsizeMod - 1)
    <3>1. \A y \in Int : /\ Add(inflight_messages, y) \in 0..(UsizeMod - 1)
                         /\ Sub(inflight_messages, y) \in 0..(UsizeMod - 1)
      BY <1>1, CountInRange
    <3>2. Len(batch[w]) - permits[w] \in Int /\ 1 \in Int
      BY <2>1
    <3> QED BY <2>1, <3>1, <3>2
  <2>3. \/ inflight_messages' = inflight_messages
        \/ inflight_messages' = Add(inflight_messages, Len(batch[w]) + 1)
        \/ inflight_messages' = Add(inflight_messages, Len(batch[w]))
        \/ inflight_messages' = Sub(inflight_messages, Len(batch[w]) - permits[w])
        \/ inflight_messages' = Sub(inflight_messages, 1)
    BY <1>3 DEF WorkerStep, WorkerReceives, StartBatch, WorkerFinishes, Acquire, AcquireTimesOut,
       ProcessSucceeds, ProcessFails, Success, Failure, FinishMessage
  <2> QED BY <1>1, <1>3, <2>2, <2>3, WorkerFrame
<1>4. CASE RunStep
  BY <1>1, <1>4, RunFrame DEF RunStep, CommitTick, CommitterStops, CtrlC, DrainEnds,
     DrainDeadline, FinalCommit, Return
<1>5. CASE Crash
  BY <1>5, PipelineAssumption DEF Crash
<1>6. CASE UNCHANGED <<inflight_messages, run>>
  BY <1>1, <1>6
<1>7. ASSUME NEW w \in Workers, WorkerPanics(w) PROVE UNCHANGED <<inflight_messages, run>>
  BY <1>7 DEF WorkerPanics
<1> QED BY <1>2, <1>3, <1>4, <1>5, <1>6, <1>7, LoopFrame DEF Next, vars

LEMMA CurrentTypes ==
  ASSUME TypeOK, NEW w \in Workers, pc[w] \in Working
  PROVE  Current(w) \in Message
BY DEF TypeOK, WorkersTypeOK, Current

LEMMA OutcomesTypes == TypeOK /\ [Next]_vars => OutcomesTypeOK'
<1> SUFFICES ASSUME TypeOK, [Next]_vars PROVE OutcomesTypeOK'
  OBVIOUS
<1>1. OutcomesTypeOK
  BY DEF TypeOK
<1> USE DEF OutcomesTypeOK, outcomes, faults
<1>2. CASE LoopStep
  <2>1. ASSUME NEW p \in Partitions, ReceiveAndPause(p) PROVE OutcomesTypeOK'
    <3>1. <<p, position[p]>> \in Message
      BY <2>1, PipelineAssumption DEF ReceiveAndPause, TypeOK, SourceTypeOK, Message, Offset
    <3> QED BY <1>1, <2>1, <3>1 DEF ReceiveAndPause
  <2>2. CASE UNCHANGED <<outcomes, faults>>
    BY <1>1, <2>2
  <2> QED BY <1>2, <2>1, <2>2 DEF LoopStep, Receive, LoopStops, LoopSends, LoopSendFails
<1>3. ASSUME NEW w \in Workers, WorkerStep(w) PROVE OutcomesTypeOK'
  <2>1. CASE AcquireTimesOut(w)
    <3>1. Range(batch[w]) \subseteq Message
      BY DEF TypeOK, WorkersTypeOK, Range
    <3> QED BY <1>1, <2>1, <3>1 DEF AcquireTimesOut
  <2>2. CASE ProcessSucceeds(w)
    BY <1>1, <2>2, CurrentTypes DEF ProcessSucceeds, Working
  <2>3. CASE ProcessFails(w)
    BY <1>1, <2>3, CurrentTypes DEF ProcessFails, Working
  <2>4. CASE UNCHANGED <<outcomes, faults>>
    BY <1>1, <2>4
  <2> QED BY <1>3, <2>1, <2>2, <2>3, <2>4 DEF WorkerStep, WorkerReceives, StartBatch,
          WorkerFinishes, Acquire, Success, Failure, FinishMessage
<1>4. CASE RunStep
  <2>1. owed' \in {owed, handled, {}}
    BY <1>4 DEF RunStep, CommitTick, CommitterStops, CtrlC, DrainEnds, DrainDeadline,
       FinalCommit, Return
  <2> QED BY <1>1, <1>4, <2>1, RunFrame
<1>5. CASE Crash
  BY <1>1, <1>5 DEF Crash
<1>6. ASSUME NEW w \in Workers, WorkerPanics(w) PROVE OutcomesTypeOK'
  BY <1>1, <1>6 DEF WorkerPanics
<1>7. CASE UNCHANGED <<outcomes, faults>>
  BY <1>1, <1>7
<1> QED BY <1>2, <1>3, <1>4, <1>5, <1>6, <1>7, DistributorFrame DEF Next, vars

LEMMA OffsetsTypes == TypeOK /\ [Next]_vars => OffsetsTypeOK'
<1> SUFFICES ASSUME TypeOK, [Next]_vars PROVE OffsetsTypeOK'
  OBVIOUS
<1>1. OffsetsTypeOK
  BY DEF TypeOK
<1> USE DEF OffsetsTypeOK, offsets
<1>2. GroupAfterCommit \in [Partitions -> 0..LogEnd]
  <2>1. \A o \in Offset : o + 1 \in 0..LogEnd
    BY PipelineAssumption DEF Offset
  <2> QED BY <1>1, <2>1 DEF GroupAfterCommit, Marked
<1>3. CommitSucceeds => OffsetsTypeOK'
  BY <1>1, <1>2 DEF CommitSucceeds, Marked
<1>4. CommitFails => OffsetsTypeOK'
  BY <1>1, <1>2 DEF CommitFails
<1>5. ASSUME NEW w \in Workers, WorkerStep(w) PROVE OffsetsTypeOK'
  <2>1. CASE Success(w)
    <3>1. Current(w)[1] \in Partitions /\ Current(w)[2] \in Offset
      BY <2>1, CurrentTypes DEF Success, Working, Message
    <3> QED BY <1>1, <2>1, <3>1 DEF Success, MarkOffset
  <2>2. CASE UNCHANGED offsets
    BY <1>1, <2>2
  <2> QED BY <1>5, <2>1, <2>2 DEF WorkerStep, WorkerReceives, StartBatch, WorkerFinishes,
          Acquire, AcquireTimesOut, ProcessSucceeds, ProcessFails, Failure, FinishMessage
<1>6. CASE RunStep
  BY <1>1, <1>3, <1>4, <1>6 DEF RunStep, CommitTick, CommitOffsets, CommitterStops, CtrlC,
     DrainEnds, DrainDeadline, FinalCommit, Return
<1>7. CASE Crash
  BY <1>1, <1>7 DEF Crash, OffsetsLost
<1>8. CASE UNCHANGED offsets
  BY <1>1, <1>8
<1>9. ASSUME NEW w \in Workers, WorkerPanics(w) PROVE UNCHANGED offsets
  BY <1>9 DEF WorkerPanics
<1> QED BY <1>5, <1>6, <1>7, <1>8, <1>9, LoopFrame, DistributorFrame DEF Next, vars

LEMMA TypeInit == Init => TypeOK
<1> SUFFICES ASSUME Init PROVE TypeOK
  OBVIOUS
<1> USE PipelineAssumption DEF Init
<1>1. OffsetsTypeOK
  BY DEF OffsetsInit, OffsetsTypeOK
<1>2. SourceTypeOK
  <2>1. position \in [Partitions -> 0..LogEnd]
    BY DEF OffsetsInit
  <2> QED BY <2>1 DEF SourceTypeOK, Task
<1>3. QueuesTypeOK /\ WorkersTypeOK
  BY DEF QueuesTypeOK, WorkersTypeOK, Working
<1>4. DistributorTypeOK
  <2>1. 0 \in Workers /\ 0 \in 0..NumWorkers
    BY DEF Workers
  <2> QED BY <2>1 DEF DistributorTypeOK, Task
<1>5. RunTypeOK /\ OutcomesTypeOK
  BY DEF RunTypeOK, OutcomesTypeOK
<1> QED BY <1>1, <1>2, <1>3, <1>4, <1>5 DEF TypeOK

LEMMA TypeStep == TypeOK /\ [Next]_vars => TypeOK'
BY OffsetsTypes, SourceTypes, QueuesTypes, DistributorTypes, WorkersTypes, RunTypes,
   OutcomesTypes DEF TypeOK

(* Every variable keeps its type; a task that is being sent and a batch that *)
(* is being processed always have a message at hand, so that no step takes   *)
(* the head of an empty sequence.                                            *)
THEOREM TypeCorrect == Spec => []TypeOK
BY TypeInit, TypeStep, PTL DEF Spec

------------------------------------------------------------------------------
(* Only processed messages are committed.  The inductive invariant follows   *)
(* an offset on its way to the broker: a worker that is about to mark has    *)
(* succeeded on the message at the head of its batch, and every mark stands  *)
(* for such a message until the commit that uses it.                         *)

MarkedWasProcessed ==
  \A p \in Partitions : pending[p] # None => <<p, pending[p]>> \in succeeded
SuccessWasProcessed ==
  \A w \in Workers : pc[w] = "success" => Current(w) \in succeeded

CommitInv == TypeOK /\ SuccessWasProcessed /\ MarkedWasProcessed /\ CommittedWasProcessed

LEMMA SucceededGrows ==
  ASSUME [Next]_vars PROVE succeeded \subseteq succeeded'
<1>1. CASE LoopStep \/ DistributorStep \/ RunStep
  BY <1>1, LoopFrame, DistributorFrame, RunFrame DEF outcomes
<1>2. ASSUME NEW w \in Workers, WorkerStep(w) PROVE succeeded \subseteq succeeded'
  BY <1>2 DEF WorkerStep, WorkerReceives, StartBatch, WorkerFinishes, Acquire, AcquireTimesOut,
     ProcessSucceeds, ProcessFails, Success, Failure, FinishMessage, outcomes
<1>3. ASSUME NEW w \in Workers, WorkerPanics(w) PROVE succeeded' = succeeded
  BY <1>3 DEF WorkerPanics, outcomes
<1>4. CASE Crash
  BY <1>4 DEF Crash
<1>5. CASE UNCHANGED vars
  BY <1>5 DEF vars, outcomes
<1> QED BY <1>1, <1>2, <1>3, <1>4, <1>5 DEF Next

LEMMA SuccessStep == CommitInv /\ [Next]_vars => SuccessWasProcessed'
<1> SUFFICES ASSUME CommitInv, [Next]_vars,
                    NEW v \in Workers, pc'[v] = "success"
             PROVE  Current(v)' \in succeeded'
  BY DEF SuccessWasProcessed
<1>1. succeeded \subseteq succeeded' /\ WorkersTypeOK
  BY SucceededGrows DEF CommitInv, TypeOK
<1>2. CASE UNCHANGED workers
  BY <1>1, <1>2 DEF workers, CommitInv, SuccessWasProcessed, Current
<1>3. ASSUME NEW w \in Workers, WorkerStep(w) PROVE Current(v)' \in succeeded'
  <2>1. CASE ProcessSucceeds(w)
    <3>1. CASE v = w
      BY <1>1, <2>1, <3>1 DEF ProcessSucceeds, Current
    <3>2. CASE v # w
      BY <1>1, <2>1, <3>2 DEF ProcessSucceeds, Current, CommitInv, SuccessWasProcessed, WorkersTypeOK
    <3> QED BY <3>1, <3>2
  <2>2. CASE ~ProcessSucceeds(w)
    <3>1. v # w
      BY <1>1, <1>3, <2>2 DEF WorkerStep, WorkerReceives, StartBatch, WorkerFinishes, Acquire,
         AcquireTimesOut, ProcessFails, Success, Failure, FinishMessage, WorkersTypeOK
    <3>2. pc'[v] = pc[v] /\ batch'[v] = batch[v]
      BY <1>1, <1>3, <3>1 DEF WorkerStep, WorkerReceives, StartBatch, WorkerFinishes, Acquire,
         AcquireTimesOut, ProcessSucceeds, ProcessFails, Success, Failure, FinishMessage, WorkersTypeOK
    <3> QED BY <1>1, <3>2 DEF CommitInv, SuccessWasProcessed, Current
  <2> QED BY <2>1, <2>2
<1>4. ASSUME NEW w \in Workers, WorkerPanics(w) PROVE Current(v)' \in succeeded'
  <2>1. pc'[v] = pc[v] /\ batch'[v] = batch[v]
    BY <1>1, <1>4 DEF WorkerPanics, WorkersTypeOK
  <2> QED BY <1>1, <2>1 DEF CommitInv, SuccessWasProcessed, Current
<1>5. ~Crash
  BY DEF Crash
<1> QED BY <1>2, <1>3, <1>4, <1>5, LoopFrame, DistributorFrame, RunFrame DEF Next, vars

LEMMA OffsetsStep ==
  CommitInv /\ [Next]_vars => MarkedWasProcessed' /\ CommittedWasProcessed'
<1> SUFFICES ASSUME CommitInv, [Next]_vars
             PROVE  MarkedWasProcessed' /\ CommittedWasProcessed'
  OBVIOUS
<1>1. /\ succeeded \subseteq succeeded' /\ OffsetsTypeOK
      /\ MarkedWasProcessed /\ CommittedWasProcessed
  BY SucceededGrows DEF CommitInv, TypeOK
<1> USE DEF MarkedWasProcessed, CommittedWasProcessed
<1>2. CASE UNCHANGED offsets
  BY <1>1, <1>2 DEF offsets
<1>3. ASSUME NEW w \in Workers, Success(w)
      PROVE  MarkedWasProcessed' /\ CommittedWasProcessed'
  <2>1. Current(w) \in succeeded /\ Current(w) \in Message
    BY <1>3, CurrentTypes DEF CommitInv, SuccessWasProcessed, Success, Working
  <2>2. Current(w) = <<Current(w)[1], Current(w)[2]>> /\ Current(w)[1] \in Partitions
    BY <2>1 DEF Message
  <2> QED BY <1>1, <1>3, <2>1, <2>2 DEF Success, MarkOffset, OffsetsTypeOK
<1>4. ASSUME NEW p \in Partitions, pending[p] # None
      PROVE  (pending[p] + 1) - 1 = pending[p]
  BY <1>1, <1>4 DEF OffsetsTypeOK, Offset
<1>5. ASSUME NEW p \in Partitions, GroupAfterCommit[p] > 0
      PROVE  <<p, GroupAfterCommit[p] - 1>> \in succeeded
  BY <1>1, <1>4, <1>5 DEF GroupAfterCommit, Marked
<1>6. CASE CommitSucceeds
  BY <1>1, <1>5, <1>6 DEF CommitSucceeds
<1>7. CASE CommitFails
  BY <1>1, <1>5, <1>7 DEF CommitFails
<1>8. CASE Crash
  BY <1>1, <1>8 DEF Crash, OffsetsLost
<1>9. ASSUME NEW w \in Workers, WorkerStep(w) PROVE Success(w) \/ UNCHANGED offsets
  BY <1>9 DEF WorkerStep, WorkerReceives, StartBatch, WorkerFinishes, Acquire, AcquireTimesOut,
     ProcessSucceeds, ProcessFails, Failure, FinishMessage
<1>10. RunStep => CommitSucceeds \/ CommitFails \/ UNCHANGED offsets
  BY DEF RunStep, CommitTick, CommitOffsets, CommitterStops, CtrlC, DrainEnds, DrainDeadline,
     FinalCommit, Return
<1>11. ASSUME NEW w \in Workers, WorkerPanics(w) PROVE UNCHANGED offsets
  BY <1>11 DEF WorkerPanics
<1> QED BY <1>2, <1>3, <1>6, <1>7, <1>8, <1>9, <1>10, <1>11, LoopFrame, DistributorFrame
     DEF Next, vars

LEMMA CommitInvInit == Init => CommitInv
BY TypeInit DEF Init, OffsetsInit, CommitInv, SuccessWasProcessed, MarkedWasProcessed,
   CommittedWasProcessed

LEMMA CommitInvariant == Spec => []CommitInv
<1>1. CommitInv /\ [Next]_vars => CommitInv'
  BY TypeStep, SuccessStep, OffsetsStep DEF CommitInv
<1> QED BY <1>1, CommitInvInit, PTL DEF Spec

(* Whatever the workers, the committer, failing commits and restarts do, the *)
(* message just below the position of the group is one on which the          *)
(* processor succeeded: no failed or dropped message is itself committed.    *)
THEOREM CommittedOnlyProcessed == Spec => []CommittedWasProcessed
<1>1. CommitInv => CommittedWasProcessed
  BY DEF CommitInv
<1> QED BY <1>1, CommitInvariant, PTL
------------------------------------------------------------------------------
(* With one worker the messages on their way form a single sequence, oldest  *)
(* first: the batch of the worker, the main channel, the task in the hand of *)
(* the consumer loop.  The inductive invariant says that the sequence is in  *)
(* order, that nothing delivered is missing from it unless it is settled, and *)
(* that the marks and the position of the group are not ahead of it.         *)

InHand == IF loop_task = NoTask THEN <<>> ELSE <<loop_task>>
Pipe == (batch[0] \o main_queue) \o InHand

OneWorkerShape ==
  /\ dist = "unused"
  /\ loop # "send" => loop_task = NoTask
  /\ pc[0] = "done" => loop = "stopped" /\ run_pc = "returned"
  /\ pc[0] = "dead" => batch[0] = <<>> /\ main_queue = <<>>
PipeInOrder ==
  \A i, j \in 1..Len(Pipe) : i < j /\ Pipe[i][1] = Pipe[j][1] => Pipe[i][2] < Pipe[j][2]
PipeDelivered == \A i \in 1..Len(Pipe) : Pipe[i][2] < position[Pipe[i][1]]
PipeAhead ==
  \A i \in 1..Len(Pipe) :
    \/ i = 1 /\ pc[0] = "finish"
    \/ pending[Pipe[i][1]] < Pipe[i][2] /\ group[Pipe[i][1]] <= Pipe[i][2]
PositionAhead == \A p \in Partitions : pending[p] < position[p] /\ group[p] <= position[p]
PendingNotBehind == \A p \in Partitions : pending[p] # None => group[p] <= pending[p] + 1
InPipe(m) == \E i \in 1..Len(Pipe) : Pipe[i] = m
NothingMissing == pc[0] # "dead" => \A m \in Delivered : m \in Settled \/ InPipe(m)
PendingSettled == \A m \in Message : m[2] <= pending[m[1]] => m \in Settled
FinishSettled ==
  \A w \in Workers : pc[w] \in {"success", "failure", "finish"} => Current(w) \in Settled

OrderInv ==
  /\ TypeOK /\ OneWorkerShape
  /\ PipeInOrder /\ PipeDelivered /\ PipeAhead /\ PositionAhead /\ PendingNotBehind
  /\ NothingMissing /\ PendingSettled /\ NothingSkipped /\ FinishSettled
(* The pipe as a sequence. *)

LEMMA Concatenation ==
  ASSUME NEW S, NEW s \in Seq(S), NEW t \in Seq(S)
  PROVE  /\ s \o t \in Seq(S) /\ Len(s \o t) = Len(s) + Len(t)
         /\ \A i \in 1..Len(s) : (s \o t)[i] = s[i]
         /\ \A i \in 1..Len(t) : (s \o t)[Len(s) + i] = t[i]
<1>1. Len(s) \in Nat /\ Len(t) \in Nat
  OBVIOUS
<1>2. /\ s \o t \in Seq(S) /\ Len(s \o t) = Len(s) + Len(t)
      /\ \A i \in 1..Len(s) + Len(t) :
           (s \o t)[i] = IF i <= Len(s) THEN s[i] ELSE t[i - Len(s)]
  BY ConcatProperties
<1> QED BY <1>1, <1>2

LEMMA ConcatenationLaws ==
  ASSUME NEW S
  PROVE  /\ \A x, y, z \in Seq(S) : (x \o y) \o z = x \o (y \o z)
         /\ \A x, y \in Seq(S) : x \o y \in Seq(S)
<1>1. \A x, y, z \in Seq(S) : (x \o y) \o z = x \o (y \o z)
  BY ConcatAssociative
<1>2. \A x, y \in Seq(S) : x \o y \in Seq(S)
  BY ConcatProperties
<1> QED BY <1>1, <1>2

LEMMA HeadThenTail ==
  ASSUME NEW S, NEW s \in Seq(S), s # <<>>
  PROVE  <<Head(s)>> \in Seq(S) /\ Tail(s) \in Seq(S) /\ s = <<Head(s)>> \o Tail(s)
<1> DEFINE h == <<Head(s)>>
           t == Tail(s)
<1>1. /\ Len(s) \in Nat \ {0} /\ t \in Seq(S) /\ Len(t) = Len(s) - 1
      /\ \A i \in 1..Len(t) : t[i] = s[i + 1]
  BY HeadTailProperties, EmptySeq
<1>2. h \in Seq(S) /\ Len(h) = 1 /\ h[1] = s[1]
  BY <1>1
<1> HIDE DEF h, t
<1>3. /\ h \o t \in Seq(S) /\ Len(h \o t) = Len(h) + Len(t)
      /\ \A i \in 1..Len(h) : (h \o t)[i] = h[i]
      /\ \A i \in 1..Len(t) : (h \o t)[Len(h) + i] = t[i]
  <2>1. h \in Seq(S) /\ t \in Seq(S)
    BY <1>1, <1>2
  <2> QED BY <2>1, Concatenation
<1>4. ASSUME NEW i \in 1..Len(s) PROVE (h \o t)[i] = s[i]
  <2>1. CASE i = 1
    BY <1>2, <1>3, <2>1
  <2>2. CASE i # 1
    <3>1. i - 1 \in 1..Len(t) /\ 1 + (i - 1) = i /\ (i - 1) + 1 = i
      BY <1>1, <2>2
    <3> QED BY <1>1, <1>2, <1>3, <3>1
  <2> QED BY <2>1, <2>2
<1>5. s = h \o t
  BY <1>1, <1>2, <1>3, <1>4, SeqEqual, SMTT(60)
<1> QED BY <1>1, <1>2, <1>5 DEF h, t

(* r is what is left of the sequence s without its first k elements. *)
Cut(s, k, r) ==
  /\ k \in 0..Len(s) /\ Len(r) = Len(s) - k
  /\ \A i \in 1..Len(r) : r[i] = s[i + k]

LEMMA CutFront ==
  ASSUME NEW S, NEW s \in Seq(S), NEW r \in Seq(S)
  PROVE  Cut(s \o r, Len(s), r)
<1>1. Len(s) \in Nat /\ Len(r) \in Nat
  OBVIOUS
<1>2. /\ Len(s \o r) = Len(s) + Len(r)
      /\ \A i \in 1..Len(r) : (s \o r)[Len(s) + i] = r[i]
  BY Concatenation
<1> QED BY <1>1, <1>2 DEF Cut

LEMMA CutHead ==
  ASSUME NEW S, NEW s \in Seq(S), NEW q \in Seq(S), NEW t \in Seq(S), s # <<>>
  PROVE  Cut((s \o q) \o t, 1, (Tail(s) \o q) \o t)
<1> DEFINE h == <<Head(s)>>
           b == Tail(s)
<1>1. h \in Seq(S) /\ b \in Seq(S) /\ s = h \o b /\ Len(h) = 1
  BY HeadThenTail
<1> HIDE DEF h, b
<1>2. /\ \A x, y, z \in Seq(S) : (x \o y) \o z = x \o (y \o z)
      /\ \A x, y \in Seq(S) : x \o y \in Seq(S)
  BY ConcatenationLaws
<1>3. (h \o b) \o q = h \o (b \o q) /\ b \o q \in Seq(S)
  BY <1>1, <1>2, SMTT(60)
<1>4. (h \o (b \o q)) \o t = h \o ((b \o q) \o t) /\ (b \o q) \o t \in Seq(S)
  <2> DEFINE bq == b \o q
  <2>1. bq \in Seq(S)
    BY <1>3
  <2> HIDE DEF bq
  <2>2. (h \o bq) \o t = h \o (bq \o t) /\ bq \o t \in Seq(S)
    BY <1>1, <1>2, <2>1, SMTT(60)
  <2> QED BY <2>2 DEF bq
<1>5. Cut(h \o ((b \o q) \o t), Len(h), (b \o q) \o t)
  BY <1>1, <1>4, CutFront
<1>6. (s \o q) \o t = h \o ((b \o q) \o t)
  BY <1>1, <1>3, <1>4
<1>7. Cut((s \o q) \o t, 1, (b \o q) \o t)
  BY <1>1, <1>5, <1>6
<1> QED BY <1>7 DEF b

LEMMA CutFirst ==
  ASSUME NEW S, NEW s \in Seq(S), NEW q \in Seq(S), NEW t \in Seq(S)
  PROVE  Cut((s \o q) \o t, Len(s), (<<>> \o q) \o t)
<1>1. (s \o q) \o t = s \o (q \o t)
  BY ConcatAssociative, SMTT(60)
<1>2. <<>> \o q = q
  BY ConcatEmptySeq
<1>3. q \o t \in Seq(S)
  BY ConcatProperties
<1>4. Cut(s \o (q \o t), Len(s), q \o t)
  BY <1>3, CutFront
<1> QED BY <1>1, <1>2, <1>4

LEMMA CutTwo ==
  ASSUME NEW S, NEW s \in Seq(S), NEW q \in Seq(S), NEW t \in Seq(S)
  PROVE  Cut((s \o q) \o t, Len(s) + Len(q), (<<>> \o <<>>) \o t)
<1>1. s \o q \in Seq(S) /\ Len(s \o q) = Len(s) + Len(q)
  BY ConcatProperties
<1>2. <<>> \o <<>> = <<>> /\ <<>> \o t = t
  BY ConcatEmptySeq
<1>3. Cut((s \o q) \o t, Len(s \o q), t)
  BY <1>1, CutFront
<1> QED BY <1>1, <1>2, <1>3

LEMMA NoTaskIsNoMessage == NoTask \notin Message
<1> SUFFICES ASSUME NoTask \in Message PROVE FALSE
  OBVIOUS
<1>1. PICK p \in Partitions, o \in Offset : NoTask = <<p, o>>
  BY DEF Message
<1>2. Len(NoTask) = 0 /\ Len(<<p, o>>) = 2
  BY DEF NoTask
<1>3. Len(NoTask) = Len(<<p, o>>)
  BY <1>1, Zenon
<1> QED BY <1>2, <1>3

LEMMA PipeParts ==
  ASSUME TypeOK, NumWorkers = 1
  PROVE  /\ 0 \in Workers /\ Workers = {0}
         /\ batch[0] \in Seq(Message) /\ main_queue \in Seq(Message)
         /\ InHand \in Seq(Message)
         /\ Len(InHand) = (IF loop_task = NoTask THEN 0 ELSE 1)
         /\ loop_task # NoTask => loop_task \in Message /\ InHand[1] = loop_task
<1>1. 0 \in Workers /\ Workers = {0}
  BY DEF Workers
<1>2. batch[0] \in Seq(Message) /\ main_queue \in Seq(Message)
  BY <1>1 DEF TypeOK, WorkersTypeOK, QueuesTypeOK
<1>3. CASE loop_task = NoTask
  <2>1. InHand = <<>>
    BY <1>3 DEF InHand
  <2> QED BY <1>1, <1>2, <1>3, <2>1
<1>4. CASE loop_task # NoTask
  <2>1. InHand = <<loop_task>> /\ loop_task \in Message
    BY <1>4 DEF InHand, TypeOK, SourceTypeOK, Task
  <2>2. InHand \in Seq(Message) /\ Len(InHand) = 1 /\ InHand[1] = loop_task
    BY <2>1
  <2> QED BY <1>1, <1>2, <1>4, <2>1, <2>2
<1> QED BY <1>3, <1>4

LEMMA PipeLayout ==
  ASSUME TypeOK, NumWorkers = 1
  PROVE  /\ Pipe \in Seq(Message)
         /\ Len(batch[0]) \in Nat /\ Len(main_queue) \in Nat /\ Len(InHand) \in Nat
         /\ Len(Pipe) = Len(batch[0]) + Len(main_queue) + Len(InHand)
         /\ \A i \in 1..Len(batch[0]) : Pipe[i] = batch[0][i]
         /\ \A i \in 1..Len(main_queue) : Pipe[Len(batch[0]) + i] = main_queue[i]
         /\ loop_task # NoTask => Pipe[Len(batch[0]) + Len(main_queue) + 1] = loop_task
<1>1. /\ batch[0] \in Seq(Message) /\ main_queue \in Seq(Message) /\ InHand \in Seq(Message)
      /\ Len(InHand) = (IF loop_task = NoTask THEN 0 ELSE 1)
      /\ loop_task # NoTask => InHand[1] = loop_task
  BY PipeParts
<1> DEFINE front == batch[0] \o main_queue
<1>2. /\ front \in Seq(Message) /\ Len(front) = Len(batch[0]) + Len(main_queue)
      /\ \A i \in 1..Len(batch[0]) : front[i] = batch[0][i]
      /\ \A i \in 1..Len(main_queue) : front[Len(batch[0]) + i] = main_queue[i]
  BY <1>1, Concatenation
<1> HIDE DEF front
<1>3. /\ front \o InHand \in Seq(Message) /\ Len(front \o InHand) = Len(front) + Len(InHand)
      /\ \A i \in 1..Len(front) : (front \o InHand)[i] = front[i]
      /\ \A i \in 1..Len(InHand) : (front \o InHand)[Len(front) + i] = InHand[i]
  <2>1. front \in Seq(Message) /\ InHand \in Seq(Message)
    BY <1>1, <1>2
  <2> QED BY <2>1, Concatenation
<1>4. Pipe = front \o InHand
  BY DEF Pipe, front
<1>5. Len(batch[0]) \in Nat /\ Len(main_queue) \in Nat /\ Len(InHand) \in Nat
  BY <1>1
<1>6. \A i \in 1..Len(batch[0]) : Pipe[i] = batch[0][i]
  BY <1>2, <1>3, <1>4, <1>5
<1>7. \A i \in 1..Len(main_queue) : Pipe[Len(batch[0]) + i] = main_queue[i]
  BY <1>2, <1>3, <1>4, <1>5, SMTT(60)
<1>8. loop_task # NoTask => Pipe[Len(batch[0]) + Len(main_queue) + 1] = loop_task
  BY <1>1, <1>2, <1>3, <1>4, <1>5
<1> QED BY <1>2, <1>3, <1>4, <1>5, <1>6, <1>7, <1>8

(* The pipe after a step, with the first k of its messages gone. *)
PipeCut(k) == Cut(Pipe, k, Pipe')
(* The pipe after a step, with one message more. *)
PipeGrows(m) ==
  /\ Pipe' \in Seq(Message) /\ Len(Pipe') = Len(Pipe) + 1
  /\ \A i \in 1..Len(Pipe) : Pipe'[i] = Pipe[i]
  /\ Pipe'[Len(Pipe')] = m

LEMMA PipeSame ==
  ASSUME TypeOK, NumWorkers = 1, Pipe' = Pipe
  PROVE  PipeCut(0)
<1>1. Pipe \in Seq(Message)
  BY PipeLayout
<1> QED BY <1>1 DEF PipeCut, Cut

LEMMA PipeOnLoopSends ==
  ASSUME TypeOK, NumWorkers = 1, LoopSends
  PROVE  PipeCut(0)
<1>1. loop_task \in Message /\ loop_task # NoTask
  BY NoTaskIsNoMessage DEF LoopSends, TypeOK, SourceTypeOK
<1>2. main_queue \in Seq(Message) /\ batch[0] \in Seq(Message) /\ InHand \in Seq(Message)
  BY PipeParts
<1>3. InHand = <<loop_task>> /\ InHand' = <<>>
  BY <1>1 DEF InHand, LoopSends
<1>4. main_queue' = main_queue \o InHand /\ batch' = batch
  BY <1>1, <1>2, <1>3, AppendIsConcat DEF LoopSends, workers
<1>5. main_queue' \in Seq(Message) /\ batch[0] \o main_queue' \in Seq(Message)
  BY <1>2, <1>4, ConcatProperties
<1>6. Pipe' = batch[0] \o main_queue'
  BY <1>3, <1>4, <1>5, ConcatEmptySeq DEF Pipe
<1>7. (batch[0] \o main_queue) \o InHand = batch[0] \o (main_queue \o InHand)
  <2>1. \A s, t, u \in Seq(Message) : (s \o t) \o u = s \o (t \o u)
    BY ConcatAssociative
  <2> QED BY <1>2, <2>1
<1>8. Pipe' = Pipe
  BY <1>4, <1>6, <1>7 DEF Pipe
<1> QED BY <1>8, PipeSame

LEMMA PipeOnWorkerReceives ==
  ASSUME TypeOK, NumWorkers = 1, WorkerReceives(0)
  PROVE  PipeCut(0)
<1>1. /\ main_queue \in Seq(Message) /\ batch[0] \in Seq(Message) /\ InHand \in Seq(Message)
      /\ 0 \in Workers
  BY PipeParts
<1>2. main_queue # <<>> /\ main_queue' = Tail(main_queue) /\ InHand' = InHand
  BY DEF WorkerReceives, Inbox, TakeFromInbox, InHand, source
<1>3. batch'[0] = Append(batch[0], Head(main_queue))
  BY <1>1 DEF WorkerReceives, Inbox, TypeOK, WorkersTypeOK
<1>4. Head(main_queue) \in Message /\ Tail(main_queue) \in Seq(Message)
  BY <1>1, <1>2
<1>5. main_queue = <<Head(main_queue)>> \o Tail(main_queue)
  BY <1>1, <1>2, HeadThenTail
<1>6. batch'[0] = batch[0] \o <<Head(main_queue)>> /\ <<Head(main_queue)>> \in Seq(Message)
  BY <1>1, <1>3, <1>4, AppendIsConcat
<1>7. (batch[0] \o <<Head(main_queue)>>) \o Tail(main_queue)
        = batch[0] \o (<<Head(main_queue)>> \o Tail(main_queue))
  <2>1. /\ batch[0] \in Seq(Message) /\ <<Head(main_queue)>> \in Seq(Message)
        /\ Tail(main_queue) \in Seq(Message)
    BY <1>1, <1>4, <1>6
  <2> QED BY <2>1, ConcatAssociative, SMTT(30)
<1>8. batch'[0] \o main_queue' = batch[0] \o main_queue
  BY <1>2, <1>5, <1>6, <1>7
<1> QED BY <1>2, <1>8, PipeSame DEF Pipe

LEMMA PipeOnReceive ==
  ASSUME TypeOK, NumWorkers = 1, OneWorkerShape, NEW p \in Partitions, Receive(p)
  PROVE  PipeGrows(<<p, position[p]>>)
<1> DEFINE m == <<p, position[p]>>
<1>1. m \in Message /\ m # NoTask
  BY PipelineAssumption, NoTaskIsNoMessage DEF Receive, TypeOK, SourceTypeOK, Message, Offset
<1>2. loop_task = NoTask /\ loop_task' = m /\ batch' = batch /\ main_queue' = main_queue
  BY DEF Receive, OneWorkerShape, workers, queues
<1>3. batch[0] \in Seq(Message) /\ main_queue \in Seq(Message)
  BY PipeParts
<1>4. InHand = <<>> /\ InHand' = <<m>>
  BY <1>1, <1>2 DEF InHand
<1>5. batch[0] \o main_queue \in Seq(Message)
  BY <1>3, ConcatProperties
<1>6. Pipe = batch[0] \o main_queue
  BY <1>4, <1>5, ConcatEmptySeq DEF Pipe
<1>7. Pipe' = Append(Pipe, m) /\ Pipe \in Seq(Message)
  BY <1>1, <1>2, <1>4, <1>5, <1>6, AppendIsConcat DEF Pipe
<1> HIDE DEF m
<1>8. PipeGrows(m)
  BY <1>1, <1>7, AppendProperties DEF PipeGrows
<1> QED BY <1>8 DEF m

LEMMA PipeOnFinishMessage ==
  ASSUME TypeOK, NumWorkers = 1, FinishMessage(0)
  PROVE  PipeCut(1)
<1>1. /\ batch[0] \in Seq(Message) /\ batch[0] # <<>> /\ batch'[0] = Tail(batch[0])
      /\ main_queue \in Seq(Message) /\ InHand \in Seq(Message)
      /\ main_queue' = main_queue /\ InHand' = InHand
  <2>1. 0 \in Workers
    BY PipeParts
  <2> QED BY <2>1, PipeParts
        DEF FinishMessage, TypeOK, WorkersTypeOK, Working, queues, source, InHand
<1>2. Pipe' = (Tail(batch[0]) \o main_queue) \o InHand
  BY <1>1 DEF Pipe
<1> QED BY <1>1, <1>2, CutHead DEF Pipe, PipeCut

LEMMA PipeOnGiveUp ==
  ASSUME TypeOK, NumWorkers = 1, AcquireTimesOut(0)
  PROVE  \/ PipeCut(0) /\ batch' = batch /\ dropped' = dropped
         \/ PipeCut(Len(batch[0])) /\ dropped' = dropped \cup Range(batch[0])
<1>1. /\ batch[0] \in Seq(Message) /\ main_queue \in Seq(Message) /\ InHand \in Seq(Message)
      /\ 0 \in Workers /\ main_queue' = main_queue /\ InHand' = InHand
  BY PipeParts DEF AcquireTimesOut, queues, source, InHand
<1>2. CASE permits[0] # 0
  <2>1. batch' = batch /\ dropped' = dropped
    BY <1>2 DEF AcquireTimesOut
  <2>2. Pipe' = Pipe
    BY <1>1, <2>1 DEF Pipe
  <2>3. PipeCut(0)
    BY <2>2, PipeSame
  <2> QED BY <2>1, <2>3
<1>3. CASE permits[0] = 0
  <2>1. batch'[0] = <<>> /\ dropped' = dropped \cup Range(batch[0])
    BY <1>1, <1>3 DEF AcquireTimesOut, TypeOK, WorkersTypeOK
  <2>2. Pipe' = (<<>> \o main_queue) \o InHand
    BY <1>1, <2>1 DEF Pipe
  <2> QED BY <1>1, <2>1, <2>2, CutFirst DEF Pipe, PipeCut
<1> QED BY <1>2, <1>3

LEMMA PipeOnPanic ==
  ASSUME TypeOK, NumWorkers = 1, WorkerPanics(0)
  PROVE  PipeCut(Len(batch[0]) + Len(main_queue))
<1>1. /\ batch[0] \in Seq(Message) /\ main_queue \in Seq(Message) /\ InHand \in Seq(Message)
      /\ 0 \in Workers
  BY PipeParts
<1>2. InHand' = InHand /\ main_queue' = <<>> /\ batch'[0] = <<>>
  BY <1>1 DEF WorkerPanics, source, InHand, TypeOK, WorkersTypeOK
<1>3. Pipe' = (<<>> \o <<>>) \o InHand
  BY <1>2 DEF Pipe
<1> QED BY <1>1, <1>3, CutTwo DEF Pipe, PipeCut
LEMMA SettledGrows ==
  ASSUME [Next]_vars PROVE Settled \subseteq Settled'
<1>1. CASE LoopStep
  BY <1>1 DEF LoopStep, ReceiveAndPause, Receive, LoopStops, LoopSends, LoopSendFails, outcomes,
     Settled
<1>2. CASE DistributorStep \/ RunStep
  BY <1>2, DistributorFrame, RunFrame DEF outcomes, Settled
<1>3. ASSUME NEW w \in Workers, WorkerStep(w) PROVE Settled \subseteq Settled'
  BY <1>3 DEF WorkerStep, WorkerReceives, StartBatch, WorkerFinishes, Acquire, AcquireTimesOut,
     ProcessSucceeds, ProcessFails, Success, Failure, FinishMessage, outcomes, Settled
<1>4. ASSUME NEW w \in Workers, WorkerPanics(w) PROVE Settled \subseteq Settled'
  BY <1>4 DEF WorkerPanics, outcomes, Settled
<1>5. CASE Crash
  BY <1>5 DEF Crash, Settled
<1>6. CASE UNCHANGED vars
  BY <1>6 DEF vars, outcomes, Settled
<1> QED BY <1>1, <1>2, <1>3, <1>4, <1>5, <1>6 DEF Next

LEMMA FinishSettledStep ==
  ASSUME TypeOK, FinishSettled, [Next]_vars PROVE FinishSettled'
<1> SUFFICES ASSUME NEW v \in Workers, pc'[v] \in {"success", "failure", "finish"}
             PROVE  Current(v)' \in Settled'
  BY DEF FinishSettled
<1>1. Settled \subseteq Settled' /\ WorkersTypeOK
  BY SettledGrows DEF TypeOK
<1>2. CASE UNCHANGED workers
  BY <1>1, <1>2 DEF workers, FinishSettled, Current
<1>3. ASSUME NEW w \in Workers, WorkerStep(w) PROVE Current(v)' \in Settled'
  <2>1. CASE ProcessSucceeds(w) \/ ProcessFails(w)
    <3>1. CASE v = w
      BY <1>1, <2>1, <3>1 DEF ProcessSucceeds, ProcessFails, Current, Settled
    <3>2. CASE v # w
      BY <1>1, <2>1, <3>2 DEF ProcessSucceeds, ProcessFails, Current, FinishSettled, WorkersTypeOK
    <3> QED BY <3>1, <3>2
  <2>2. CASE Success(w) \/ Failure(w)
    BY <1>1, <2>2 DEF Success, Failure, Current, FinishSettled, WorkersTypeOK
  <2>3. CASE ~(ProcessSucceeds(w) \/ ProcessFails(w) \/ Success(w) \/ Failure(w))
    <3>1. v # w
      BY <1>1, <1>3, <2>3 DEF WorkerStep, WorkerReceives, StartBatch, WorkerFinishes, Acquire,
         AcquireTimesOut, FinishMessage, WorkersTypeOK
    <3>2. pc'[v] = pc[v] /\ batch'[v] = batch[v]
      BY <1>1, <1>3, <2>3, <3>1 DEF WorkerStep, WorkerReceives, StartBatch, WorkerFinishes,
         Acquire, AcquireTimesOut, FinishMessage, WorkersTypeOK
    <3> QED BY <1>1, <3>2 DEF FinishSettled, Current
  <2> QED BY <2>1, <2>2, <2>3
<1>4. ASSUME NEW w \in Workers, WorkerPanics(w) PROVE Current(v)' \in Settled'
  <2>1. pc'[v] = pc[v] /\ batch'[v] = batch[v]
    BY <1>1, <1>4 DEF WorkerPanics, WorkersTypeOK
  <2> QED BY <1>1, <2>1 DEF FinishSettled, Current
<1>5. ~Crash
  BY DEF Crash
<1> QED BY <1>2, <1>3, <1>4, <1>5, LoopFrame, DistributorFrame, RunFrame DEF Next, vars

(* A step after which the first k messages of the pipe are settled, or lost  *)
(* with the worker, and the positions are as they were.                      *)
Moves(k) ==
  /\ PipeCut(k) /\ position' = position /\ UNCHANGED offsets
  /\ pc[0] = "finish" => k = 0 /\ pc'[0] = "finish"
  /\ pc[0] = "dead" => pc'[0] = "dead"
  /\ pc'[0] = "dead" \/ \A i \in 1..k : Pipe[i] \in Settled'

LEMMA MovesOfLoop ==
  ASSUME OrderInv, NumWorkers = 1, LoopStops \/ LoopSends \/ LoopSendFails
  PROVE  \E k \in Nat : Moves(k)
<1> USE DEF OrderInv
<1>1. position' = position /\ UNCHANGED offsets /\ UNCHANGED workers
  BY DEF LoopStops, LoopSends, LoopSendFails, kafka
<1>2. CASE LoopStops
  <2>1. Pipe' = Pipe
    BY <1>2 DEF LoopStops, Pipe, InHand, workers, queues
  <2>2. PipeCut(0)
    BY <2>1, PipeSame
  <2> QED BY <1>1, <2>2 DEF Moves, workers
<1>3. CASE LoopSends
  BY <1>1, <1>3, PipeOnLoopSends DEF Moves, workers
<1>4. CASE LoopSendFails
  <2>1. pc[0] = "dead" /\ batch[0] = <<>> /\ main_queue = <<>>
    BY <1>4 DEF LoopSendFails, MainReceiverGone, OneWorkerShape
  <2>2. batch'[0] = <<>> /\ main_queue' = <<>> /\ InHand' = <<>>
    BY <1>1, <1>4, <2>1 DEF LoopSendFails, InHand, workers, queues
  <2>3. Pipe' = <<>>
    BY <2>2 DEF Pipe
  <2>4. Pipe \in Seq(Message)
    BY PipeLayout
  <2>5. PipeCut(Len(Pipe)) /\ Len(Pipe) \in Nat
    BY <2>3, <2>4 DEF PipeCut, Cut
  <2> QED BY <1>1, <2>1, <2>5 DEF Moves, workers
<1> QED BY <1>2, <1>3, <1>4

LEMMA MovesOfWorker ==
  ASSUME OrderInv, NumWorkers = 1, WorkerStep(0), ~Success(0), ~FinishMessage(0)
  PROVE  \E k \in Nat : Moves(k)
<1> USE DEF OrderInv
<1>1. 0 \in Workers /\ WorkersTypeOK
  BY PipeParts DEF TypeOK
<1>2. /\ position' = position /\ UNCHANGED offsets /\ loop_task' = loop_task
      /\ pc[0] # "dead" /\ pc[0] # "finish"
  BY DEF WorkerStep, WorkerReceives, StartBatch, WorkerFinishes, Acquire, AcquireTimesOut,
     ProcessSucceeds, ProcessFails, Failure, kafka, source
<1>3. CASE WorkerReceives(0)
  BY <1>2, <1>3, PipeOnWorkerReceives DEF Moves
<1>4. CASE AcquireTimesOut(0)
  <2>1. CASE PipeCut(0)
    BY <1>2, <2>1 DEF Moves
  <2>2. CASE PipeCut(Len(batch[0])) /\ dropped' = dropped \cup Range(batch[0])
    <3>1. Len(batch[0]) \in Nat /\ \A i \in 1..Len(batch[0]) : Pipe[i] = batch[0][i]
      BY PipeLayout
    <3>2. batch[0] \in Seq(Message)
      BY PipeParts
    <3>3. \A i \in 1..Len(batch[0]) : batch[0][i] \in Range(batch[0])
      BY <3>2 DEF Range
    <3> QED BY <1>2, <2>2, <3>1, <3>3 DEF Moves, Settled
  <2> QED BY <1>4, <2>1, <2>2, PipeOnGiveUp
<1>5. CASE UNCHANGED <<batch, main_queue>>
  <2>1. Pipe' = Pipe
    BY <1>2, <1>5 DEF Pipe, InHand
  <2>2. PipeCut(0)
    BY <2>1, PipeSame
  <2> QED BY <1>2, <2>2 DEF Moves
<1>6. WorkerReceives(0) \/ AcquireTimesOut(0) \/ UNCHANGED <<batch, main_queue>>
  BY DEF WorkerStep, StartBatch, WorkerFinishes, Acquire, ProcessSucceeds, ProcessFails, Failure,
     queues
<1> QED BY <1>3, <1>4, <1>5, <1>6

LEMMA MovesOfPanic ==
  ASSUME OrderInv, NumWorkers = 1, WorkerPanics(0)
  PROVE  \E k \in Nat : Moves(k)
<1> DEFINE k == Len(batch[0]) + Len(main_queue)
<1>1. PipeCut(k) /\ k \in Nat
  BY PipeOnPanic, PipeLayout DEF OrderInv
<1>2. 0 \in Workers /\ WorkersTypeOK
  BY PipeParts DEF OrderInv, TypeOK
<1>3. /\ position' = position /\ UNCHANGED offsets
      /\ pc[0] # "finish" /\ pc'[0] = "dead"
  BY <1>2 DEF WorkerPanics, kafka, WorkersTypeOK
<1> HIDE DEF k
<1>4. Moves(k)
  BY <1>1, <1>3 DEF Moves
<1> QED BY <1>1, <1>4
PipeInv ==
  /\ PipeInOrder /\ PipeDelivered /\ PipeAhead /\ PositionAhead /\ PendingNotBehind
  /\ NothingMissing /\ PendingSettled /\ NothingSkipped

LEMMA PipeElements ==
  ASSUME TypeOK, NumWorkers = 1
  PROVE  /\ Len(Pipe) \in Nat
         /\ \A i \in 1..Len(Pipe) : /\ Pipe[i] \in Message /\ Pipe[i] = <<Pipe[i][1], Pipe[i][2]>>
                                    /\ Pipe[i][1] \in Partitions /\ Pipe[i][2] \in Offset
<1>1. Pipe \in Seq(Message)
  BY PipeLayout
<1>2. \A i \in 1..Len(Pipe) : Pipe[i] \in Message
  BY <1>1, ElementOfSeq
<1> QED BY <1>1, <1>2 DEF Message

LEMMA OffsetsAreNumbers ==
  ASSUME TypeOK, NEW q \in Partitions
  PROVE  /\ pending[q] \in Int /\ pending[q] >= None
         /\ group[q] \in Nat /\ position[q] \in Nat
<1>1. LogEnd \in Nat
  BY PipelineAssumption
<1>2. group[q] \in 0..LogEnd /\ position[q] \in 0..LogEnd /\ pending[q] \in Offset \cup {None}
  BY DEF TypeOK, OffsetsTypeOK, SourceTypeOK
<1>3. pending[q] \in Int /\ pending[q] >= None
  BY <1>1, <1>2 DEF Offset, None
<1> QED BY <1>1, <1>2, <1>3

LEMMA MovesKeepPipe ==
  ASSUME OrderInv, NumWorkers = 1, Settled \subseteq Settled', NEW k \in Nat, Moves(k)
  PROVE  PipeInv'
<1>1. /\ TypeOK /\ Len(Pipe) \in Nat /\ k <= Len(Pipe) /\ Len(Pipe') = Len(Pipe) - k
      /\ \A i \in 1..Len(Pipe') : Pipe'[i] = Pipe[i + k] /\ i + k \in 1..Len(Pipe)
      /\ position' = position /\ pending' = pending /\ group' = group
  BY PipeElements DEF OrderInv, Moves, PipeCut, Cut, offsets
<1>2. PipeInOrder'
  <2>1. ASSUME NEW i \in 1..Len(Pipe'), NEW j \in 1..Len(Pipe'), i < j, Pipe'[i][1] = Pipe'[j][1]
        PROVE  Pipe'[i][2] < Pipe'[j][2]
    <3>1. i + k \in 1..Len(Pipe) /\ j + k \in 1..Len(Pipe) /\ i + k < j + k
      BY <1>1, <2>1
    <3>2. Pipe'[i] = Pipe[i + k] /\ Pipe'[j] = Pipe[j + k]
      BY <1>1
    <3> QED BY <2>1, <3>1, <3>2 DEF OrderInv, PipeInOrder
  <2> QED BY <2>1 DEF PipeInOrder
<1>3. PipeDelivered'
  BY <1>1 DEF OrderInv, PipeDelivered
<1>4. PipeAhead'
  BY <1>1, SMTT(60) DEF OrderInv, PipeAhead, Moves
<1>5. PositionAhead' /\ PendingNotBehind'
  BY <1>1 DEF OrderInv, PositionAhead, PendingNotBehind
<1>6. NothingMissing'
  <2> SUFFICES ASSUME pc'[0] # "dead", NEW m \in Delivered', m \notin Settled'
               PROVE  InPipe(m)'
    BY DEF NothingMissing
  <2>1. m \in Delivered /\ m \notin Settled /\ pc[0] # "dead"
    BY <1>1 DEF Delivered, Moves
  <2>2. PICK i \in 1..Len(Pipe) : Pipe[i] = m
    BY <2>1 DEF OrderInv, NothingMissing, InPipe
  <2>3. i > k
    BY <2>2 DEF Moves
  <2>4. i - k \in 1..Len(Pipe') /\ (i - k) + k = i
    BY <1>1, <2>3
  <2>5. Pipe'[i - k] = m
    BY <1>1, <2>2, <2>4
  <2> QED BY <2>4, <2>5 DEF InPipe
<1>7. PendingSettled' /\ NothingSkipped'
  BY <1>1 DEF OrderInv, PendingSettled, NothingSkipped
<1> QED BY <1>2, <1>3, <1>4, <1>5, <1>6, <1>7 DEF PipeInv

LEMMA ReceiveKeepsPipe ==
  ASSUME OrderInv, NumWorkers = 1, NEW p \in Partitions, Receive(p)
  PROVE  PipeInv'
<1> DEFINE m == <<p, position[p]>>
<1>1. TypeOK /\ PipeGrows(m)
  BY PipeOnReceive DEF OrderInv
<1>2. /\ position[p] \in Offset /\ m \in Message /\ LogEnd \in Nat
      /\ position \in [Partitions -> 0..LogEnd]
      /\ position' = [position EXCEPT ![p] = position[p] + 1]
  BY <1>1, PipelineAssumption DEF Receive, TypeOK, SourceTypeOK, Offset, Message
<1>3. /\ pending' = pending /\ group' = group /\ Settled' = Settled /\ pc' = pc
  BY DEF Receive, offsets, outcomes, Settled, workers
<1>4. /\ pending \in [Partitions -> Offset \cup {None}] /\ group \in [Partitions -> 0..LogEnd]
      /\ Offset \subseteq Int /\ None \in Int
  BY <1>1, <1>2 DEF TypeOK, OffsetsTypeOK, Offset, None
<1>5. /\ Len(Pipe) \in Nat /\ Len(Pipe') = Len(Pipe) + 1
      /\ \A i \in 1..Len(Pipe) : /\ Pipe'[i] = Pipe[i]
                                 /\ Pipe[i][1] \in Partitions /\ Pipe[i][2] \in Int
      /\ Pipe'[Len(Pipe) + 1] = m
      /\ \A i \in 1..Len(Pipe') : i \in 1..Len(Pipe) \/ i = Len(Pipe) + 1
  <2>1. /\ Len(Pipe) \in Nat
        /\ \A i \in 1..Len(Pipe) : Pipe[i][1] \in Partitions /\ Pipe[i][2] \in Int
    BY <1>1, <1>4, PipeElements
  <2>2. /\ Len(Pipe') = Len(Pipe) + 1 /\ Pipe'[Len(Pipe')] = m
        /\ \A i \in 1..Len(Pipe) : Pipe'[i] = Pipe[i]
    BY <1>1 DEF PipeGrows
  <2> QED BY <2>1, <2>2
<1>6. m[1] = p /\ m[2] = position[p]
  OBVIOUS
<1> HIDE DEF m
<1>7. PipeInOrder'
  <2>1. ASSUME NEW i \in 1..Len(Pipe'), NEW j \in 1..Len(Pipe'), i < j, Pipe'[i][1] = Pipe'[j][1]
        PROVE  Pipe'[i][2] < Pipe'[j][2]
    <3>1. CASE j = Len(Pipe) + 1
      <4>1. i \in 1..Len(Pipe)
        BY <1>5, <2>1, <3>1
      <4> QED BY <1>5, <1>6, <2>1, <3>1, <4>1 DEF OrderInv, PipeDelivered
    <3>2. CASE j \in 1..Len(Pipe)
      <4>1. i \in 1..Len(Pipe)
        BY <1>5, <2>1, <3>2
      <4> QED BY <1>5, <2>1, <3>2, <4>1 DEF OrderInv, PipeInOrder
    <3> QED BY <1>5, <3>1, <3>2
  <2> QED BY <2>1 DEF PipeInOrder
<1>8. PipeDelivered'
  BY <1>2, <1>4, <1>5, <1>6, SMTT(60) DEF OrderInv, PipeDelivered
<1>9. PipeAhead'
  BY <1>2, <1>3, <1>4, <1>5, <1>6 DEF OrderInv, PipeAhead, PositionAhead
<1>10. PositionAhead' /\ PendingNotBehind'
  <2>1. \A q \in Partitions : /\ pending[q] \in Int /\ group[q] \in Int /\ position[q] \in Int
                              /\ position'[q] \in Int /\ position[q] <= position'[q]
    <3>1. \A q \in Partitions : pending[q] \in Int /\ group[q] \in Nat /\ position[q] \in Nat
      BY <1>1, OffsetsAreNumbers
    <3>2. \A q \in Partitions : position'[q] = (IF q = p THEN position[p] + 1 ELSE position[q])
      BY <1>2
    <3> QED BY <3>1, <3>2
  <2> QED BY <1>3, <2>1 DEF OrderInv, PositionAhead, PendingNotBehind
<1>11. NothingMissing'
  <2> SUFFICES ASSUME pc[0] # "dead", NEW d \in Delivered', d \notin Settled
               PROVE  InPipe(d)'
    BY <1>3 DEF NothingMissing
  <2>1. CASE d \in Delivered
    <3>1. PICK i \in 1..Len(Pipe) : Pipe[i] = d
      BY <2>1 DEF OrderInv, NothingMissing, InPipe
    <3>2. Pipe'[i] = d /\ i \in 1..Len(Pipe')
      BY <1>5, <3>1
    <3> QED BY <3>2 DEF InPipe
  <2>2. CASE d \notin Delivered
    <3>1. d = <<d[1], d[2]>> /\ d[1] \in Partitions /\ d[2] \in Int
      BY <1>4 DEF Delivered, Message
    <3>2. d[1] = p /\ d[2] = position[p]
      BY <1>2, <2>2, <3>1 DEF Delivered
    <3>3. d = m
      BY <3>1, <3>2 DEF m
    <3>4. Len(Pipe) + 1 \in 1..Len(Pipe')
      BY <1>5
    <3> QED BY <1>5, <3>3, <3>4 DEF InPipe
  <2> QED BY <2>1, <2>2
<1>12. PendingSettled' /\ NothingSkipped'
  BY <1>3 DEF OrderInv, PendingSettled, NothingSkipped
<1> QED BY <1>7, <1>8, <1>9, <1>10, <1>11, <1>12 DEF PipeInv

LEMMA ReceiveAndPauseKeepsPipe ==
  ASSUME OrderInv, NumWorkers = 1, NEW p \in Partitions, ReceiveAndPause(p)
  PROVE  PipeInv'
<1>1. TypeOK /\ Pipe' = Pipe
  BY DEF OrderInv, ReceiveAndPause, Pipe, InHand, workers, queues
<1>2. /\ position \in [Partitions -> 0..LogEnd] /\ LogEnd \in Nat
      /\ position' = [position EXCEPT ![p] = position[p] + 1]
  BY <1>1, PipelineAssumption DEF ReceiveAndPause, TypeOK, SourceTypeOK
<1>3. /\ pending' = pending /\ group' = group /\ pc' = pc
      /\ Settled' = Settled \cup {<<p, position[p]>>}
  BY DEF ReceiveAndPause, offsets, Settled, workers
<1>4. /\ pending \in [Partitions -> Offset \cup {None}] /\ group \in [Partitions -> 0..LogEnd]
      /\ Offset \subseteq Int /\ None \in Int
  BY <1>1, <1>2 DEF TypeOK, OffsetsTypeOK, Offset, None
<1>5. \A i \in 1..Len(Pipe) : Pipe[i][1] \in Partitions /\ Pipe[i][2] \in Int
  BY <1>1, <1>4, PipeElements
<1>6. PipeInOrder' /\ PipeDelivered' /\ PipeAhead'
  BY <1>1, <1>2, <1>3, <1>4, <1>5, SMTT(60) DEF OrderInv, PipeInOrder, PipeDelivered, PipeAhead
<1>7. PositionAhead' /\ PendingNotBehind'
  <2>1. \A q \in Partitions : /\ pending[q] \in Int /\ group[q] \in Int /\ position[q] \in Int
                              /\ position'[q] \in Int /\ position[q] <= position'[q]
    <3>1. \A q \in Partitions : pending[q] \in Int /\ group[q] \in Nat /\ position[q] \in Nat
      BY <1>1, OffsetsAreNumbers
    <3>2. \A q \in Partitions : position'[q] = (IF q = p THEN position[p] + 1 ELSE position[q])
      BY <1>2
    <3> QED BY <3>1, <3>2
  <2> QED BY <1>3, <2>1 DEF OrderInv, PositionAhead, PendingNotBehind
<1>8. NothingMissing'
  <2> SUFFICES ASSUME pc[0] # "dead", NEW d \in Delivered', d \notin Settled'
               PROVE  InPipe(d)'
    BY <1>3 DEF NothingMissing
  <2>1. d = <<d[1], d[2]>> /\ d[1] \in Partitions /\ d[2] \in Int /\ d \in Message
    <3>1. d \in Message
      BY DEF Delivered
    <3>2. d = <<d[1], d[2]>> /\ d[1] \in Partitions /\ d[2] \in Offset
      BY <3>1 DEF Message
    <3> QED BY <1>4, <3>1, <3>2
  <2>2. d[1] # p \/ d[2] # position[p]
    BY <1>3, <2>1
  <2>3. d \in Delivered
    BY <1>2, <2>1, <2>2 DEF Delivered
  <2> QED BY <1>1, <1>3, <2>3 DEF OrderInv, NothingMissing, InPipe
<1>9. PendingSettled' /\ NothingSkipped'
  BY <1>3 DEF OrderInv, PendingSettled, NothingSkipped
<1> QED BY <1>6, <1>7, <1>8, <1>9 DEF PipeInv
LEMMA SuccessKeepsPipe ==
  ASSUME OrderInv, NumWorkers = 1, Success(0)
  PROVE  PipeInv'
<1> DEFINE c == Pipe[1]
<1>1. TypeOK /\ 0 \in Workers /\ WorkersTypeOK
  BY PipeParts DEF OrderInv, TypeOK
<1>2. pc[0] = "success" /\ pc'[0] = "finish" /\ Pipe' = Pipe /\ position' = position
  BY <1>1 DEF Success, WorkersTypeOK, Pipe, InHand, kafka, source, queues
<1>3. batch[0] \in Seq(Message) /\ batch[0] # <<>>
  BY <1>1, <1>2 DEF WorkersTypeOK, Working
<1>4. 1 \in 1..Len(batch[0]) /\ Current(0) = batch[0][1]
  BY <1>3, EmptySeq DEF Current
<1>5. /\ 1 \in 1..Len(Pipe) /\ Current(0) = c
      /\ Len(Pipe) \in Nat
  BY <1>1, <1>4, PipeLayout
<1>6. /\ c \in Message /\ c[1] \in Partitions /\ c[2] \in Offset /\ c[2] \in Nat
      /\ c = <<c[1], c[2]>>
  BY <1>1, <1>5, PipeElements, PipelineAssumption DEF Offset
<1>7. c \in Settled
  BY <1>1, <1>2, <1>5 DEF OrderInv, FinishSettled
<1>8. /\ pending' = [pending EXCEPT ![c[1]] = c[2]] /\ group' = group
      /\ Settled' = Settled
  BY <1>5 DEF Success, MarkOffset, outcomes, Settled
<1>9. pending[c[1]] < c[2] /\ group[c[1]] <= c[2] /\ c[2] < position[c[1]]
  BY <1>2, <1>5 DEF OrderInv, PipeAhead, PipeDelivered
<1>10. \A i \in 1..Len(Pipe) : Pipe[i][1] \in Partitions /\ Pipe[i][2] \in Offset
  BY <1>1, PipeElements
<1>11. \A q \in Partitions : /\ pending[q] \in Int /\ group[q] \in Nat /\ position[q] \in Nat
                             /\ pending'[q] = IF q = c[1] THEN c[2] ELSE pending[q]
  <2>1. \A q \in Partitions : pending[q] \in Int /\ group[q] \in Nat /\ position[q] \in Nat
    BY <1>1, OffsetsAreNumbers
  <2>2. pending \in [Partitions -> Offset \cup {None}]
    BY <1>1 DEF TypeOK, OffsetsTypeOK
  <2> QED BY <1>8, <2>1, <2>2
<1>12. ASSUME NEW i \in 1..Len(Pipe), i # 1
       PROVE  pending'[Pipe[i][1]] < Pipe[i][2] /\ group[Pipe[i][1]] <= Pipe[i][2]
  <2>1. pending[Pipe[i][1]] < Pipe[i][2] /\ group[Pipe[i][1]] <= Pipe[i][2]
    BY <1>12 DEF OrderInv, PipeAhead
  <2>2. c[1] = Pipe[i][1] => c[2] < Pipe[i][2]
    BY <1>5, <1>12 DEF OrderInv, PipeInOrder
  <2> QED BY <1>10, <1>11, <2>1, <2>2
<1>13. ASSUME NEW m \in Message, m[2] <= pending'[m[1]] PROVE m \in Settled
  <2>1. m = <<m[1], m[2]>> /\ m[1] \in Partitions /\ m[2] \in Int
    BY PipelineAssumption DEF Message, Offset
  <2>2. CASE m[1] # c[1]
    BY <1>11, <1>13, <2>1, <2>2 DEF OrderInv, PendingSettled
  <2>3. CASE m[1] = c[1] /\ m[2] = c[2]
    BY <1>6, <1>7, <2>1, <2>3
  <2>4. CASE m[1] = c[1] /\ m[2] # c[2]
    <3>1. m[2] < c[2]
      BY <1>6, <1>11, <1>13, <2>1, <2>4
    <3>2. m \in Delivered
      BY <1>6, <1>9, <1>11, <2>1, <2>4, <3>1 DEF Delivered
    <3>3. ASSUME NEW i \in 1..Len(Pipe), Pipe[i] = m PROVE FALSE
      <4>1. i # 1
        BY <2>4, <3>3
      <4>2. c[2] < Pipe[i][2]
        BY <1>5, <2>4, <3>3, <4>1 DEF OrderInv, PipeInOrder
      <4> QED BY <1>6, <2>1, <3>1, <3>3, <4>2
    <3> QED BY <1>2, <3>2, <3>3 DEF OrderInv, NothingMissing, InPipe
  <2> QED BY <2>2, <2>3, <2>4
<1> HIDE DEF c
<1>14. PipeInOrder' /\ PipeDelivered'
  BY <1>2 DEF OrderInv, PipeInOrder, PipeDelivered
<1>15. PipeAhead'
  BY <1>2, <1>8, <1>12 DEF PipeAhead
<1>16. PositionAhead'
  BY <1>2, <1>8, <1>9, <1>11 DEF OrderInv, PositionAhead
<1>17. PendingNotBehind'
  BY <1>6, <1>8, <1>9, <1>11 DEF OrderInv, PendingNotBehind
<1>18. NothingMissing'
  BY <1>2, <1>8 DEF OrderInv, NothingMissing, Delivered, InPipe
<1>19. PendingSettled' /\ NothingSkipped'
  BY <1>8, <1>13 DEF OrderInv, PendingSettled, NothingSkipped
<1> QED BY <1>14, <1>15, <1>16, <1>17, <1>18, <1>19 DEF PipeInv

LEMMA FinishKeepsPipe ==
  ASSUME OrderInv, NumWorkers = 1, FinishMessage(0)
  PROVE  PipeInv'
<1>1. TypeOK /\ 0 \in Workers /\ WorkersTypeOK
  BY PipeParts DEF OrderInv, TypeOK
<1>2. pc[0] = "finish" /\ position' = position /\ pending' = pending /\ group' = group
  BY DEF FinishMessage, kafka, offsets
<1>3. /\ Len(Pipe) \in Nat /\ 1 <= Len(Pipe) /\ Len(Pipe') = Len(Pipe) - 1
      /\ \A i \in 1..Len(Pipe') : Pipe'[i] = Pipe[i + 1] /\ i + 1 \in 1..Len(Pipe) /\ i + 1 # 1
  BY <1>1, PipeElements, PipeOnFinishMessage DEF PipeCut, Cut
<1>4. Settled' = Settled
  BY DEF FinishMessage, outcomes, Settled
<1>5. Pipe[1] \in Settled
  <2>1. batch[0] \in Seq(Message) /\ batch[0] # <<>>
    BY <1>1, <1>2 DEF WorkersTypeOK, Working
  <2>2. 1 \in 1..Len(batch[0]) /\ Current(0) = batch[0][1]
    BY <2>1, EmptySeq DEF Current
  <2>3. Current(0) = Pipe[1]
    BY <1>1, <2>2, PipeLayout
  <2> QED BY <1>1, <1>2, <2>3 DEF OrderInv, FinishSettled
<1>6. PipeInOrder'
  <2>1. ASSUME NEW i \in 1..Len(Pipe'), NEW j \in 1..Len(Pipe'), i < j, Pipe'[i][1] = Pipe'[j][1]
        PROVE  Pipe'[i][2] < Pipe'[j][2]
    <3>1. i + 1 \in 1..Len(Pipe) /\ j + 1 \in 1..Len(Pipe) /\ i + 1 < j + 1
      BY <1>3, <2>1
    <3> QED BY <1>3, <2>1, <3>1 DEF OrderInv, PipeInOrder
  <2> QED BY <2>1 DEF PipeInOrder
<1>7. PipeDelivered' /\ PipeAhead'
  BY <1>2, <1>3 DEF OrderInv, PipeDelivered, PipeAhead
<1>8. PositionAhead' /\ PendingNotBehind' /\ PendingSettled' /\ NothingSkipped'
  BY <1>2, <1>4 DEF OrderInv, PositionAhead, PendingNotBehind, PendingSettled, NothingSkipped
<1>9. NothingMissing'
  <2> SUFFICES ASSUME NEW m \in Delivered', m \notin Settled
               PROVE  InPipe(m)'
    BY <1>4 DEF NothingMissing
  <2>1. m \in Delivered
    BY <1>2 DEF Delivered
  <2>2. PICK i \in 1..Len(Pipe) : Pipe[i] = m
    BY <1>2, <2>1 DEF OrderInv, NothingMissing, InPipe
  <2>3. i # 1
    BY <1>5, <2>2
  <2>4. i - 1 \in 1..Len(Pipe') /\ (i - 1) + 1 = i
    BY <1>3, <2>3
  <2>5. Pipe'[i - 1] = m
    BY <1>3, <2>2, <2>4
  <2> QED BY <2>4, <2>5 DEF InPipe
<1> QED BY <1>6, <1>7, <1>8, <1>9 DEF PipeInv

LEMMA CommitAdvances ==
  ASSUME OrderInv, CommitSucceeds \/ CommitFails
  PROVE  \A q \in Partitions :
           /\ group'[q] \in {group[q], pending[q] + 1} /\ group[q] <= group'[q]
           /\ group'[q] # group[q] => pending[q] # None
           /\ pending'[q] \in {pending[q], None} /\ pending'[q] <= pending[q]
           /\ pending'[q] # None => group'[q] <= pending[q] + 1
<1> SUFFICES ASSUME NEW q \in Partitions
             PROVE  /\ group'[q] \in {group[q], pending[q] + 1} /\ group[q] <= group'[q]
                    /\ group'[q] # group[q] => pending[q] # None
                    /\ pending'[q] \in {pending[q], None} /\ pending'[q] <= pending[q]
                    /\ pending'[q] # None => group'[q] <= pending[q] + 1
  OBVIOUS
<1>1. /\ pending[q] \in Int /\ pending[q] >= None /\ group[q] \in Nat
      /\ pending[q] # None => group[q] <= pending[q] + 1
  BY OffsetsAreNumbers DEF OrderInv, PendingNotBehind
<1>2. GroupAfterCommit[q] = IF pending[q] # None THEN pending[q] + 1 ELSE group[q]
  BY DEF GroupAfterCommit, Marked
<1>3. CASE CommitSucceeds
  <2>1. group'[q] = GroupAfterCommit[q] /\ pending'[q] = None
    BY <1>3 DEF CommitSucceeds
  <2> QED BY <1>1, <1>2, <2>1 DEF None
<1>4. CASE CommitFails
  <2>1. group'[q] \in {group[q], GroupAfterCommit[q]} /\ pending'[q] = pending[q]
    BY <1>4 DEF CommitFails
  <2> QED BY <1>1, <1>2, <2>1
<1> QED BY <1>3, <1>4
LEMMA RunKeepsPipe ==
  ASSUME OrderInv, NumWorkers = 1, RunStep
  PROVE  PipeInv'
<1>1. TypeOK /\ Pipe' = Pipe /\ position' = position /\ Settled' = Settled /\ pc' = pc
  BY RunFrame DEF OrderInv, Pipe, InHand, workers, queues, kafka, source, Settled
<1>2. \A i \in 1..Len(Pipe) : Pipe[i][1] \in Partitions /\ Pipe[i][2] \in Nat
  BY <1>1, PipeElements, PipelineAssumption DEF Offset
<1>3. \A q \in Partitions : pending[q] \in Int /\ group[q] \in Nat /\ position[q] \in Nat
  BY <1>1, OffsetsAreNumbers
<1>4. PipeInOrder' /\ PipeDelivered' /\ NothingMissing'
  BY <1>1 DEF OrderInv, PipeInOrder, PipeDelivered, NothingMissing, InPipe, Delivered
<1>5. CASE UNCHANGED offsets
  BY <1>1, <1>4, <1>5 DEF OrderInv, PipeInv, offsets, PipeAhead, PositionAhead, PendingNotBehind,
     PendingSettled, NothingSkipped
<1>6. CASE CommitSucceeds \/ CommitFails
  <2>1. \A q \in Partitions :
          /\ group'[q] \in {group[q], pending[q] + 1} /\ group[q] <= group'[q]
          /\ group'[q] # group[q] => pending[q] # None
          /\ pending'[q] \in {pending[q], None} /\ pending'[q] <= pending[q]
          /\ pending'[q] # None => group'[q] <= pending[q] + 1
    BY <1>6, CommitAdvances
  <2>2. ASSUME NEW q \in Partitions, NEW o \in Nat, pending[q] < o, group[q] <= o
        PROVE  pending'[q] < o /\ group'[q] <= o
    <3>1. pending[q] \in Int /\ pending'[q] <= pending[q] /\ pending'[q] \in {pending[q], None}
      BY <1>3, <2>1
    <3>2. group'[q] \in {group[q], pending[q] + 1}
      BY <2>1
    <3> QED BY <2>2, <3>1, <3>2 DEF None
  <2>3. PositionAhead'
    BY <1>1, <1>3, <2>1, <2>2 DEF OrderInv, PositionAhead
  <2>8. PipeAhead'
    BY <1>1, <1>2, <2>2 DEF OrderInv, PipeAhead
  <2>4. PendingNotBehind'
    BY <1>3, <2>1 DEF PendingNotBehind
  <2>5. ASSUME NEW m \in Message PROVE m[1] \in Partitions /\ m[2] \in Nat
    BY PipelineAssumption DEF Message, Offset
  <2>6. ASSUME NEW m \in Message
        PROVE  /\ m[2] <= pending'[m[1]] => m[2] <= pending[m[1]]
               /\ m[2] < group'[m[1]] => m[2] < group[m[1]] \/ m[2] <= pending[m[1]]
    <3> DEFINE q == m[1]
    <3>1. q \in Partitions /\ m[2] \in Nat
      BY <2>5
    <3> HIDE DEF q
    <3>2. pending[q] \in Int /\ pending'[q] <= pending[q] /\ pending'[q] \in {pending[q], None}
      BY <1>3, <2>1, <3>1
    <3>3. group'[q] \in {group[q], pending[q] + 1} /\ group[q] \in Nat
      BY <1>3, <2>1, <3>1
    <3>4. /\ m[2] <= pending'[q] => m[2] <= pending[q]
          /\ m[2] < group'[q] => m[2] < group[q] \/ m[2] <= pending[q]
      BY <3>1, <3>2, <3>3 DEF None
    <3> QED BY <3>4 DEF q
  <2>7. PendingSettled' /\ NothingSkipped'
    BY <1>1, <2>6 DEF OrderInv, PendingSettled, NothingSkipped
  <2> QED BY <1>4, <2>3, <2>4, <2>7, <2>8 DEF PipeInv
<1>7. CommitSucceeds \/ CommitFails \/ UNCHANGED offsets
  BY DEF RunStep, CommitTick, CommitOffsets, CommitterStops, CtrlC, DrainEnds, DrainDeadline,
     FinalCommit, Return
<1> QED BY <1>5, <1>6, <1>7

LEMMA CrashKeepsPipe ==
  ASSUME OrderInv, NumWorkers = 1, Crash
  PROVE  PipeInv'
<1>1. 0 \in Workers /\ TypeOK
  BY PipeParts DEF OrderInv
<1>2. batch'[0] = <<>> /\ main_queue' = <<>> /\ InHand' = <<>>
  BY <1>1 DEF Crash, InHand
<1>3. Pipe' = <<>>
  BY <1>2 DEF Pipe
<1>4. Len(Pipe') = 0
  BY <1>3
<1>5. 1..Len(Pipe') = {}
  BY <1>4
<1>6. PipeInOrder' /\ PipeDelivered' /\ PipeAhead'
  BY <1>5 DEF PipeInOrder, PipeDelivered, PipeAhead
<1>7. \A q \in Partitions : pending'[q] = None /\ group'[q] = group[q] /\ position'[q] = group[q]
  BY DEF Crash, OffsetsLost
<1>8. \A q \in Partitions : group[q] \in Nat
  BY <1>1, OffsetsAreNumbers
<1>9. PositionAhead' /\ PendingNotBehind'
  BY <1>7, <1>8 DEF PositionAhead, PendingNotBehind, None
<1>10. Settled' = Settled
  BY DEF Crash, Settled
<1>11. ASSUME NEW m \in Message PROVE m[1] \in Partitions /\ m[2] \in Nat
  BY PipelineAssumption DEF Message, Offset
<1>12. NothingSkipped'
  BY <1>7, <1>10, <1>11 DEF OrderInv, NothingSkipped
<1>13. NothingMissing'
  BY <1>7, <1>10, <1>11 DEF OrderInv, NothingSkipped, NothingMissing, Delivered
<1>14. PendingSettled'
  BY <1>7, <1>11 DEF PendingSettled, None
<1> QED BY <1>6, <1>9, <1>12, <1>13, <1>14 DEF PipeInv

LEMMA ShapeStep ==
  ASSUME OrderInv, NumWorkers = 1, [Next]_vars
  PROVE  OneWorkerShape'
<1>1. /\ TypeOK /\ OneWorkerShape /\ 0 \in Workers /\ Workers = {0} /\ WorkersTypeOK
  BY PipeParts DEF OrderInv, TypeOK
<1>2. CASE LoopStep
  <2>1. pc' = pc /\ batch' = batch /\ dist' = dist /\ run_pc' = run_pc
    BY <1>2, LoopFrame DEF workers, distributor, run
  <2>2. ASSUME NEW p \in Partitions, ReceiveAndPause(p) \/ Receive(p) PROVE OneWorkerShape'
    BY <1>1, <2>1, <2>2 DEF ReceiveAndPause, Receive, OneWorkerShape, AtLoopHead, queues, Shutdown
  <2>3. CASE LoopStops
    BY <1>1, <2>1, <2>3 DEF LoopStops, OneWorkerShape, queues, kafka
  <2>4. CASE LoopSends
    BY <1>1, <2>1, <2>4 DEF LoopSends, OneWorkerShape, MainReceiverGone
  <2>5. CASE LoopSendFails
    BY <1>1, <2>1, <2>5 DEF LoopSendFails, OneWorkerShape, queues
  <2> QED BY <1>2, <2>2, <2>3, <2>4, <2>5 DEF LoopStep
<1>3. ASSUME WorkerStep(0) PROVE OneWorkerShape'
  <2>1. dist' = dist /\ loop' = loop /\ loop_task' = loop_task /\ run_pc' = run_pc
    BY <1>3, <1>1, WorkerFrame DEF distributor, source, run
  <2>2. CASE WorkerFinishes(0)
    BY <1>1, <2>1, <2>2 DEF WorkerFinishes, OneWorkerShape, InboxClosed, MainClosed, WorkersTypeOK
  <2>3. CASE ~WorkerFinishes(0)
    <3>1. pc'[0] # "done" /\ pc'[0] # "dead"
      BY <1>1, <1>3, <2>3 DEF WorkerStep, WorkerReceives, StartBatch, Acquire, AcquireTimesOut,
         ProcessSucceeds, ProcessFails, Success, Failure, FinishMessage, WorkersTypeOK
    <3> QED BY <1>1, <2>1, <3>1 DEF OneWorkerShape
  <2> QED BY <2>2, <2>3
<1>4. ASSUME WorkerPanics(0) PROVE OneWorkerShape'
  BY <1>1, <1>4 DEF WorkerPanics, OneWorkerShape, distributor, source, run, WorkersTypeOK
<1>5. ~DistributorStep
  BY <1>1 DEF OneWorkerShape, DistributorStep, DistributorReceives, CircuitResets,
     DistributorSkips, DistributorSends, DistributorSendFails, DistributorDrops,
     DistributorFinishes
<1>6. CASE RunStep
  <2>1. UNCHANGED <<source, distributor, queues, workers>>
    BY <1>6, RunFrame
  <2>2. run_pc' = "returned" \/ run_pc # "returned"
    BY <1>6 DEF RunStep, CommitTick, CommitterStops, CtrlC, DrainEnds, DrainDeadline, FinalCommit,
       Return, run
  <2> QED BY <1>1, <2>1, <2>2 DEF OneWorkerShape, source, distributor, queues, workers
<1>7. CASE Crash
  BY <1>1, <1>7 DEF Crash, OneWorkerShape
<1>8. CASE UNCHANGED vars
  BY <1>1, <1>8 DEF vars, source, distributor, queues, workers, run, OneWorkerShape
<1> QED BY <1>1, <1>2, <1>3, <1>4, <1>5, <1>6, <1>7, <1>8 DEF Next

LEMMA PipeStep ==
  ASSUME OrderInv, NumWorkers = 1, [Next]_vars
  PROVE  PipeInv'
<1>1. /\ Workers = {0} /\ Settled \subseteq Settled'
      /\ TypeOK /\ OneWorkerShape
  BY PipeParts, SettledGrows DEF OrderInv
<1>2. CASE LoopStep
  <2>1. ASSUME NEW p \in Partitions, ReceiveAndPause(p) \/ Receive(p) PROVE PipeInv'
    BY <2>1, ReceiveKeepsPipe, ReceiveAndPauseKeepsPipe
  <2>2. CASE LoopStops \/ LoopSends \/ LoopSendFails
    BY <1>1, <2>2, MovesOfLoop, MovesKeepPipe
  <2> QED BY <1>2, <2>1, <2>2 DEF LoopStep
<1>3. ~DistributorStep
  BY <1>1 DEF OneWorkerShape, DistributorStep, DistributorReceives, CircuitResets,
     DistributorSkips, DistributorSends, DistributorSendFails, DistributorDrops,
     DistributorFinishes
<1>4. ASSUME WorkerStep(0) PROVE PipeInv'
  BY <1>1, <1>4, MovesOfWorker, MovesKeepPipe, SuccessKeepsPipe, FinishKeepsPipe
<1>5. ASSUME WorkerPanics(0) PROVE PipeInv'
  BY <1>1, <1>5, MovesOfPanic, MovesKeepPipe
<1>6. CASE RunStep
  BY <1>6, RunKeepsPipe
<1>7. CASE Crash
  BY <1>7, CrashKeepsPipe
<1>8. CASE UNCHANGED vars
  <2>1. Pipe' = Pipe
    BY <1>8 DEF Pipe, InHand, vars, workers, queues, source
  <2>2. PipeCut(0)
    BY <1>1, <2>1, PipeSame
  <2>3. Moves(0)
    BY <1>8, <2>2 DEF Moves, vars, workers, kafka
  <2> QED BY <1>1, <2>3, MovesKeepPipe
<1> QED BY <1>1, <1>2, <1>3, <1>4, <1>5, <1>6, <1>7, <1>8 DEF Next

LEMMA OrderInit ==
  ASSUME Init, NumWorkers = 1 PROVE OrderInv
<1>1. TypeOK /\ Workers = {0}
  BY TypeInit, PipeParts
<1>2. batch[0] = <<>> /\ main_queue = <<>> /\ InHand = <<>> /\ pc[0] = "idle"
  BY <1>1 DEF Init, InHand
<1>3. Pipe = <<>>
  BY <1>2 DEF Pipe
<1>4. 1..Len(Pipe) = {}
  BY <1>3
<1>5. OneWorkerShape /\ FinishSettled
  BY <1>1, <1>2 DEF Init, OneWorkerShape, FinishSettled
<1>6. PipeInOrder /\ PipeDelivered /\ PipeAhead
  BY <1>4 DEF PipeInOrder, PipeDelivered, PipeAhead
<1>7. \A q \in Partitions : pending[q] = None /\ group[q] = 0 /\ position[q] = 0
  BY DEF Init, OffsetsInit
<1>8. ASSUME NEW m \in Message PROVE m[1] \in Partitions /\ m[2] \in Nat
  BY PipelineAssumption DEF Message, Offset
<1>9. PositionAhead /\ PendingNotBehind
  BY <1>7 DEF PositionAhead, PendingNotBehind, None
<1>10. NothingMissing /\ PendingSettled /\ NothingSkipped
  BY <1>7, <1>8 DEF NothingMissing, Delivered, PendingSettled, NothingSkipped, None
<1> QED BY <1>1, <1>5, <1>6, <1>9, <1>10 DEF OrderInv

LEMMA OrderInvariant ==
  ASSUME NumWorkers = 1 PROVE Spec => []OrderInv
<1>1. Init => OrderInv
  BY OrderInit
<1>2. OrderInv /\ [Next]_vars => OrderInv'
  <2> SUFFICES ASSUME OrderInv, [Next]_vars PROVE OrderInv'
    OBVIOUS
  <2>1. TypeOK' /\ OneWorkerShape' /\ PipeInv' /\ FinishSettled'
    BY TypeStep, ShapeStep, PipeStep, FinishSettledStep DEF OrderInv
  <2> QED BY <2>1 DEF OrderInv, PipeInv
<1> QED BY <1>1, <1>2, PTL DEF Spec

(* A consumer with one worker, with or without batches, implements           *)
(* InOrderCommit: through panics, failing commits and restarts the group     *)
(* moves forward only, and only over messages that are settled.              *)
THEOREM OneWorkerCommitsInOrder ==
  ASSUME NumWorkers = 1 PROVE Spec => CommitsInOrder
<1>1. Init => IOC!Init
  BY DEF Init, OffsetsInit, Settled, IOC!Init
<1>2. OrderInv /\ OrderInv' /\ [Next]_vars
        => [IOC!Settle \/ IOC!Advance]_<<group, Settled>>
  <2> SUFFICES ASSUME OrderInv, OrderInv', [Next]_vars
               PROVE  IOC!Settle \/ IOC!Advance \/ UNCHANGED <<group, Settled>>
    OBVIOUS
  <2>1. Settled \subseteq Settled' /\ Settled' \subseteq IOC!Message
    BY SettledGrows DEF OrderInv, TypeOK, OutcomesTypeOK, Settled, IOC!Message, Message, Offset
  <2>2. CASE group' = group
    BY <2>1, <2>2 DEF IOC!Settle
  <2>3. CASE (CommitSucceeds \/ CommitFails) /\ Settled' = Settled
    <3>1. group' \in [Partitions -> 0..LogEnd]
      BY DEF OrderInv, TypeOK, OffsetsTypeOK
    <3>2. ASSUME NEW p \in Partitions
          PROVE  /\ group'[p] >= group[p]
                 /\ \A o \in 0..(group'[p] - 1) : <<p, o>> \in Settled
      <4>1. group'[p] >= group[p] /\ group'[p] \in 0..LogEnd /\ LogEnd \in Nat
        <5>1. group'[p] \in 0..LogEnd /\ LogEnd \in Nat
          BY <3>1, PipelineAssumption
        <5>2. group[p] <= group'[p] /\ group[p] \in Nat
          BY <2>3, CommitAdvances, OffsetsAreNumbers DEF OrderInv
        <5> QED BY <5>1, <5>2
      <4>2. ASSUME NEW o \in 0..(group'[p] - 1) PROVE <<p, o>> \in Settled
        <5>1. <<p, o>> \in Message /\ o < group'[p]
          BY <4>1 DEF Message, Offset
        <5> QED BY <2>3, <5>1 DEF OrderInv, NothingSkipped
      <4> QED BY <4>1, <4>2
    <3> QED BY <2>3, <3>1, <3>2 DEF IOC!Advance
  <2>4. \/ group' = group
        \/ (CommitSucceeds \/ CommitFails) /\ Settled' = Settled
    <3>1. CASE LoopStep \/ DistributorStep
      BY <3>1, LoopFrame, DistributorFrame DEF offsets
    <3>2. ASSUME NEW w \in Workers, WorkerStep(w) PROVE group' = group
      BY <3>2, WorkerFrame
    <3>3. CASE RunStep
      <4>1. Settled' = Settled
        BY <3>3, RunFrame DEF Settled
      <4> QED BY <3>3, <4>1 DEF RunStep, CommitTick, CommitOffsets, CommitterStops, CtrlC,
              DrainEnds, DrainDeadline, FinalCommit, Return, offsets
    <3>4. ASSUME NEW w \in Workers, WorkerPanics(w) PROVE group' = group
      BY <3>4 DEF WorkerPanics, offsets
    <3>5. CASE Crash \/ UNCHANGED vars
      BY <3>5 DEF Crash, OffsetsLost, vars, offsets
    <3> QED BY <3>1, <3>2, <3>3, <3>4, <3>5 DEF Next
  <2> QED BY <2>2, <2>3, <2>4
<1> QED BY <1>1, <1>2, OrderInvariant, PTL DEF Spec, CommitsInOrder, IOC!Spec

(* With one worker the group never stands behind a message that is still on  *)
(* its way: a restart, which reads on from there, skips nothing.             *)
THEOREM OneWorkerSkipsNothing ==
  ASSUME NumWorkers = 1 PROVE Spec => []NothingSkipped
<1>1. OrderInv => NothingSkipped
  BY DEF OrderInv
<1> QED BY <1>1, OrderInvariant, PTL
------------------------------------------------------------------------------
(* The final commit covers what had succeeded when the drain ended.  With one *)
(* worker that takes one message at a time the in-flight count is exact, so   *)
(* that the drain ends between two messages: every message that succeeded is  *)
(* then marked or committed, and the order of the marks keeps it so.  With    *)
(* batches or several workers the count is not exact and the invariant fails. *)

OneAtATime ==
  /\ pc[0] \in Working => Len(batch[0]) = 1
  /\ pc[0] \notin Working => batch[0] = <<>>
  /\ pc[0] \in {"idle", "acquire", "done"} => permits[0] = 0
  /\ inflight_messages = IF pc[0] \in {"idle", "done"} THEN 0 ELSE 1
Covered(m) == m[2] < group[m[1]] \/ m[2] <= pending[m[1]]
HandledCovered ==
  pc[0] # "dead" =>
    \A m \in handled : Covered(m) \/ (pc[0] = "success" /\ m = Current(0))
OwedCovered == \A m \in owed : Covered(m)

DrainInv == OrderInv /\ OneAtATime /\ HandledCovered /\ OwedCovered /\ FinalCommitCovers

LEMMA CountOfOne == Add(0, 0 + 1) = 1 /\ Sub(1, 1) = 0 /\ Sub(1, 1 - 0) = 0
<1>1. UsizeMod \in Nat /\ UsizeMod > 1
  BY PipelineAssumption
<1>2. 0 % UsizeMod = 0 /\ 1 % UsizeMod = 1
  BY <1>1
<1> QED BY <1>2 DEF Add, Sub

LEMMA OneAtATimeStep ==
  ASSUME DrainInv, NumWorkers = 1, BatchLimit = 1, [Next]_vars
  PROVE  OneAtATime'
<1>1. /\ TypeOK /\ OneWorkerShape /\ OneAtATime /\ 0 \in Workers /\ Workers = {0} /\ WorkersTypeOK
  BY PipeParts DEF DrainInv, OrderInv, TypeOK
<1>2. CASE UNCHANGED <<workers, inflight_messages>>
  BY <1>1, <1>2 DEF workers, OneAtATime
<1>3. ASSUME WorkerStep(0) PROVE OneAtATime'
  <2> USE DEF OneAtATime, Working
  <2>1. CASE WorkerReceives(0)
    <3>1. pc[0] = "idle" /\ batch[0] = <<>> /\ inflight_messages = 0 /\ permits[0] = 0
      BY <1>1, <2>1 DEF WorkerReceives
    <3>2. Len(batch[0]) = 0 /\ Len(Append(batch[0], Head(Inbox(0)))) = 1
      BY <3>1
    <3>3. batch'[0] = Append(batch[0], Head(Inbox(0))) /\ permits' = permits
      BY <1>1, <2>1 DEF WorkerReceives, WorkersTypeOK
    <3>4. pc'[0] = "acquire" /\ inflight_messages' = Add(inflight_messages, 0 + 1)
      BY <1>1, <2>1, <3>2 DEF WorkerReceives, WorkersTypeOK
    <3> QED BY <3>1, <3>2, <3>3, <3>4, CountOfOne
  <2>2. ~StartBatch(0)
    BY <1>1 DEF StartBatch
  <2>3. CASE WorkerFinishes(0)
    BY <1>1, <2>3 DEF WorkerFinishes, WorkersTypeOK
  <2>4. CASE Acquire(0)
    <3>1. permits[0] + 1 = Len(batch[0])
      <4>1. permits[0] = 0 /\ Len(batch[0]) = 1
        BY <1>1, <2>4 DEF Acquire
      <4> QED BY <4>1
    <3>2. pc[0] = "acquire" /\ pc'[0] = "process" /\ batch' = batch
      BY <1>1, <2>4, <3>1 DEF Acquire, WorkersTypeOK
    <3> QED BY <1>1, <2>4, <3>2 DEF Acquire
  <2>5. CASE AcquireTimesOut(0)
    <3>1. /\ pc[0] = "acquire" /\ permits[0] = 0 /\ Len(batch[0]) = 1 /\ inflight_messages = 1
      BY <1>1, <2>5 DEF AcquireTimesOut
    <3>2. /\ pc'[0] = "idle" /\ batch'[0] = <<>> /\ permits' = permits
          /\ inflight_messages' = Sub(1, 1 - 0)
      BY <1>1, <2>5, <3>1 DEF AcquireTimesOut, WorkersTypeOK
    <3> QED BY <3>1, <3>2, CountOfOne
  <2>6. CASE ProcessSucceeds(0) \/ ProcessFails(0) \/ Success(0) \/ Failure(0)
    <3>1. pc[0] \in {"process", "success", "failure"}
      BY <2>6 DEF ProcessSucceeds, ProcessFails, Success, Failure
    <3>2. /\ pc'[0] \in {"success", "failure", "finish"} /\ batch' = batch
          /\ inflight_messages' = inflight_messages
      BY <1>1, <2>6 DEF ProcessSucceeds, ProcessFails, Success, Failure, WorkersTypeOK
    <3> QED BY <1>1, <3>1, <3>2
  <2>7. CASE FinishMessage(0)
    <3>1. Len(batch[0]) = 1 /\ inflight_messages = 1
      BY <1>1, <2>7 DEF FinishMessage
    <3>2. /\ pc'[0] = "idle" /\ batch'[0] = Tail(batch[0]) /\ permits'[0] = 0
          /\ inflight_messages' = Sub(1, 1)
      BY <1>1, <2>7, <3>1 DEF FinishMessage, WorkersTypeOK
    <3>3. Tail(batch[0]) = <<>>
      <4>1. batch[0] \in Seq(Message) /\ batch[0] # <<>>
        BY <1>1, <3>1 DEF WorkersTypeOK
      <4>2. Tail(batch[0]) \in Seq(Message) /\ Len(Tail(batch[0])) = 0
        BY <3>1, <4>1, HeadTailProperties
      <4> QED BY <4>2, EmptySeq
    <3> QED BY <3>2, <3>3, CountOfOne
  <2> QED BY <1>3, <2>1, <2>2, <2>3, <2>4, <2>5, <2>6, <2>7 DEF WorkerStep
<1>4. ASSUME WorkerPanics(0) PROVE OneAtATime'
  BY <1>1, <1>4 DEF WorkerPanics, OneAtATime, Working, WorkersTypeOK
<1>5. ~DistributorStep
  BY <1>1 DEF OneWorkerShape, DistributorStep, DistributorReceives, CircuitResets,
     DistributorSkips, DistributorSends, DistributorSendFails, DistributorDrops,
     DistributorFinishes
<1>6. CASE Crash
  BY <1>1, <1>6 DEF Crash, OneAtATime, Working
<1> QED BY <1>1, <1>2, <1>3, <1>4, <1>5, <1>6, LoopFrame, RunFrame DEF Next, vars

(* What is covered stays covered: a mark replaces a lower one, and a commit  *)
(* raises the position of the group above what was marked.                   *)
LEMMA CoveredStep ==
  ASSUME OrderInv, NumWorkers = 1, [Next]_vars, NEW m \in Message, Covered(m)
  PROVE  Crash \/ Covered(m)'
<1> DEFINE q == m[1]
<1>1. q \in Partitions /\ m[2] \in Nat
  BY PipelineAssumption DEF Message, Offset
<1>2. /\ pending[q] \in Int /\ group[q] \in Nat
      /\ TypeOK /\ Workers = {0} /\ 0 \in Workers
  BY <1>1, OffsetsAreNumbers, PipeParts DEF OrderInv
<1>3. CASE UNCHANGED offsets
  BY <1>3 DEF offsets, Covered
<1>4. CASE CommitSucceeds \/ CommitFails
  <2>1. /\ group[q] <= group'[q] /\ group'[q] \in Nat
        /\ pending'[q] = pending[q] \/ pending[q] = None \/ group'[q] = pending[q] + 1
    <3>1. group[q] <= group'[q] /\ group'[q] \in {group[q], pending[q] + 1}
      BY <1>1, <1>4, CommitAdvances
    <3>2. CommitSucceeds => pending[q] = None \/ group'[q] = pending[q] + 1
      BY <1>1 DEF CommitSucceeds, GroupAfterCommit, Marked
    <3>3. CommitFails => pending'[q] = pending[q]
      BY DEF CommitFails
    <3> QED BY <1>2, <1>4, <3>1, <3>2, <3>3
  <2> HIDE DEF q
  <2>2. m[2] < group[q] \/ m[2] <= pending[q]
    BY DEF Covered, q
  <2>3. m[2] < group'[q] \/ m[2] <= pending'[q]
    BY <1>1, <1>2, <2>1, <2>2 DEF None
  <2> QED BY <2>3 DEF Covered, q
<1>5. CASE Success(0)
  <2>1. /\ pc[0] = "success" /\ batch[0] \in Seq(Message) /\ batch[0] # <<>>
    BY <1>2, <1>5 DEF Success, TypeOK, WorkersTypeOK, Working
  <2>2. 1 \in 1..Len(batch[0]) /\ Current(0) = batch[0][1]
    BY <2>1, EmptySeq DEF Current
  <2>3. Current(0) = Pipe[1] /\ 1 \in 1..Len(Pipe)
    BY <1>2, <2>2, PipeLayout, SMTT(60)
  <2>4. /\ Current(0)[1] \in Partitions /\ Current(0)[2] \in Nat
        /\ pending[Current(0)[1]] < Current(0)[2]
    BY <1>2, <2>1, <2>3, PipeElements, PipelineAssumption DEF OrderInv, PipeAhead, Offset
  <2>5. group' = group /\ pending' = [pending EXCEPT ![Current(0)[1]] = Current(0)[2]]
    BY <1>5 DEF Success, MarkOffset
  <2>6. pending'[q] \in Int /\ pending[q] <= pending'[q]
    <3>1. pending \in [Partitions -> Offset \cup {None}]
      BY <1>2 DEF TypeOK, OffsetsTypeOK
    <3> QED BY <1>1, <1>2, <2>4, <2>5, <3>1
  <2> QED BY <1>1, <1>2, <2>5, <2>6 DEF Covered
<1>6. ASSUME WorkerStep(0) PROVE Success(0) \/ UNCHANGED offsets
  BY <1>6 DEF WorkerStep, WorkerReceives, StartBatch, WorkerFinishes, Acquire, AcquireTimesOut,
     ProcessSucceeds, ProcessFails, Failure, FinishMessage
<1>7. RunStep => CommitSucceeds \/ CommitFails \/ UNCHANGED offsets
  BY DEF RunStep, CommitTick, CommitOffsets, CommitterStops, CtrlC, DrainEnds, DrainDeadline,
     FinalCommit, Return
<1>8. ASSUME WorkerPanics(0) PROVE UNCHANGED offsets
  BY <1>8 DEF WorkerPanics
<1> QED BY <1>2, <1>3, <1>4, <1>5, <1>6, <1>7, <1>8, LoopFrame, DistributorFrame DEF Next, vars

LEMMA HandledStep ==
  ASSUME DrainInv, NumWorkers = 1, [Next]_vars
  PROVE  HandledCovered'
<1> SUFFICES ASSUME ~Crash, pc'[0] # "dead", NEW m \in handled', ~Covered(m)'
             PROVE  pc'[0] = "success" /\ m = Current(0)'
  BY DEF Crash, HandledCovered
<1>1. /\ TypeOK /\ 0 \in Workers /\ Workers = {0} /\ WorkersTypeOK /\ HandledCovered /\ OrderInv
      /\ handled \subseteq Message
  BY PipeParts DEF DrainInv, OrderInv, TypeOK, OutcomesTypeOK
<1>2. ASSUME m \in handled PROVE ~Covered(m)
  BY <1>1, <1>2, CoveredStep
<1>3. CASE UNCHANGED <<workers, handled>>
  BY <1>1, <1>2, <1>3 DEF workers, HandledCovered, Current
<1>4. ASSUME WorkerStep(0) PROVE pc'[0] = "success" /\ m = Current(0)'
  <2>1. CASE ProcessSucceeds(0)
    <3>1. pc[0] = "process" /\ pc'[0] = "success" /\ Current(0)' = Current(0)
      BY <1>1, <2>1 DEF ProcessSucceeds, WorkersTypeOK, Current
    <3> QED BY <1>1, <1>2, <2>1, <3>1 DEF ProcessSucceeds, HandledCovered
  <2>2. CASE Success(0)
    <3>1. /\ pc[0] = "success" /\ m \in handled
      BY <2>2 DEF Success, outcomes
    <3>2. m = Current(0)
      BY <1>1, <1>2, <3>1 DEF HandledCovered
    <3>3. /\ pending' = [pending EXCEPT ![m[1]] = m[2]] /\ m \in Message
      BY <1>1, <2>2, <3>1, <3>2 DEF Success, MarkOffset
    <3>4. m[1] \in Partitions /\ m[2] \in Nat /\ pending \in [Partitions -> Offset \cup {None}]
      BY <1>1, <3>3, PipelineAssumption DEF Message, Offset, TypeOK, OffsetsTypeOK
    <3>5. pending'[m[1]] = m[2]
      BY <3>3, <3>4
    <3> QED BY <3>4, <3>5 DEF Covered
  <2>3. CASE ~ProcessSucceeds(0) /\ ~Success(0)
    <3>1. pc[0] # "success" /\ pc[0] # "dead" /\ handled' = handled
      BY <1>4, <2>3 DEF WorkerStep, WorkerReceives, StartBatch, WorkerFinishes, Acquire,
         AcquireTimesOut, ProcessFails, Failure, FinishMessage, outcomes
    <3> QED BY <1>1, <1>2, <3>1 DEF HandledCovered
  <2> QED BY <2>1, <2>2, <2>3
<1>5. ASSUME WorkerPanics(0) PROVE FALSE
  BY <1>1, <1>5 DEF WorkerPanics, WorkersTypeOK
<1>6. CASE DistributorStep \/ RunStep \/ LoopStep
  BY <1>3, <1>6, DistributorFrame, RunFrame, LoopFrame DEF outcomes
<1>7. CASE UNCHANGED vars
  BY <1>3, <1>7 DEF vars, outcomes
<1> QED BY <1>1, <1>4, <1>5, <1>6, <1>7 DEF Next

LEMMA OwedStep ==
  ASSUME DrainInv, NumWorkers = 1, [Next]_vars
  PROVE  OwedCovered' /\ FinalCommitCovers'
<1>1. /\ TypeOK /\ OrderInv /\ OwedCovered /\ FinalCommitCovers /\ handled \subseteq Message
      /\ owed \subseteq Message
  BY DEF DrainInv, OrderInv, TypeOK, OutcomesTypeOK
<1>2. CASE Crash
  BY <1>2 DEF Crash, OwedCovered, FinalCommitCovers
<1>3. CASE ~Crash /\ owed' = owed /\ run_pc' = run_pc
  <2>1. OwedCovered'
    BY <1>1, <1>3, CoveredStep DEF OwedCovered
  <2>2. ASSUME NEW m \in owed, m[2] < group[m[1]] PROVE m[2] < group'[m[1]]
    <3>1. m[1] \in Partitions /\ m[2] \in Nat
      BY <1>1, PipelineAssumption DEF Message, Offset
    <3>2. group[m[1]] \in Nat /\ group'[m[1]] \in Nat
      BY <1>1, <3>1, TypeStep, OffsetsTypes, PipelineAssumption DEF TypeOK, OffsetsTypeOK
    <3>3. group[m[1]] <= group'[m[1]]
      <4>1. RunStep => CommitSucceeds \/ CommitFails \/ UNCHANGED offsets
        BY DEF RunStep, CommitTick, CommitOffsets, CommitterStops, CtrlC, DrainEnds,
           DrainDeadline, FinalCommit, Return
      <4>2. CASE CommitSucceeds \/ CommitFails
        BY <1>1, <3>1, <4>2, CommitAdvances
      <4>3. CASE group' = group
        BY <3>2, <4>3
      <4>4. ASSUME NEW w \in Workers, WorkerPanics(w) PROVE group' = group
        BY <4>4 DEF WorkerPanics, offsets
      <4> QED BY <1>3, <4>1, <4>2, <4>3, <4>4, LoopFrame, DistributorFrame, WorkerFrame
              DEF Next, vars, offsets
    <3> QED BY <2>2, <3>1, <3>2, <3>3
  <2> QED BY <1>1, <1>3, <2>1, <2>2 DEF FinalCommitCovers
<1>4. CASE RunStep
  <2>1. CASE DrainEnds
    <3>1. run_pc' = "committing" /\ owed' = handled /\ UNCHANGED offsets /\ inflight_messages = 0
      BY <2>1 DEF DrainEnds
    <3>2. pc[0] # "dead" /\ pc[0] # "success"
      BY <3>1 DEF DrainInv, OneAtATime
    <3>3. OwedCovered'
      BY <3>1, <3>2 DEF DrainInv, HandledCovered, OwedCovered, Covered, offsets
    <3> QED BY <3>1, <3>3 DEF FinalCommitCovers
  <2>2. CASE FinalCommit
    <3>1. CASE CommitSucceeds /\ owed' = owed
      <4>1. ASSUME NEW m \in owed PROVE m[2] < group'[m[1]]
        <5>1. m[1] \in Partitions /\ m[2] \in Nat /\ Covered(m)
          BY <1>1, PipelineAssumption DEF Message, Offset, OwedCovered
        <5>2. /\ group'[m[1]] = IF pending[m[1]] # None THEN pending[m[1]] + 1 ELSE group[m[1]]
              /\ group[m[1]] <= group'[m[1]]
          BY <1>1, <3>1, <5>1, CommitAdvances DEF CommitSucceeds, GroupAfterCommit, Marked
        <5>3. group[m[1]] \in Nat /\ pending[m[1]] \in Int
          BY <1>1, <5>1, OffsetsAreNumbers
        <5> QED BY <5>1, <5>2, <5>3 DEF Covered, None
      <4> QED BY <3>1, <4>1 DEF OwedCovered, FinalCommitCovers, Covered
    <3>2. CASE owed' = {}
      BY <3>2 DEF OwedCovered, FinalCommitCovers
    <3> QED BY <2>2, <3>1, <3>2 DEF FinalCommit
  <2>3. CASE DrainDeadline
    <3>1. run_pc' = "committing" /\ owed' = owed /\ UNCHANGED offsets
      BY <2>3 DEF DrainDeadline, outcomes
    <3> QED BY <1>1, <3>1 DEF OwedCovered, Covered, FinalCommitCovers, offsets
  <2>4. CASE Return \/ CtrlC
    <3>1. /\ owed' = owed /\ UNCHANGED offsets
          /\ run_pc' \in {"joining", "returned"} => run_pc \in {"joining", "returned"}
      BY <2>4 DEF Return, CtrlC, outcomes
    <3> QED BY <1>1, <3>1 DEF OwedCovered, Covered, FinalCommitCovers, offsets
  <2>5. CASE CommitTick \/ CommitterStops
    <3>1. owed' = owed /\ run_pc' = run_pc
      BY <2>5 DEF CommitTick, CommitterStops, run, outcomes
    <3> QED BY <1>2, <1>3, <3>1
  <2> QED BY <1>4, <2>1, <2>2, <2>3, <2>4, <2>5 DEF RunStep
<1>5. ASSUME NEW w \in Workers, WorkerPanics(w) PROVE owed' = owed /\ run_pc' = run_pc
  BY <1>5 DEF WorkerPanics, outcomes, run
<1>6. CASE LoopStep \/ DistributorStep
  BY <1>2, <1>3, <1>6, LoopFrame, DistributorFrame DEF outcomes, run
<1>7. CASE UNCHANGED vars
  BY <1>2, <1>3, <1>7 DEF vars, outcomes, run
<1>8. ASSUME NEW w \in Workers, WorkerStep(w) PROVE owed' = owed /\ run_pc' = run_pc
  BY <1>8, WorkerFrame DEF run
<1> QED BY <1>2, <1>3, <1>4, <1>5, <1>6, <1>7, <1>8 DEF Next

(* One worker, one message at a time: when the final commit has succeeded,   *)
(* the group stands behind every message that had succeeded when the drain   *)
(* saw nothing in flight, though the worker goes on, marks and panics while  *)
(* the drain, the committer and the final commit take their turns.           *)
THEOREM FinalCommitCoversOwed ==
  ASSUME NumWorkers = 1, BatchLimit = 1 PROVE Spec => []FinalCommitCovers
<1>1. Init => DrainInv
  <2> SUFFICES ASSUME Init PROVE DrainInv
    OBVIOUS
  <2>1. OrderInv /\ 0 \in Workers
    BY OrderInit, PipeParts DEF OrderInv
  <2> QED BY <2>1 DEF Init, DrainInv, OneAtATime, Working, HandledCovered, OwedCovered,
             FinalCommitCovers
<1>2. DrainInv /\ OrderInv' /\ [Next]_vars => DrainInv'
  BY OneAtATimeStep, HandledStep, OwedStep DEF DrainInv
<1>3. DrainInv => FinalCommitCovers
  BY DEF DrainInv
<1> QED BY <1>1, <1>2, <1>3, OrderInvariant, PTL DEF Spec
------------------------------------------------------------------------------
(* Losses are bounded.  While the process is not restarted, the messages that *)
(* are delivered, not on their way and not settled are those that a panic     *)
(* took with it.  The invariant says where the consumer gives a task up       *)
(* without recording it, and that no worker is alive then.                    *)

Alive == \E w \in Workers : pc[w] # "dead"
Lost == Delivered \ (InTransit \cup Settled)

HandsEmpty ==
  /\ loop # "send" => loop_task = NoTask
  /\ dist # "send" => dist_task = NoTask
WithinLimits ==
  \A w \in Workers :
    /\ Len(batch[w]) <= BatchLimit /\ Len(worker_queue[w]) <= WorkerCap
    /\ pc[w] = "idle" => Len(batch[w]) < BatchLimit
OpenIsDead == \A w \in Workers : circuit_open[w] => pc[w] = "dead"
TriedIsDead ==
  dist = "send" => \A k \in 0..(attempts - 1) : pc[(current_worker + k) % NumWorkers] = "dead"
EndedIsStopped ==
  /\ NumWorkers = 1 => (pc[0] = "done" => loop = "stopped")
  /\ dist = "exited" => loop = "stopped" \/ ~Alive
LossCounted ==
  Alive => /\ IsFiniteSet(Lost)
           /\ Cardinality(Lost) <= panics * (WorkerCap + BatchLimit)

LossInv ==
  /\ TypeOK /\ FinishSettled
  /\ HandsEmpty /\ WithinLimits /\ OpenIsDead /\ TriedIsDead /\ EndedIsStopped /\ LossCounted

LEMMA RangeOfAppend ==
  ASSUME NEW S, NEW s \in Seq(S), NEW e \in S
  PROVE  Range(Append(s, e)) = Range(s) \cup {e}
<1>1. /\ Len(s) \in Nat /\ Append(s, e) \in Seq(S) /\ Len(Append(s, e)) = Len(s) + 1
      /\ \A i \in 1..Len(s) : Append(s, e)[i] = s[i]
      /\ Append(s, e)[Len(s) + 1] = e
  BY AppendProperties
<1>2. Range(s) = {s[i] : i \in 1..Len(s)}
  BY RangeEquality
<1>3. Range(Append(s, e)) = {Append(s, e)[i] : i \in 1..(Len(s) + 1)}
  BY <1>1, RangeEquality
<1>4. 1..(Len(s) + 1) = (1..Len(s)) \cup {Len(s) + 1}
  BY <1>1
<1> QED BY <1>1, <1>2, <1>3, <1>4

LEMMA RangeOfTail ==
  ASSUME NEW S, NEW s \in Seq(S), s # <<>>
  PROVE  Range(s) = {Head(s)} \cup Range(Tail(s))
<1>1. /\ Len(s) \in Nat \ {0} /\ Tail(s) \in Seq(S) /\ Len(Tail(s)) = Len(s) - 1
      /\ \A i \in 1..Len(Tail(s)) : Tail(s)[i] = s[i + 1]
  BY HeadTailProperties, EmptySeq
<1>2. Range(s) = {s[i] : i \in 1..Len(s)} /\ Range(Tail(s)) = {Tail(s)[i] : i \in 1..Len(Tail(s))}
  BY <1>1, RangeEquality
<1>3. Head(s) = s[1]
  OBVIOUS
<1>4. ASSUME NEW x \in Range(s) PROVE x = Head(s) \/ x \in Range(Tail(s))
  <2>1. PICK i \in 1..Len(s) : x = s[i]
    BY <1>2, <1>4
  <2>2. CASE i # 1
    <3>1. i - 1 \in 1..Len(Tail(s)) /\ (i - 1) + 1 = i
      BY <1>1, <2>2
    <3>2. x = Tail(s)[i - 1]
      BY <1>1, <2>1, <3>1
    <3> QED BY <1>2, <3>1, <3>2
  <2> QED BY <1>3, <2>1, <2>2
<1>5. Head(s) \in Range(s)
  <2>1. 1 \in 1..Len(s)
    BY <1>1
  <2> QED BY <1>2, <1>3, <2>1
<1>6. Range(Tail(s)) \subseteq Range(s)
  <2>1. \A i \in 1..Len(Tail(s)) : i + 1 \in 1..Len(s)
    BY <1>1
  <2> QED BY <1>1, <1>2, <2>1
<1> QED BY <1>4, <1>5, <1>6

LEMMA RangeIsSmall ==
  ASSUME NEW S, NEW s \in Seq(S)
  PROVE  IsFiniteSet(Range(s)) /\ Cardinality(Range(s)) <= Len(s)
<1>1. Len(s) \in Nat /\ s \in [1..Len(s) -> S]
  BY LenProperties
<1>2. Range(s) = {s[i] : i \in 1..Len(s)}
  BY RangeEquality
<1>3. s \in Surjection(1..Len(s), Range(s))
  BY <1>1, <1>2 DEF Surjection
<1>4. ExistsSurjection(1..Len(s), Range(s))
  BY <1>3 DEF ExistsSurjection
<1> QED BY <1>1, <1>4, FS_SurjCardinalityBound, FS_NatSurjection

LEMMA Rotation ==
  ASSUME NEW n \in Nat \ {0}, NEW c \in 0..(n - 1), NEW w \in 0..(n - 1)
  PROVE  \E k \in 0..(n - 1) : (c + k) % n = w
<1>1. CASE w >= c
  <2>1. w - c \in 0..(n - 1) /\ c + (w - c) = w
    BY <1>1
  <2>2. w % n = w
    OBVIOUS
  <2> QED BY <2>1, <2>2
<1>2. CASE w < c
  <2>1. (w - c) + n \in 0..(n - 1) /\ c + ((w - c) + n) = w + n
    BY <1>2
  <2>2. (w + n) % n = w
    OBVIOUS
  <2> QED BY <2>1, <2>2
<1> QED BY <1>1, <1>2

LEMMA TransitMembers ==
  ASSUME NEW m \in Message
  PROVE  m \in InTransit <=>
           \/ m = loop_task \/ m = dist_task \/ m \in Range(main_queue)
           \/ \E w \in Workers : m \in Range(worker_queue[w]) \/ m \in Range(batch[w])
BY NoTaskIsNoMessage DEF InTransit

LEMMA TransitMembersNext ==
  ASSUME NEW m \in Message
  PROVE  m \in InTransit' <=>
           \/ m = loop_task' \/ m = dist_task' \/ m \in Range(main_queue')
           \/ \E w \in Workers : m \in Range(worker_queue'[w]) \/ m \in Range(batch'[w])
BY NoTaskIsNoMessage DEF InTransit
LEMMA DeadStays ==
  ASSUME TypeOK, [Next]_vars, ~Crash, NEW v \in Workers, pc[v] = "dead"
  PROVE  pc'[v] = "dead"
<1>1. WorkersTypeOK
  BY DEF TypeOK
<1>2. CASE UNCHANGED workers
  BY <1>2 DEF workers
<1>3. ASSUME NEW w \in Workers, WorkerStep(w) PROVE pc'[v] = "dead"
  BY <1>1, <1>3 DEF WorkerStep, WorkerReceives, StartBatch, WorkerFinishes, Acquire,
     AcquireTimesOut, ProcessSucceeds, ProcessFails, Success, Failure, FinishMessage,
     WorkersTypeOK, workers
<1>4. ASSUME NEW w \in Workers, WorkerPanics(w) PROVE pc'[v] = "dead"
  BY <1>1, <1>4 DEF WorkerPanics, WorkersTypeOK
<1> QED BY <1>2, <1>3, <1>4, LoopFrame, DistributorFrame, RunFrame DEF Next, vars

LEMMA LimitsAreNumbers ==
  /\ NumWorkers \in Nat \ {0} /\ BatchLimit \in Nat \ {0} /\ WorkerCap \in Nat
  /\ WorkerCap + BatchLimit \in Nat
<1>1. /\ NumWorkers \in Nat \ {0} /\ BatchSize \in Nat \ {0} /\ ChannelBuffer \in Nat
      /\ EnableBatching \in BOOLEAN
  BY PipelineAssumption
<1>2. WorkerCap \in Nat
  BY <1>1 DEF WorkerCap
<1>3. BatchLimit \in Nat \ {0}
  BY <1>1 DEF BatchLimit
<1> QED BY <1>1, <1>2, <1>3

LEMMA HandsEmptyStep ==
  ASSUME LossInv, [Next]_vars PROVE HandsEmpty'
<1>1. HandsEmpty
  BY DEF LossInv
<1>2. CASE LoopStep
  <2>1. dist' = dist /\ dist_task' = dist_task
    BY <1>2, LoopFrame DEF distributor
  <2> QED BY <1>1, <1>2, <2>1 DEF HandsEmpty, LoopStep, ReceiveAndPause, Receive, LoopStops,
          LoopSends, LoopSendFails, AtLoopHead
<1>3. CASE DistributorStep
  <2>1. loop' = loop /\ loop_task' = loop_task
    BY <1>3, DistributorFrame DEF source
  <2> QED BY <1>1, <1>3, <2>1 DEF HandsEmpty, DistributorStep, DistributorReceives,
          CircuitResets, DistributorSkips, DistributorSends, DistributorSendFails,
          DistributorDrops, DistributorFinishes
<1>4. CASE UNCHANGED <<source, distributor>>
  BY <1>1, <1>4 DEF HandsEmpty, source, distributor
<1>5. CASE Crash
  BY <1>5 DEF Crash, HandsEmpty
<1>6. ASSUME NEW w \in Workers, WorkerPanics(w) PROVE UNCHANGED <<source, distributor>>
  BY <1>6 DEF WorkerPanics
<1> QED BY <1>2, <1>3, <1>4, <1>5, <1>6, WorkerFrame, RunFrame DEF Next, vars

LEMMA WithinLimitsStep ==
  ASSUME LossInv, [Next]_vars PROVE WithinLimits'
<1> SUFFICES ASSUME NEW v \in Workers
             PROVE  /\ Len(batch'[v]) <= BatchLimit /\ Len(worker_queue'[v]) <= WorkerCap
                    /\ pc'[v] = "idle" => Len(batch'[v]) < BatchLimit
  BY DEF WithinLimits
<1>1. /\ WorkersTypeOK /\ worker_queue \in [Workers -> Seq(Message)] /\ TypeOK
      /\ Len(batch[v]) <= BatchLimit /\ Len(worker_queue[v]) <= WorkerCap
      /\ pc[v] = "idle" => Len(batch[v]) < BatchLimit
  BY DEF LossInv, TypeOK, QueuesTypeOK, WithinLimits
<1>2. Len(batch[v]) \in Nat /\ Len(worker_queue[v]) \in Nat /\ batch[v] \in Seq(Message)
  BY <1>1 DEF WorkersTypeOK
<1>3. CASE UNCHANGED <<workers, worker_queue>>
  BY <1>1, <1>3 DEF workers
<1>4. ASSUME NEW w \in Workers, WorkerStep(w), v # w
      PROVE  pc'[v] = pc[v] /\ batch'[v] = batch[v] /\ worker_queue'[v] = worker_queue[v]
  BY <1>1, <1>4 DEF WorkerStep, WorkerReceives, TakeFromInbox, StartBatch, WorkerFinishes,
     Acquire, AcquireTimesOut, ProcessSucceeds, ProcessFails, Success, Failure, FinishMessage,
     WorkersTypeOK, queues
<1>5. ASSUME WorkerStep(v)
      PROVE  /\ Len(batch'[v]) <= BatchLimit /\ Len(worker_queue'[v]) <= WorkerCap
             /\ pc'[v] = "idle" => Len(batch'[v]) < BatchLimit
  <2>1. CASE WorkerReceives(v)
    <3>1. /\ pc[v] = "idle" /\ Inbox(v) # <<>> /\ TakeFromInbox(v)
          /\ batch'[v] = Append(batch[v], Head(Inbox(v)))
          /\ pc'[v] = "idle" => ~(Len(batch[v]) + 1 >= BatchLimit)
      BY <1>1, <2>1 DEF WorkerReceives, WorkersTypeOK
    <3>2. Len(batch'[v]) = Len(batch[v]) + 1
      <4>1. Head(Inbox(v)) \in Message
        BY <1>1, <3>1, InboxTypes
      <4> QED BY <1>2, <3>1, <4>1, AppendProperties
    <3>3. Len(worker_queue'[v]) <= WorkerCap
      <4>1. CASE NumWorkers = 1
        BY <1>1, <3>1, <4>1 DEF TakeFromInbox
      <4>2. CASE NumWorkers # 1
        <5>1. worker_queue[v] # <<>> /\ worker_queue'[v] = Tail(worker_queue[v])
          BY <1>1, <3>1, <4>2 DEF TakeFromInbox, Inbox
        <5>2. Len(Tail(worker_queue[v])) = Len(worker_queue[v]) - 1
          BY <1>1, <5>1, HeadTailProperties
        <5> QED BY <1>1, <1>2, <5>1, <5>2, LimitsAreNumbers
      <4> QED BY <4>1, <4>2
    <3> QED BY <1>1, <1>2, <3>1, <3>2, <3>3, LimitsAreNumbers
  <2>2. CASE AcquireTimesOut(v)
    <3>1. (batch'[v] = batch[v] /\ pc'[v] = "process") \/ batch'[v] = <<>>
      BY <1>1, <2>2 DEF AcquireTimesOut, WorkersTypeOK
    <3>2. worker_queue' = worker_queue
      BY <2>2 DEF AcquireTimesOut, queues
    <3>3. Len(<<>>) = 0
      OBVIOUS
    <3> QED BY <1>1, <3>1, <3>2, <3>3, LimitsAreNumbers
  <2>3. CASE FinishMessage(v)
    <3>1. batch[v] # <<>> /\ batch'[v] = Tail(batch[v]) /\ worker_queue' = worker_queue
      BY <1>1, <2>3 DEF FinishMessage, WorkersTypeOK, Working, queues
    <3>2. Len(batch'[v]) = Len(batch[v]) - 1
      BY <1>2, <3>1, HeadTailProperties
    <3> QED BY <1>1, <1>2, <3>1, <3>2, LimitsAreNumbers
  <2>4. CASE ~(WorkerReceives(v) \/ AcquireTimesOut(v) \/ FinishMessage(v))
    <3>1. batch' = batch /\ worker_queue' = worker_queue /\ pc'[v] # "idle"
      BY <1>1, <1>5, <2>4 DEF WorkerStep, StartBatch, WorkerFinishes, Acquire, ProcessSucceeds,
         ProcessFails, Success, Failure, WorkersTypeOK, queues
    <3> QED BY <1>1, <3>1
  <2> QED BY <2>1, <2>2, <2>3, <2>4
<1>6. ASSUME NEW w \in Workers, WorkerPanics(w)
      PROVE  /\ Len(batch'[v]) <= BatchLimit /\ Len(worker_queue'[v]) <= WorkerCap
             /\ pc'[v] = "idle" => Len(batch'[v]) < BatchLimit
  <2>1. CASE v = w
    <3>1. batch'[v] = <<>> /\ worker_queue'[v] = <<>> /\ Len(<<>>) = 0
      BY <1>1, <1>6, <2>1 DEF WorkerPanics, WorkersTypeOK
    <3> QED BY <3>1, LimitsAreNumbers
  <2>2. CASE v # w
    <3>1. batch'[v] = batch[v] /\ worker_queue'[v] = worker_queue[v] /\ pc'[v] = pc[v]
      BY <1>1, <1>6, <2>2 DEF WorkerPanics, WorkersTypeOK
    <3> QED BY <1>1, <3>1
  <2> QED BY <2>1, <2>2
<1>7. CASE DistributorStep
  <2>1. UNCHANGED workers
    BY <1>7, DistributorFrame
  <2>2. CASE DistributorSends
    <3>1. Target \in Workers /\ dist_task \in Message
      BY <1>1, <2>2, TargetInRange DEF DistributorSends, TypeOK, DistributorTypeOK
    <3>2. CASE v = Target
      <4>1. worker_queue'[v] = Append(worker_queue[v], dist_task) /\ Len(worker_queue[v]) < WorkerCap
        BY <1>1, <2>2, <3>1, <3>2 DEF DistributorSends
      <4>2. Len(worker_queue'[v]) = Len(worker_queue[v]) + 1
        BY <1>1, <3>1, <4>1, AppendProperties
      <4> QED BY <1>1, <1>2, <2>1, <4>1, <4>2, LimitsAreNumbers DEF workers
    <3>3. CASE v # Target
      <4>1. worker_queue'[v] = worker_queue[v]
        BY <1>1, <2>2, <3>1, <3>3 DEF DistributorSends
      <4> QED BY <1>1, <2>1, <4>1 DEF workers
    <3> QED BY <3>2, <3>3
  <2>3. CASE ~DistributorSends
    <3>1. worker_queue' = worker_queue
      BY <1>7, <2>3 DEF DistributorStep, DistributorReceives, CircuitResets, DistributorSkips,
         DistributorSendFails, DistributorDrops, DistributorFinishes, queues
    <3> QED BY <1>3, <2>1, <3>1
  <2> QED BY <2>2, <2>3
<1>8. CASE Crash
  <2>1. batch'[v] = <<>> /\ worker_queue'[v] = <<>> /\ Len(<<>>) = 0
    BY <1>8 DEF Crash
  <2> QED BY <2>1, LimitsAreNumbers
<1> QED BY <1>1, <1>3, <1>4, <1>5, <1>6, <1>7, <1>8, LoopFrame, RunFrame DEF Next, vars, queues

LEMMA OpenIsDeadStep ==
  ASSUME LossInv, [Next]_vars PROVE OpenIsDead'
<1> SUFFICES ASSUME NEW v \in Workers, circuit_open'[v] PROVE pc'[v] = "dead"
  BY DEF OpenIsDead
<1>1. /\ TypeOK /\ circuit_open \in [Workers -> BOOLEAN]
      /\ circuit_open[v] => pc[v] = "dead"
  BY DEF LossInv, TypeOK, DistributorTypeOK, OpenIsDead
<1>2. ~Crash
  BY DEF Crash
<1>3. CASE circuit_open[v]
  BY <1>1, <1>2, <1>3, DeadStays
<1>4. CASE ~circuit_open[v]
  <2>1. DistributorStep
    <3>1. ASSUME NEW w \in Workers, WorkerPanics(w) PROVE circuit_open' = circuit_open
      BY <3>1 DEF WorkerPanics, distributor, breaker
    <3>2. ASSUME NEW w \in Workers, WorkerStep(w) PROVE circuit_open' = circuit_open
      BY <3>2, WorkerFrame DEF distributor, breaker
    <3>3. LoopStep \/ RunStep \/ UNCHANGED vars => circuit_open' = circuit_open
      BY LoopFrame, RunFrame DEF distributor, breaker, vars
    <3> QED BY <1>2, <1>4, <3>1, <3>2, <3>3 DEF Next
  <2>2. DistributorSendFails
    BY <1>1, <1>4, <2>1 DEF DistributorStep, DistributorReceives, CircuitResets,
       DistributorSkips, DistributorSends, DistributorDrops, DistributorFinishes, breaker
  <2>3. v = Target /\ pc[Target] = "dead"
    BY <1>1, <1>4, <2>2 DEF DistributorSendFails
  <2>4. pc' = pc
    BY <2>1, DistributorFrame DEF workers
  <2> QED BY <2>3, <2>4
<1> QED BY <1>3, <1>4

LEMMA TriedIsDeadStep ==
  ASSUME LossInv, [Next]_vars PROVE TriedIsDead'
<1> SUFFICES ASSUME dist' = "send", NEW k \in 0..(attempts' - 1)
             PROVE  pc'[(current_worker' + k) % NumWorkers] = "dead"
  BY DEF TriedIsDead
<1>1. /\ TypeOK /\ TypeOK' /\ DistributorTypeOK /\ TriedIsDead /\ OpenIsDead
      /\ Target \in Workers /\ ~Crash
  BY TypeStep, TargetInRange DEF LossInv, TypeOK, Crash
<1>2. NumWorkers \in Nat \ {0} /\ current_worker \in Nat /\ attempts \in Nat
  BY <1>1, LimitsAreNumbers DEF DistributorTypeOK, Workers
<1>3. \A n \in Nat : n % NumWorkers \in Workers
  BY <1>2 DEF Workers
<1>4. ASSUME dist = "send", attempts' = attempts, current_worker' = current_worker
      PROVE  pc'[(current_worker' + k) % NumWorkers] = "dead"
  <2> DEFINE v == (current_worker + k) % NumWorkers
  <2>1. k \in Nat /\ current_worker + k \in Nat
    BY <1>2, <1>4
  <2>2. v \in Workers
    BY <1>3, <2>1
  <2>3. pc[v] = "dead"
    BY <1>1, <1>4 DEF TriedIsDead
  <2> HIDE DEF v
  <2>4. pc'[v] = "dead"
    BY <1>1, <2>2, <2>3, DeadStays
  <2> QED BY <1>4, <2>4 DEF v
<1>5. CASE DistributorStep
  <2>1. pc' = pc
    BY <1>5, DistributorFrame DEF workers
  <2>2. CASE CircuitResets
    BY <1>4, <2>2 DEF CircuitResets
  <2>3. CASE DistributorSkips \/ DistributorSendFails
    <3>1. /\ dist = "send" /\ current_worker' = current_worker /\ attempts' = attempts + 1
          /\ pc[Target] = "dead"
      BY <1>1, <2>3 DEF DistributorSkips, DistributorSendFails, OpenIsDead
    <3>2. k \in 0..(attempts - 1) \/ k = attempts
      BY <1>2, <3>1
    <3> QED BY <1>1, <2>1, <3>1, <3>2 DEF TriedIsDead, Target
  <2>4. CASE ~(CircuitResets \/ DistributorSkips \/ DistributorSendFails)
    <3>1. attempts' = 0 \/ dist' # "send"
      BY <1>5, <2>4 DEF DistributorStep, DistributorReceives, DistributorSends,
         DistributorDrops, DistributorFinishes
    <3>2. 0..(0 - 1) = {}
      OBVIOUS
    <3> QED BY <3>1, <3>2
  <2> QED BY <2>2, <2>3, <2>4
<1>6. CASE UNCHANGED distributor
  BY <1>4, <1>6 DEF distributor, breaker
<1>7. ASSUME NEW w \in Workers, WorkerPanics(w) PROVE UNCHANGED distributor
  BY <1>7 DEF WorkerPanics
<1> QED BY <1>1, <1>5, <1>6, <1>7, LoopFrame, WorkerFrame, RunFrame DEF Next, vars
LEMMA AliveBefore == ASSUME TypeOK, [Next]_vars, ~Crash, Alive' PROVE Alive
BY DeadStays DEF Alive

LEMMA EndedIsStoppedStep ==
  ASSUME LossInv, [Next]_vars PROVE EndedIsStopped'
<1>1. TypeOK /\ WorkersTypeOK /\ EndedIsStopped /\ OpenIsDead
  BY DEF LossInv, TypeOK
<1>2. CASE Crash
  <2>1. NumWorkers = 1 => 0 \in Workers
    BY DEF Workers
  <2> QED BY <1>2, <2>1 DEF Crash, EndedIsStopped
<1>3. CASE ~Crash
  <2>1. loop = "stopped" => loop' = "stopped"
    <3>1. LoopStep => (loop = "stopped" => loop' = "stopped")
      BY DEF LoopStep, ReceiveAndPause, Receive, LoopStops, LoopSends, LoopSendFails
    <3>2. ASSUME NEW w \in Workers, WorkerPanics(w) PROVE loop' = loop
      BY <3>2 DEF WorkerPanics, source
    <3> QED BY <1>3, <3>1, <3>2, DistributorFrame, WorkerFrame, RunFrame DEF Next, vars, source
  <2>2. NumWorkers = 1 => (pc'[0] = "done" => loop' = "stopped")
    <3> SUFFICES ASSUME NumWorkers = 1, pc'[0] = "done", pc[0] # "done" PROVE loop = "stopped"
      BY <1>1, <2>1 DEF EndedIsStopped
    <3>1. 0 \in Workers /\ \A w \in Workers : w = 0
      BY DEF Workers
    <3>2. ~(UNCHANGED workers) /\ ~WorkerPanics(0)
      BY <1>1, <3>1 DEF workers, WorkerPanics, WorkersTypeOK
    <3>3. WorkerStep(0)
      BY <1>3, <3>1, <3>2, LoopFrame, DistributorFrame, RunFrame DEF Next, vars
    <3>4. WorkerFinishes(0)
      BY <1>1, <3>1, <3>3 DEF WorkerStep, WorkerReceives, StartBatch, Acquire, AcquireTimesOut,
         ProcessSucceeds, ProcessFails, Success, Failure, FinishMessage, WorkersTypeOK
    <3> QED BY <3>4 DEF WorkerFinishes, InboxClosed, MainClosed
  <2>3. dist' = "exited" => loop' = "stopped" \/ ~Alive'
    <3> SUFFICES ASSUME dist' = "exited", Alive', dist # "exited" PROVE loop = "stopped"
      BY <1>1, <1>3, <2>1, AliveBefore DEF EndedIsStopped
    <3>1. ASSUME NEW w \in Workers, WorkerPanics(w) PROVE dist' = dist
      BY <3>1 DEF WorkerPanics, distributor
    <3>2. DistributorStep
      BY <1>3, <3>1, LoopFrame, WorkerFrame, RunFrame DEF Next, vars, distributor
    <3>3. DistributorFinishes \/ (DistributorDrops /\ \A w \in Workers : circuit_open[w])
      BY <3>2 DEF DistributorStep, DistributorReceives, CircuitResets, DistributorSkips,
         DistributorSends, DistributorSendFails, DistributorDrops
    <3>4. Alive
      BY <1>1, <1>3, AliveBefore
    <3> QED BY <1>1, <3>3, <3>4 DEF DistributorFinishes, MainClosed, OpenIsDead, Alive
  <2> QED BY <2>2, <2>3 DEF EndedIsStopped
<1> QED BY <1>2, <1>3

\* What a step may not do with a message: lose it.
Kept(m) == m \in Lost' => m \in Lost

LEMMA KeptInPlace ==
  ASSUME NEW m \in Message, [Next]_vars, position' = position,
         m \in InTransit => m \in InTransit' \/ m \in Settled'
  PROVE  Kept(m)
<1>1. Delivered' = Delivered
  BY DEF Delivered
<1> QED BY <1>1, SettledGrows DEF Kept, Lost

LEMMA KeptWhenDelivered ==
  ASSUME TypeOK, NEW m \in Message, NEW p \in Partitions, [Next]_vars,
         position' = [position EXCEPT ![p] = @ + 1],
         <<p, position[p]>> \in InTransit' \cup Settled',
         m \in InTransit => m \in InTransit' \/ m \in Settled'
  PROVE  Kept(m)
<1>1. ASSUME m \in Delivered' PROVE m \in Delivered \/ m = <<p, position[p]>>
  <2>1. /\ m[1] \in Partitions /\ m[2] \in Nat /\ m = <<m[1], m[2]>>
        /\ position \in [Partitions -> Nat] /\ m[2] < position'[m[1]]
    BY <1>1, PipelineAssumption DEF Message, Offset, Delivered, TypeOK, SourceTypeOK
  <2>2. CASE m[1] = p
    <3>1. m[2] < position[p] + 1 /\ position[p] \in Nat
      BY <2>1, <2>2
    <3>2. m[2] < position[p] \/ m[2] = position[p]
      BY <2>1, <3>1
    <3> QED BY <2>1, <2>2, <3>2 DEF Delivered
  <2>3. CASE m[1] # p
    BY <2>1, <2>3 DEF Delivered
  <2> QED BY <2>2, <2>3
<1> QED BY <1>1, SettledGrows DEF Kept, Lost

LEMMA KeptByLoop ==
  ASSUME LossInv, LoopStep, [Next]_vars, Alive, NEW m \in Message PROVE Kept(m)
<1>1. /\ TypeOK /\ HandsEmpty /\ EndedIsStopped
      /\ main_queue \in Seq(Message) /\ position \in [Partitions -> 0..LogEnd]
  BY DEF LossInv, TypeOK, QueuesTypeOK, SourceTypeOK
<1>2. dist_task' = dist_task /\ worker_queue' = worker_queue /\ batch' = batch
  BY LoopFrame DEF distributor, workers
<1>3. ASSUME NEW p \in Partitions, ReceiveAndPause(p) PROVE Kept(m)
  <2>1. /\ position' = [position EXCEPT ![p] = @ + 1]
        /\ <<p, position[p]>> \in Settled'
        /\ loop_task' = loop_task /\ main_queue' = main_queue
    BY <1>3 DEF ReceiveAndPause, Settled, queues
  <2>2. m \in InTransit => m \in InTransit'
    BY <1>2, <2>1, TransitMembers, TransitMembersNext
  <2> QED BY <1>1, <2>1, <2>2, KeptWhenDelivered
<1>4. ASSUME NEW p \in Partitions, Receive(p) PROVE Kept(m)
  <2>1. /\ position' = [position EXCEPT ![p] = @ + 1] /\ position[p] < LogEnd
        /\ loop_task' = <<p, position[p]>> /\ main_queue' = main_queue /\ loop = "poll"
    BY <1>4 DEF Receive, queues
  <2>2. <<p, position[p]>> \in Message
    BY <1>1, <2>1, PipelineAssumption DEF Message, Offset
  <2>3. <<p, position[p]>> \in InTransit'
    BY <2>1, <2>2, TransitMembersNext
  <2>4. loop_task = NoTask
    BY <1>1, <2>1 DEF HandsEmpty
  <2>5. m \in InTransit => m \in InTransit'
    BY <1>2, <2>1, <2>4, NoTaskIsNoMessage, TransitMembers, TransitMembersNext
  <2> QED BY <1>1, <2>1, <2>3, <2>5, KeptWhenDelivered
<1>5. CASE LoopStops
  <2>1. position' = position /\ loop_task' = loop_task /\ main_queue' = main_queue
    BY <1>5 DEF LoopStops, kafka, queues
  <2>2. m \in InTransit => m \in InTransit'
    BY <1>2, <2>1, TransitMembers, TransitMembersNext
  <2> QED BY <2>1, <2>2, KeptInPlace
<1>6. CASE LoopSends
  <2>1. /\ position' = position /\ main_queue' = Append(main_queue, loop_task)
        /\ loop_task \in Message
    BY <1>1, <1>6 DEF LoopSends, kafka, TypeOK, SourceTypeOK
  <2>2. Range(main_queue') = Range(main_queue) \cup {loop_task}
    BY <1>1, <2>1, RangeOfAppend
  <2>3. m \in InTransit => m \in InTransit'
    BY <1>2, <2>2, TransitMembers, TransitMembersNext
  <2> QED BY <2>1, <2>3, KeptInPlace
<1>7. ~LoopSendFails
  <2> SUFFICES ASSUME LoopSendFails PROVE FALSE
    OBVIOUS
  <2>1. loop = "send" /\ MainReceiverGone
    BY DEF LoopSendFails
  <2>2. NumWorkers = 1 => \A w \in Workers : w = 0
    BY DEF Workers
  <2> QED BY <1>1, <2>1, <2>2 DEF MainReceiverGone, EndedIsStopped, Alive
<1> QED BY <1>3, <1>4, <1>5, <1>6, <1>7 DEF LoopStep
LEMMA KeptByDistributor ==
  ASSUME LossInv, DistributorStep, [Next]_vars, Alive, NEW m \in Message PROVE Kept(m)
<1>1. /\ TypeOK /\ HandsEmpty /\ TriedIsDead /\ DistributorTypeOK
      /\ main_queue \in Seq(Message) /\ worker_queue \in [Workers -> Seq(Message)]
  BY DEF LossInv, TypeOK, QueuesTypeOK
<1>2. position' = position /\ loop_task' = loop_task /\ batch' = batch
  BY DistributorFrame DEF kafka, source, workers
<1>3. CASE UNCHANGED <<dist_task, queues>>
  <2>1. m \in InTransit => m \in InTransit'
    BY <1>2, <1>3, TransitMembers, TransitMembersNext DEF queues
  <2> QED BY <1>2, <2>1, KeptInPlace
<1>4. CASE DistributorReceives
  <2>1. /\ main_queue # <<>> /\ dist_task' = Head(main_queue) /\ main_queue' = Tail(main_queue)
        /\ worker_queue' = worker_queue /\ dist_task = NoTask
    BY <1>1, <1>4 DEF DistributorReceives, HandsEmpty
  <2>2. Range(main_queue) = {dist_task'} \cup Range(main_queue')
    BY <1>1, <2>1, RangeOfTail
  <2>3. m \in InTransit => m \in InTransit'
    BY <1>2, <2>1, <2>2, NoTaskIsNoMessage, TransitMembers, TransitMembersNext
  <2> QED BY <1>2, <2>3, KeptInPlace
<1>5. CASE DistributorSends
  <2>1. dist_task \in Message /\ Target \in Workers /\ main_queue' = main_queue
    BY <1>1, <1>5, TargetInRange DEF DistributorSends, DistributorTypeOK
  <2>2. worker_queue' = [worker_queue EXCEPT ![Target] = Append(worker_queue[Target], dist_task)]
    BY <1>1, <1>5 DEF DistributorSends
  <2>3. worker_queue[Target] \in Seq(Message)
    BY <1>1, <2>1
  <2>4. Range(Append(worker_queue[Target], dist_task)) = Range(worker_queue[Target]) \cup {dist_task}
    BY <2>1, <2>3, RangeOfAppend
  <2>5. /\ dist_task \in Range(worker_queue'[Target])
        /\ \A w \in Workers : Range(worker_queue[w]) \subseteq Range(worker_queue'[w])
    BY <1>1, <2>1, <2>2, <2>4
  <2>6. m \in InTransit => m \in InTransit'
    BY <1>2, <2>1, <2>5, TransitMembers, TransitMembersNext
  <2> QED BY <1>2, <2>6, KeptInPlace
<1>6. ~DistributorDrops
  <2> SUFFICES ASSUME DistributorDrops PROVE FALSE
    OBVIOUS
  <2>1. /\ \A k \in 0..(NumWorkers - 1) : pc[(current_worker + k) % NumWorkers] = "dead"
        /\ current_worker \in 0..(NumWorkers - 1)
    BY <1>1 DEF DistributorDrops, TriedIsDead, DistributorTypeOK, Workers
  <2>2. \A w \in 0..(NumWorkers - 1) :
          \E k \in 0..(NumWorkers - 1) : (current_worker + k) % NumWorkers = w
    BY <2>1, Rotation, LimitsAreNumbers
  <2>3. \A w \in Workers : pc[w] = "dead"
    BY <2>1, <2>2 DEF Workers
  <2> QED BY <2>3 DEF Alive
<1> QED BY <1>3, <1>4, <1>5, <1>6 DEF DistributorStep, CircuitResets, DistributorSkips,
        DistributorSendFails, DistributorFinishes

LEMMA KeptByWorker ==
  ASSUME LossInv, NEW w \in Workers, WorkerStep(w), [Next]_vars, NEW m \in Message
  PROVE  Kept(m)
<1>1. /\ TypeOK /\ WorkersTypeOK /\ FinishSettled
      /\ main_queue \in Seq(Message) /\ worker_queue \in [Workers -> Seq(Message)]
  BY DEF LossInv, TypeOK, QueuesTypeOK
<1>2. position' = position /\ loop_task' = loop_task /\ dist_task' = dist_task
  BY WorkerFrame DEF kafka, source, distributor
<1>3. batch \in [Workers -> Seq(Message)] /\ batch[w] \in Seq(Message)
  BY <1>1 DEF WorkersTypeOK
<1>4. CASE UNCHANGED <<batch, queues>>
  <2>1. m \in InTransit => m \in InTransit'
    BY <1>2, <1>4, TransitMembers, TransitMembersNext DEF queues
  <2> QED BY <1>2, <2>1, KeptInPlace
<1>5. CASE WorkerReceives(w)
  <2> DEFINE t == Head(Inbox(w))
  <2>1. /\ Inbox(w) # <<>> /\ TakeFromInbox(w)
        /\ batch' = [batch EXCEPT ![w] = Append(batch[w], t)]
    BY <1>5 DEF WorkerReceives
  <2>2. t \in Message
    BY <1>1, <2>1, InboxTypes
  <2>3. Range(Append(batch[w], t)) = Range(batch[w]) \cup {t}
    BY <1>3, <2>2, RangeOfAppend
  <2>4. /\ t \in Range(batch'[w])
        /\ \A v \in Workers : Range(batch[v]) \subseteq Range(batch'[v])
    BY <1>3, <2>1, <2>3
  <2>5. CASE NumWorkers = 1
    <3>1. /\ t = Head(main_queue) /\ main_queue # <<>> /\ main_queue' = Tail(main_queue)
          /\ worker_queue' = worker_queue
      BY <2>1, <2>5 DEF TakeFromInbox, Inbox
    <3>2. Range(main_queue) = {t} \cup Range(main_queue')
      BY <1>1, <3>1, RangeOfTail
    <3>3. m \in InTransit => m \in InTransit'
      BY <1>2, <2>4, <3>1, <3>2, TransitMembers, TransitMembersNext
    <3> QED BY <1>2, <3>3, KeptInPlace
  <2>6. CASE NumWorkers # 1
    <3>1. /\ t = Head(worker_queue[w]) /\ worker_queue[w] # <<>> /\ main_queue' = main_queue
          /\ worker_queue' = [worker_queue EXCEPT ![w] = Tail(worker_queue[w])]
          /\ worker_queue[w] \in Seq(Message)
      BY <1>1, <2>1, <2>6 DEF TakeFromInbox, Inbox
    <3>2. Range(worker_queue[w]) = {t} \cup Range(Tail(worker_queue[w]))
      BY <3>1, RangeOfTail
    <3> HIDE DEF t
    <3>3. \A v \in Workers : Range(worker_queue[v]) \subseteq {t} \cup Range(worker_queue'[v])
      BY <1>1, <3>1, <3>2
    <3>4. m \in InTransit => m \in InTransit'
      BY <1>2, <2>4, <3>1, <3>3, TransitMembers, TransitMembersNext
    <3> QED BY <1>2, <3>4, KeptInPlace
  <2> QED BY <2>5, <2>6
<1>6. CASE AcquireTimesOut(w) /\ batch' # batch
  <2>1. /\ batch' = [batch EXCEPT ![w] = <<>>] /\ Range(batch[w]) \subseteq Settled'
        /\ UNCHANGED queues
    BY <1>6 DEF AcquireTimesOut, Settled
  <2>2. \A v \in Workers : Range(batch[v]) \subseteq Settled' \cup Range(batch'[v])
    BY <1>3, <2>1
  <2>3. m \in InTransit => m \in InTransit' \/ m \in Settled'
    BY <1>2, <2>1, <2>2, TransitMembers, TransitMembersNext DEF queues
  <2> QED BY <1>2, <2>3, KeptInPlace
<1>7. CASE FinishMessage(w)
  <2>1. /\ batch' = [batch EXCEPT ![w] = Tail(batch[w])] /\ UNCHANGED queues
        /\ batch[w] # <<>> /\ Head(batch[w]) \in Settled
    BY <1>1, <1>7 DEF FinishMessage, WorkersTypeOK, Working, FinishSettled, Current
  <2>2. Range(batch[w]) = {Head(batch[w])} \cup Range(Tail(batch[w]))
    BY <1>3, <2>1, RangeOfTail
  <2>3. \A v \in Workers : Range(batch[v]) \subseteq Settled' \cup Range(batch'[v])
    BY <1>3, <2>1, <2>2, SettledGrows
  <2>4. m \in InTransit => m \in InTransit' \/ m \in Settled'
    BY <1>2, <2>1, <2>3, TransitMembers, TransitMembersNext DEF queues
  <2> QED BY <1>2, <2>4, KeptInPlace
<1> QED BY <1>4, <1>5, <1>6, <1>7 DEF WorkerStep, StartBatch, WorkerFinishes, Acquire,
        AcquireTimesOut, ProcessSucceeds, ProcessFails, Success, Failure
\* A panic costs the worker's batch and its channel, and nothing else.
LEMMA LostByPanic ==
  ASSUME LossInv, NEW w \in Workers, WorkerPanics(w), [Next]_vars, Alive'
  PROVE  Lost' \subseteq Lost \cup (Range(batch[w]) \cup Range(worker_queue[w]))
<1>1. /\ TypeOK /\ WorkersTypeOK /\ main_queue \in Seq(Message)
      /\ batch \in [Workers -> Seq(Message)] /\ worker_queue \in [Workers -> Seq(Message)]
  BY DEF LossInv, TypeOK, QueuesTypeOK, WorkersTypeOK
<1>2. /\ position' = position /\ loop_task' = loop_task /\ dist_task' = dist_task
      /\ batch' = [batch EXCEPT ![w] = <<>>] /\ worker_queue' = [worker_queue EXCEPT ![w] = <<>>]
      /\ pc' = [pc EXCEPT ![w] = "dead"]
  BY DEF WorkerPanics, kafka, source, distributor
<1>3. main_queue' = main_queue
  <2>1. CASE NumWorkers = 1
    <3>1. \A v \in Workers : v = w
      BY <2>1 DEF Workers
    <3>2. \A v \in Workers : pc'[v] = "dead"
      BY <1>1, <1>2, <3>1 DEF WorkersTypeOK
    <3> QED BY <3>2 DEF Alive
  <2> QED BY <2>1 DEF WorkerPanics
<1>4. SUFFICES ASSUME NEW m \in Lost' PROVE m \in Lost \cup (Range(batch[w]) \cup Range(worker_queue[w]))
  OBVIOUS
<1>5. m \in Delivered /\ m \in Message /\ m \notin Settled /\ m \notin InTransit'
  BY <1>2, <1>4, SettledGrows DEF Lost, Delivered
<1>6. CASE m \in InTransit
  <2>1. PICK v \in Workers : m \in Range(worker_queue[v]) \/ m \in Range(batch[v])
    BY <1>2, <1>3, <1>5, <1>6, TransitMembers, TransitMembersNext
  <2>2. v = w
    <3> SUFFICES ASSUME v # w PROVE FALSE
      OBVIOUS
    <3>1. worker_queue'[v] = worker_queue[v] /\ batch'[v] = batch[v]
      BY <1>1, <1>2
    <3> QED BY <1>5, <2>1, <3>1, TransitMembersNext
  <2> QED BY <2>1, <2>2
<1> QED BY <1>5, <1>6 DEF Lost

LEMMA LossCountedStep ==
  ASSUME LossInv, [Next]_vars, ~Crash PROVE LossCounted'
<1> DEFINE c == WorkerCap + BatchLimit
<1>1. /\ TypeOK /\ TypeOK' /\ WithinLimits /\ LossCounted /\ panics \in Nat /\ panics' \in Nat
  BY TypeStep DEF LossInv, TypeOK, OutcomesTypeOK
<1>2. SUFFICES ASSUME Alive'
               PROVE  IsFiniteSet(Lost') /\ Cardinality(Lost') <= panics' * c
  BY DEF LossCounted
<1>3. Alive
  BY <1>1, <1>2, AliveBefore
<1>4. IsFiniteSet(Lost) /\ Cardinality(Lost) \in Nat /\ Cardinality(Lost) <= panics * c
  BY <1>1, <1>3, FS_CardinalityType DEF LossCounted
<1>5. c \in Nat
  BY LimitsAreNumbers
<1>6. CASE \E w \in Workers : WorkerPanics(w)
  <2>1. PICK w \in Workers : WorkerPanics(w)
    BY <1>6
  <2> DEFINE R == Range(batch[w]) \cup Range(worker_queue[w])
  <2>2. /\ batch[w] \in Seq(Message) /\ worker_queue[w] \in Seq(Message)
        /\ Len(batch[w]) <= BatchLimit /\ Len(worker_queue[w]) <= WorkerCap
    BY <1>1 DEF TypeOK, WorkersTypeOK, QueuesTypeOK, WithinLimits
  <2>3. /\ IsFiniteSet(Range(batch[w])) /\ Cardinality(Range(batch[w])) <= Len(batch[w])
        /\ IsFiniteSet(Range(worker_queue[w]))
        /\ Cardinality(Range(worker_queue[w])) <= Len(worker_queue[w])
    BY <2>2, RangeIsSmall
  <2>4. IsFiniteSet(R) /\ Cardinality(R) \in Nat /\ Cardinality(R) <= c
    <3>1. IsFiniteSet(R) /\ Cardinality(R)
            = Cardinality(Range(batch[w])) + Cardinality(Range(worker_queue[w]))
                - Cardinality(Range(batch[w]) \cap Range(worker_queue[w]))
      BY <2>3, FS_Union
    <3>2. IsFiniteSet(Range(batch[w]) \cap Range(worker_queue[w]))
      BY <2>3, FS_Subset
    <3>3. /\ Cardinality(Range(batch[w])) \in Nat /\ Cardinality(Range(worker_queue[w])) \in Nat
          /\ Cardinality(Range(batch[w]) \cap Range(worker_queue[w])) \in Nat
          /\ Cardinality(R) \in Nat
      BY <2>3, <3>1, <3>2, FS_CardinalityType
    <3>4. Len(batch[w]) \in Nat /\ Len(worker_queue[w]) \in Nat
      BY <2>2, LenProperties
    <3> QED BY <2>2, <2>3, <3>1, <3>3, <3>4, LimitsAreNumbers, SMTT(60)
  <2> HIDE DEF R
  <2>5. IsFiniteSet(Lost \cup R) /\ Cardinality(Lost \cup R) <= Cardinality(Lost) + Cardinality(R)
    <3>1. IsFiniteSet(Lost \cup R) /\ Cardinality(Lost \cup R)
            = Cardinality(Lost) + Cardinality(R) - Cardinality(Lost \cap R)
      BY <1>4, <2>4, FS_Union
    <3>2. Cardinality(Lost \cap R) \in Nat
      BY <1>4, FS_Subset, FS_CardinalityType
    <3> QED BY <1>4, <2>4, <3>1, <3>2
  <2>6. Lost' \subseteq Lost \cup R
    BY <1>2, <2>1, LostByPanic DEF R
  <2>7. IsFiniteSet(Lost') /\ Cardinality(Lost') <= Cardinality(Lost \cup R)
    BY <2>5, <2>6, FS_Subset
  <2>8. panics' = panics + 1
    BY <2>1 DEF WorkerPanics
  <2>9. panics' * c = panics * c + c
    BY <1>1, <1>5, <2>8
  <2>10. /\ Cardinality(Lost') \in Nat /\ Cardinality(Lost \cup R) \in Nat /\ panics * c \in Nat
    BY <1>1, <1>5, <2>5, <2>7, FS_CardinalityType
  <2> HIDE DEF c
  <2> QED BY <1>4, <1>5, <2>4, <2>5, <2>7, <2>9, <2>10
<1>7. CASE ~(\E w \in Workers : WorkerPanics(w))
  <2>1. panics' = panics
    BY <1>7, LoopFrame, DistributorFrame, WorkerFrame, RunFrame DEF Next, vars, faults
  <2>2. ASSUME NEW m \in Message PROVE Kept(m)
    <3>1. CASE RunStep \/ UNCHANGED vars
      <4>1. UNCHANGED <<kafka, source, distributor, queues, workers>>
        BY <3>1, RunFrame DEF vars
      <4>2. m \in InTransit => m \in InTransit'
        BY <4>1, TransitMembers, TransitMembersNext DEF source, distributor, queues, workers
      <4> QED BY <4>1, <4>2, KeptInPlace DEF kafka
    <3> QED BY <1>3, <1>7, <3>1, KeptByLoop, KeptByDistributor, KeptByWorker DEF Next
  <2>3. Lost' \subseteq Lost
    <3>1. Lost' \subseteq Message
      BY DEF Lost, Delivered
    <3> QED BY <2>2, <3>1 DEF Kept
  <2>4. IsFiniteSet(Lost') /\ Cardinality(Lost') <= Cardinality(Lost)
    BY <1>4, <2>3, FS_Subset
  <2>5. Cardinality(Lost') \in Nat /\ panics * c \in Nat
    BY <1>1, <1>5, <2>4, FS_CardinalityType
  <2> HIDE DEF c
  <2> QED BY <1>4, <2>1, <2>4, <2>5
<1> QED BY <1>6, <1>7

LEMMA LossInit == Init => LossInv
<1> SUFFICES ASSUME Init PROVE LossInv
  OBVIOUS
<1>1. TypeOK /\ NumWorkers \in Nat \ {0} /\ BatchLimit \in Nat \ {0} /\ WorkerCap \in Nat
  BY TypeInit, LimitsAreNumbers
<1>2. /\ position = group /\ loop = "poll" /\ loop_task = NoTask /\ dist_task = NoTask
      /\ dist \in {"unused", "recv"} /\ panics = 0 /\ attempts = 0
      /\ worker_queue = [w \in Workers |-> <<>>] /\ batch = [w \in Workers |-> <<>>]
      /\ pc = [w \in Workers |-> "idle"] /\ circuit_open = [w \in Workers |-> FALSE]
  BY DEF Init
<1>3. FinishSettled /\ HandsEmpty /\ OpenIsDead /\ TriedIsDead /\ EndedIsStopped
  <2>1. NumWorkers = 1 => 0 \in Workers
    BY DEF Workers
  <2> QED BY <1>2, <2>1 DEF FinishSettled, HandsEmpty, OpenIsDead, TriedIsDead, EndedIsStopped
<1>4. WithinLimits
  <2>1. Len(<<>>) = 0
    OBVIOUS
  <2> QED BY <1>1, <1>2, <2>1 DEF WithinLimits
<1>5. LossCounted
  <2>1. position = [p \in Partitions |-> 0]
    BY <1>2 DEF Init, OffsetsInit
  <2>2. \A m \in Message : m[1] \in Partitions /\ m[2] \in Nat
    BY PipelineAssumption DEF Message, Offset
  <2>3. Lost = {}
    <3>1. Delivered = {}
      BY <2>1, <2>2 DEF Delivered
    <3> QED BY <3>1 DEF Lost
  <2>4. IsFiniteSet({}) /\ Cardinality({}) = 0
    BY FS_EmptySet
  <2>5. panics * (WorkerCap + BatchLimit) = 0
    BY <1>1, <1>2, LimitsAreNumbers
  <2> QED BY <2>3, <2>4, <2>5 DEF LossCounted
<1> QED BY <1>1, <1>3, <1>4, <1>5 DEF LossInv

\* However many workers there are: while one lives and the process has not been
\* restarted, each panic cost at most the batch and the channel of its worker.  The
\* distributor takes back what a dead worker's channel refuses, drops a task only
\* once it has seen every worker dead, and no task is lost between two channels.
\* A restart loses what was on its way, so there are none here.
THEOREM LossesAreBounded == ASSUME MaxCrashes = 0 PROVE Spec => []LossIsBounded
<1>1. Init => LossInv
  BY LossInit
<1>2. LossInv /\ [Next]_vars => LossInv'
  <2> SUFFICES ASSUME LossInv, [Next]_vars PROVE LossInv'
    OBVIOUS
  <2>1. ~Crash
    BY DEF Crash, LossInv, TypeOK, OutcomesTypeOK
  <2>2. TypeOK' /\ FinishSettled'
    BY TypeStep, FinishSettledStep DEF LossInv
  <2> QED BY <2>1, <2>2, HandsEmptyStep, WithinLimitsStep, OpenIsDeadStep, TriedIsDeadStep,
          EndedIsStoppedStep, LossCountedStep DEF LossInv
<1>3. LossInv => LossIsBounded
  BY DEF LossInv, LossCounted, LossIsBounded, Alive, Lost
<1> QED BY <1>1, <1>2, <1>3, PTL DEF Spec
=============================================================================
