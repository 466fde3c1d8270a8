---------------------------- MODULE MessageDelivery ----------------------------
(***************************************************************************)
(* What becomes of a message that the consumer loop has counted: it may be *)
(* lost before a worker has it; a worker that has it retries               *)
(* (RetryExecutor, src/consumer/retry.rs) the processor, which may be      *)
(* wrapped by MetricsProcessor (src/consumer/processor.rs), and writes to  *)
(* the dead letter queue (src/consumer/dlq.rs), counting as                *)
(* run_single_processor() and process_batch() do.                          *)
(*                                                                         *)
(* The consumer may also read its own dead letter topic.  The position of  *)
(* a message in its topic is its offset.  Durations are milliseconds.  The *)
(* channels and batches on the way to a worker are a set here: that        *)
(* messages overtake each other there is ConsumerPipeline's subject.       *)
(***************************************************************************)
EXTENDS Integers, SequencesExt, FiniteSets, Functions, Enumeration

CONSTANTS
  Workers,
  Published,          \* the main topic: a sequence of [payload, headers]
  Policies,           \* RetryPolicy: [max_retries, initial_backoff, max_backoff,
                      \*   backoff_multiplier, jitter_percent, exponential]
  DlqThresholds,      \* dlq_after_retries
  MaxDlq              \* bound

IsASequence(s) == s \in Seq(Range(s))

ASSUME DeliveryAssumption ==
  /\ IsFiniteSet(Workers) /\ DlqThresholds \subseteq Nat /\ MaxDlq \in Nat
  /\ Policies \subseteq [max_retries : Nat, initial_backoff : Nat, max_backoff : Nat,
                         backoff_multiplier : Nat, jitter_percent : Nat, exponential : BOOLEAN]
  /\ IsASequence(Published) /\ \A i \in DOMAIN Published : IsASequence(Published[i].headers)

VARIABLES
  policy, dlq_after_retries, dlq_producer, wrapped,   \* the configuration
  topics,             \* "main" and "dlq": what is in them
  position,           \* how far each was read
  queued, lost,       \* counted messages: on the way to a worker, and never to be with one
  pc, message, attempt, tries, duration,   \* per worker; tries counts the calls of process()
  messages_consumed, messages_processed, messages_failed, messages_dlq, dlq_failures,
  wrapper_processed, wrapper_failed,   \* the metrics of MetricsProcessor
  settled             \* history: [topic, offset, how, attempts, tries]

config == <<policy, dlq_after_retries, dlq_producer, wrapped>>
reading == <<position, queued, lost>>
work == <<pc, message, attempt, tries, duration>>
counters == <<messages_consumed, messages_processed, messages_failed, messages_dlq, dlq_failures>>
wrapper == <<wrapper_processed, wrapper_failed>>
delivery == <<config, topics, reading, work, counters, wrapper, settled>>

------------------------------------------------------------------------------
(* RetryPolicy *)

Least(a, b) == IF a < b THEN a ELSE b
Powers(m, n) ==
  LET power[i \in 0..n] == IF i = 0 THEN 1 ELSE m * power[i - 1] IN power
Power(m, n) == Powers(m, n)[n]

\* A multiplier of a million or more, or an attempt after the 30th, leads to the maximum, by
\* a quotient that is no number if the initial backoff is zero: Duration then panics.
Panics(p, n) ==
  n > 0 /\ p.exponential /\ p.initial_backoff = 0 /\ (n > 30 \/ Power(p.backoff_multiplier, n - 1) >= 1000000)

BaseBackoff(p, n) ==
  IF ~p.exponential THEN p.initial_backoff
  ELSE IF n > 30 \/ Power(p.backoff_multiplier, n - 1) >= 1000000 THEN p.max_backoff
  ELSE p.initial_backoff * Power(p.backoff_multiplier, n - 1)

\* next_backoff(): the jitter is added to what was capped.
NextBackoff(p, n) ==
  LET capped == Least(BaseBackoff(p, n), p.max_backoff) IN
  IF n = 0 THEN {0} ELSE capped..(capped + (capped * p.jitter_percent) \div 100)

ShouldRetry(p, n) == n < p.max_retries

\* ConsumerError::is_retryable(); MetricsProcessor passes on process(), on_success() and
\* on_failure() but not is_retryable(), and the trait's own answer is always yes.
Errors == {"Timeout", "ParseError"}
IsRetryable(error) == wrapped \/ error # "ParseError"

------------------------------------------------------------------------------
(* DlqProducer *)

Header(key, value) == [key |-> key, value |-> value]

\* Mutant of CreateDlqHeaders: headers of an earlier dead letter are copied too.
CopyAllHeaders(topic, offset, original, n) ==
  <<Header(<<"dlq", "original.topic">>, topic), Header(<<"dlq", "original.offset">>, offset),
    Header(<<"dlq", "error.attempts">>, n)>>
  \o original.headers

\* create_dlq_headers(), without the partition, the error and the time: a header of the
\* message is copied under a new key, unless its key is one of ours.
CreateDlqHeaders(topic, offset, original, n) ==
  LET kept == {i \in DOMAIN original.headers : Head(original.headers[i].key) # "dlq"} IN
  <<Header(<<"dlq", "original.topic">>, topic), Header(<<"dlq", "original.offset">>, offset),
    Header(<<"dlq", "error.attempts">>, n)>>
  \o [j \in 1..Cardinality(kept) |->
       LET header == original.headers[InOrder(kept)[j]] IN
       Header(<<"dlq", "original.header", header.key>>, header.value)]

DlqRecord(topic, offset, original, n) ==
  [payload |-> original.payload, headers |-> CreateDlqHeaders(topic, offset, original, n)]

------------------------------------------------------------------------------
(* The workers *)

DeliveryInit ==
  /\ policy \in Policies /\ dlq_after_retries \in DlqThresholds
  /\ dlq_after_retries <= policy.max_retries          \* ConsumerConfig::validate()
  /\ dlq_producer \in BOOLEAN /\ wrapped \in BOOLEAN
  /\ topics = [main |-> Published, dlq |-> <<>>] /\ position = [main |-> 0, dlq |-> 0]
  /\ queued = {} /\ lost = {}
  /\ pc = [w \in Workers |-> "idle"] /\ message = [w \in Workers |-> <<"main", 0>>]
  /\ attempt = [w \in Workers |-> 0] /\ tries = [w \in Workers |-> 0] /\ duration = [w \in Workers |-> 0]
  /\ messages_consumed = 0 /\ messages_processed = 0 /\ messages_failed = 0
  /\ messages_dlq = 0 /\ dlq_failures = 0 /\ wrapper_processed = 0 /\ wrapper_failed = 0
  /\ settled = {}

Set(f, w, x) == [f EXCEPT ![w] = x]
At(w, from, to) == pc[w] = from /\ pc' = Set(pc, w, to)

\* The consumer loop counts a message as consumed; if backpressure then wants a pause, it drops
\* it, and else it sends it on its way.
Count(topic, paused) ==
  LET next == <<topic, position[topic] + 1>> IN
  /\ position[topic] < Len(topics[topic]) /\ position' = [position EXCEPT ![topic] = @ + 1]
  /\ messages_consumed' = messages_consumed + 1
  /\ IF paused THEN lost' = lost \cup {next} /\ UNCHANGED queued
     ELSE queued' = queued \cup {next} /\ UNCHANGED lost
  /\ UNCHANGED <<config, topics, work, messages_processed, messages_failed, messages_dlq,
                 dlq_failures, wrapper, settled>>

\* A worker has the message, and acquire() has granted the permit.
Take(w, m) ==
  /\ m \in queued /\ At(w, "idle", "process") /\ queued' = queued \ {m} /\ message' = Set(message, w, m)
  /\ attempt' = Set(attempt, w, 0) /\ tries' = Set(tries, w, 0)
  /\ UNCHANGED <<config, topics, position, lost, duration, counters, wrapper, settled>>

Lose(m) ==
  /\ m \in queued /\ queued' = queued \ {m} /\ lost' = lost \cup {m}
  /\ UNCHANGED <<config, topics, position, work, counters, wrapper, settled>>

\* acquire() fails: the single worker drops the message, and a batch whose first message gets
\* no permit is dropped message by message; another batch is processed without permits.
Refuse(w, m) == pc[w] = "idle" /\ Lose(m)

\* What waits in the channel or in the batch of a worker that died is gone with it, and so is
\* what the distributor can hand to nobody.
Strand(m) == (\E w \in Workers : pc[w] = "dead") /\ Lose(m)

\* One call of process(): MetricsProcessor counts each.
Try(w) ==
  /\ pc[w] = "process" /\ tries' = [tries EXCEPT ![w] = @ + 1]
  /\ UNCHANGED <<config, topics, reading, message, counters, settled>>
Wrapped(n, m) ==
  /\ wrapper_processed' = wrapper_processed + (IF wrapped THEN n ELSE 0)
  /\ wrapper_failed' = wrapper_failed + (IF wrapped THEN m ELSE 0)

Succeed(w) ==
  /\ Try(w) /\ pc' = Set(pc, w, "succeeded") /\ Wrapped(1, 0)
  /\ UNCHANGED <<attempt, duration>>

\* Mutant of Retry: the counter of the attempts starts again with each.
RetryAfresh(w, error) ==
  /\ Try(w) /\ Wrapped(0, 1)
  /\ ShouldRetry(policy, 0) /\ IsRetryable(error)
  /\ pc' = Set(pc, w, "sleep") /\ attempt' = Set(attempt, w, 1) /\ tries[w] <= policy.max_retries + 1
  /\ \E d \in NextBackoff(policy, attempt[w] + 1) : duration' = Set(duration, w, d)

Retry(w, error) ==
  /\ Try(w) /\ Wrapped(0, 1)
  /\ ShouldRetry(policy, attempt[w]) /\ IsRetryable(error) /\ ~Panics(policy, attempt[w] + 1)
  /\ pc' = Set(pc, w, "sleep") /\ attempt' = [attempt EXCEPT ![w] = @ + 1]
  /\ \E d \in NextBackoff(policy, attempt[w] + 1) : duration' = Set(duration, w, d)

\* Mutant of Wake: no timer fires that was set to nothing.
WakeLater(w) ==
  /\ duration[w] > 0 /\ At(w, "sleep", "process") /\ duration' = Set(duration, w, 0)
  /\ UNCHANGED <<config, topics, reading, message, attempt, tries, counters, wrapper, settled>>

Wake(w) ==
  /\ At(w, "sleep", "process") /\ duration' = Set(duration, w, 0)
  /\ UNCHANGED <<config, topics, reading, message, attempt, tries, counters, wrapper, settled>>

\* A panic unwinds through the worker: nothing is counted and the worker is gone.
RetryPanics(w, error) ==
  /\ Try(w) /\ Wrapped(0, 1)
  /\ ShouldRetry(policy, attempt[w]) /\ IsRetryable(error) /\ Panics(policy, attempt[w] + 1)
  /\ pc' = Set(pc, w, "dead")
  /\ UNCHANGED <<attempt, duration>>

Fail(w, error) ==
  /\ Try(w) /\ Wrapped(0, 1)
  /\ ~(ShouldRetry(policy, attempt[w]) /\ IsRetryable(error))
  /\ pc' = Set(pc, w, "failed")
  /\ UNCHANGED <<attempt, duration>>

Settle(w, how) ==
  settled' = settled \cup {[topic |-> message[w][1], offset |-> message[w][2], how |-> how,
                            attempts |-> attempt[w], tries |-> tries[w]]}

\* increment_processed(), on_success(), and the offset is marked.
OnSuccess(w) ==
  /\ At(w, "succeeded", "idle") /\ messages_processed' = messages_processed + 1
  /\ Settle(w, "processed")
  /\ UNCHANGED <<config, topics, reading, message, attempt, tries, duration,
                 messages_consumed, messages_failed, messages_dlq, dlq_failures, wrapper>>

\* Mutant of ToDlq: a message is dead one retry later.
ToDlqLate(w) == attempt[w] > dlq_after_retries /\ dlq_producer

ToDlq(w) == attempt[w] >= dlq_after_retries /\ dlq_producer

\* increment_failed(), on_failure(), and the question whether the message is dead.
OnFailure(w) ==
  /\ At(w, "failed", IF ToDlq(w) THEN "dead_letter" ELSE "idle")
  /\ messages_failed' = messages_failed + 1
  /\ IF ToDlq(w) THEN UNCHANGED settled ELSE Settle(w, "dropped")
  /\ UNCHANGED <<config, topics, reading, message, attempt, tries, duration,
                 messages_consumed, messages_processed, messages_dlq, dlq_failures, wrapper>>

Original(w) == topics[message[w][1]][message[w][2]]
Dead(w) == DlqRecord(message[w][1], message[w][2], Original(w), attempt[w])

\* The topic with a letter, which the producer may write twice: a client that is not told to be
\* idempotent sends again when the broker's answer is lost.
Sent(letter) == [topics EXCEPT !.dlq = Append(@, letter)]
SentAgain(letter) == [topics EXCEPT !.dlq = Append(Append(@, letter), letter)]
Written(letter, copies) ==
  topics' = CASE copies = 0 -> topics [] copies = 1 -> Sent(letter) [] copies = 2 -> SentAgain(letter)

\* Mutant of SendMessage: a send that fails is counted as sent, too.
SendCountedTwice(w, copies, reported) ==
  /\ At(w, "dead_letter", "idle") /\ (reported => copies > 0) /\ Written(Dead(w), copies)
  /\ messages_dlq' = messages_dlq + 1
  /\ IF reported THEN Settle(w, "dead") /\ UNCHANGED dlq_failures
     ELSE Settle(w, "dead?") /\ dlq_failures' = dlq_failures + 1
  /\ UNCHANGED <<config, reading, message, attempt, tries, duration,
                 messages_consumed, messages_processed, messages_failed, wrapper>>

\* send_message(): the broker's report may be lost, the record not be written, or both be
\* as they should; a failed send is not repeated.
SendMessage(w, copies, reported) ==
  /\ At(w, "dead_letter", "idle") /\ (reported => copies > 0) /\ Written(Dead(w), copies)
  /\ IF reported
     THEN messages_dlq' = messages_dlq + 1 /\ Settle(w, "dead") /\ UNCHANGED dlq_failures
     ELSE dlq_failures' = dlq_failures + 1 /\ Settle(w, "dead?") /\ UNCHANGED messages_dlq
  /\ UNCHANGED <<config, reading, message, attempt, tries, duration,
                 messages_consumed, messages_processed, messages_failed, wrapper>>

Work(w) ==
  \/ Succeed(w) \/ Wake(w) \/ OnSuccess(w) \/ OnFailure(w)
  \/ \E error \in Errors : Retry(w, error) \/ RetryPanics(w, error) \/ Fail(w, error)
  \/ \E copies \in 0..2, reported \in BOOLEAN : SendMessage(w, copies, reported)

\* The bound keeps the dead letters that are read again from dying again without end.
Replayable(topic) == topic = "dlq" => Len(topics.dlq) < MaxDlq

DeliveryNext ==
  \/ \E topic \in {"main", "dlq"}, paused \in BOOLEAN : Replayable(topic) /\ Count(topic, paused)
  \/ \E m \in queued : Strand(m) \/ \E w \in Workers : Take(w, m) \/ Refuse(w, m)
  \/ \E w \in Workers : Work(w)

\* process() returns, timers fire and sends end; messages need not come.
DeliverySpec ==
  DeliveryInit /\ [][DeliveryNext]_delivery /\ \A w \in Workers : WF_delivery(Work(w))

------------------------------------------------------------------------------
(* Properties *)

\* process() is called once more than it is retried, never more than max_retries + 1 times,
\* and what it says of the attempts is what is kept; the wrapper counts each call of each
\* message once.  Each wait lies between the initial backoff and the maximum, stretched by the jitter at most,
\* and with a multiplier of 1 or more it is no shorter than the base of an earlier one.
CallsAreBounded == \A s \in settled : s.tries = s.attempts + 1 /\ s.tries <= policy.max_retries + 1
CallsOf(origin, n) == {<<origin, k>> : k \in 1..n}
Calls ==
  (UNION {CallsOf(<<s.topic, s.offset>>, s.tries) : s \in settled})
    \cup (UNION {CallsOf(message[w], tries[w]) : w \in {w \in Workers : pc[w] # "idle"}})
WaitsAreBounded ==
  \A w \in {w \in Workers : pc[w] = "sleep"} :
    /\ duration[w] * 100 <= policy.max_backoff * (100 + policy.jitter_percent)
    /\ policy.backoff_multiplier >= 1 =>
         \A n \in 1..attempt[w] : duration[w] >= Least(BaseBackoff(policy, n), policy.max_backoff)
RetriesAreBounded ==
  /\ CallsAreBounded
  /\ wrapped => wrapper_processed + wrapper_failed = Cardinality(Calls)
  /\ WaitsAreBounded

\* A message that failed for good is dead-lettered, or its dead letter failed, unless there
\* is no dead letter topic or it did not fail often enough to be dead: an error that is not
\* retryable, which a wrapper hides, at an attempt below the threshold.
FailedIsDead ==
  \A s \in settled :
    /\ s.how = "dropped" => ~dlq_producer \/ (s.attempts < dlq_after_retries /\ ~wrapped)
    /\ s.how = "dead" => \E i \in DOMAIN topics.dlq :
         /\ Header(<<"dlq", "original.topic">>, s.topic) \in Range(topics.dlq[i].headers)
         /\ Header(<<"dlq", "original.offset">>, s.offset) \in Range(topics.dlq[i].headers)

\* Where the headers of the i-th letter say that its message is.
Named(headers, key) == {i \in DOMAIN headers : headers[i].key = key}
Told(i, name) ==
  LET headers == topics.dlq[i].headers IN
  headers[CHOOSE j \in Named(headers, <<"dlq", name>>) : TRUE].value
Origins == {<<Told(i, "original.topic"), Told(i, "original.offset")>> : i \in DOMAIN topics.dlq}

\* The counters agree with each other, with the messages and with the topic: each message that
\* was counted is processed, failed, with a worker, on its way or lost, and nothing but the
\* difference tells of the lost; of each send that was counted there is a letter in the topic, of
\* one counted as failed there may be, and a message has several only as copies.
CountersAgree ==
  LET inWork == Cardinality({w \in Workers : pc[w] \notin {"idle", "dead_letter"}}) IN
  /\ messages_consumed =
       messages_processed + messages_failed + inWork + Cardinality(queued) + Cardinality(lost)
  /\ messages_dlq <= Cardinality(Origins) /\ Cardinality(Origins) <= messages_dlq + dlq_failures
  /\ messages_dlq + dlq_failures <= messages_failed

\* However often a message dies, its letter has each of our headers once, and following the
\* headers from letter to letter leads back to the message that was published.
OriginIsKept ==
  \A i \in DOMAIN topics.dlq :
    /\ \A name \in {"original.topic", "original.offset", "error.attempts"} :
         Cardinality(Named(topics.dlq[i].headers, <<"dlq", name>>)) = 1
    /\ Told(i, "original.topic") = "dlq" => Told(i, "original.offset") < i
    /\ topics[Told(i, "original.topic")][Told(i, "original.offset")].payload = topics.dlq[i].payload

\* A message that was taken settles, unless a backoff that is no number kills its worker.
EveryTakenSettles == \A w \in Workers : pc[w] = "process" ~> pc[w] \in {"idle", "dead"}
==============================================================================
