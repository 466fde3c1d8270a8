---------------------------- MODULE ConsumerMetrics ----------------------------
(***************************************************************************)
(* ConsumerMetrics (src/consumer/metrics.rs): the circular buffer of       *)
(* durations and its statistics, and the maps of the partitions, each      *)
(* behind a read-write lock of its own.  Updaters set the last offset and  *)
(* the high water mark, from which the lag is computed; an exporter holds  *)
(* all three maps while it writes them out; reset() clears one map after   *)
(* the other.                                                              *)
(***************************************************************************)
EXTENDS Integers, SequencesExt, FiniteSetsExt

CONSTANTS
  Updaters, Exporters, Resetters,   \* the threads
  Partitions, Offsets,
  Durations, Capacity,              \* MAX_DURATION_SAMPLES
  None,                             \* no entry of a map
  MaxPushes, MaxSteps               \* bounds

ASSUME MetricsAssumption ==
  /\ Updaters \cap Exporters = {} /\ Updaters \cap Resetters = {} /\ Exporters \cap Resetters = {}
  /\ Durations \subseteq Nat /\ Capacity \in Nat \ {0}

Threads == Updaters \cup Exporters \cup Resetters
Maps == {"partition_lag", "last_offset", "high_water_mark"}

VARIABLES
  buffer, head, size,     \* CircularBuffer
  recent,                 \* history: the durations since the last clear
  map,                    \* the maps: partition to number
  readers, writer,        \* per map: the threads that hold its lock
  thread_pc, arg,         \* per thread: where it is, its partition and number
  shown,                  \* per exporter: the maps it has written out
  steps                   \* bound

durations == <<buffer, head, size, recent>>
locks == <<readers, writer>>
metricsVars == <<durations, map, locks, thread_pc, arg, shown, steps>>

------------------------------------------------------------------------------
(* CircularBuffer and its statistics *)

MetricsInit ==
  /\ buffer = [i \in 0..(Capacity - 1) |-> 0] /\ head = 0 /\ size = 0 /\ recent = <<>>
  /\ map = [m \in Maps |-> [p \in Partitions |-> None]]
  /\ readers = [m \in Maps |-> {}] /\ writer = [m \in Maps |-> {}]
  /\ thread_pc = [t \in Threads |-> "idle"]
  /\ arg = [t \in Threads |-> <<CHOOSE p \in Partitions : TRUE, 0>>]
  /\ shown = [t \in Exporters |-> map] /\ steps = 0

\* push() under record_processing_duration()'s lock.
Push(d) ==
  /\ Len(recent) < MaxPushes
  /\ buffer' = [buffer EXCEPT ![head] = d] /\ head' = (head + 1) % Capacity
  /\ size' = (IF size < Capacity THEN size + 1 ELSE size)
  /\ recent' = Append(recent, d)
  /\ UNCHANGED <<map, locks, thread_pc, arg, shown, steps>>

\* Mutant of Clear: the size is forgotten, and old samples show through.
ClearHead == head' = 0 /\ UNCHANGED <<buffer, size>> /\ recent' = <<>>

Clear == head' = 0 /\ size' = 0 /\ recent' = <<>> /\ UNCHANGED buffer

\* to_sorted_vec(): a buffer that is not full is read from its start.
Items ==
  IF size < Capacity THEN [i \in 1..size |-> buffer[i - 1]]
  ELSE [i \in 1..Capacity |-> buffer[(head + i - 1) % Capacity]]

\* sort(): the k-th is the least item that at least k of them do not exceed.
Sorted ==
  [k \in 1..size |->
    Min({x \in Range(Items) : Cardinality({i \in 1..size : Items[i] <= x}) >= k})]

\* calculate_stats(): indices from 0, rounded down.
Percentile(percent) == Sorted[((size - 1) * percent) \div 100 + 1]

\* The index of the higher of the two.
Median == Sorted[(size \div 2) + 1]

\* count_le(): an estimate from the percentiles.
CountLe(threshold) ==
  IF threshold <= Median THEN size \div 2
  ELSE IF threshold <= Percentile(95) THEN (size * 95) \div 100
  ELSE IF threshold <= Percentile(99) THEN (size * 99) \div 100
  ELSE size

------------------------------------------------------------------------------
(* The maps *)

\* parking_lot: readers give way to a writer that waits for the readers before them to leave.
CanRead(m) == writer[m] = {}
CanWrite(t, m) == writer[m] \subseteq {t} /\ readers[m] = {}

\* The map whose write lock a thread asks for, by its place.
Asked == [place \in {"set_offset", "set_mark", "known", "reset_lag", "reset_offset", "reset_mark"} |->
  CASE place \in {"known", "reset_lag"} -> "partition_lag"
    [] place \in {"set_offset", "reset_offset"} -> "last_offset"
    [] place \in {"set_mark", "reset_mark"} -> "high_water_mark"]

Go(t, from, to) == thread_pc[t] = from /\ thread_pc' = [thread_pc EXCEPT ![t] = to]
Begin(t, to) == Go(t, "idle", to) /\ steps < MaxSteps /\ steps' = steps + 1
Put(m, p, n) == map' = [map EXCEPT ![m][p] = n]
Unlock(t, m) == writer' = [writer EXCEPT ![m] = @ \ {t}]

\* A writer that finds readers keeps new ones out and waits.
Claim(t) ==
  /\ thread_pc[t] \in DOMAIN Asked
  /\ writer[Asked[thread_pc[t]]] = {} /\ readers[Asked[thread_pc[t]]] # {}
  /\ writer' = [writer EXCEPT ![Asked[thread_pc[t]]] = {t}]
  /\ UNCHANGED <<durations, map, readers, thread_pc, arg, shown, steps>>

\* set_last_offset() or set_high_water_mark() is called.
Update(t) ==
  /\ Begin(t, "set_offset") \/ Begin(t, "set_mark")
  /\ \E p \in Partitions, n \in Offsets : arg' = [arg EXCEPT ![t] = <<p, n>>]
  /\ UNCHANGED <<durations, map, locks, shown>>

SetLastOffset(t) ==
  /\ Go(t, "set_offset", "idle") /\ CanWrite(t, "last_offset")
  /\ Put("last_offset", arg[t][1], arg[t][2]) /\ Unlock(t, "last_offset")
  /\ UNCHANGED <<durations, readers, arg, shown, steps>>

\* set_high_water_mark(): keeps its write lock to the end of the function ...
SetHighWaterMark(t) ==
  /\ Go(t, "set_mark", "marked") /\ CanWrite(t, "high_water_mark")
  /\ writer' = [writer EXCEPT !.high_water_mark = {t}]
  /\ Put("high_water_mark", arg[t][1], arg[t][2])
  /\ UNCHANGED <<durations, readers, arg, shown, steps>>

\* ... and the read lock of `last` while it sets the lag.
ReadLast(t) ==
  /\ Go(t, "marked", IF map.last_offset[arg[t][1]] = None THEN "done" ELSE "known")
  /\ CanRead("last_offset") /\ readers' = [readers EXCEPT !.last_offset = @ \cup {t}]
  /\ arg' = [arg EXCEPT ![t][2] =
               IF map.last_offset[arg[t][1]] = None THEN @ ELSE @ - map.last_offset[arg[t][1]]]
  /\ UNCHANGED <<durations, map, writer, shown, steps>>

\* set_partition_lag()
SetLag(t) ==
  /\ Go(t, "known", "done") /\ CanWrite(t, "partition_lag")
  /\ Put("partition_lag", arg[t][1], arg[t][2]) /\ Unlock(t, "partition_lag")
  /\ UNCHANGED <<durations, readers, arg, shown, steps>>

ReleaseAll(t) ==
  /\ Go(t, "done", "idle")
  /\ readers' = [m \in Maps |-> readers[m] \ {t}] /\ writer' = [m \in Maps |-> writer[m] \ {t}]
  /\ UNCHANGED <<durations, map, arg, shown, steps>>

\* Mutant of Export: each map is read under its own lock only.
ExportOneByOne(t, m, from, to) ==
  /\ IF from = "idle" THEN Begin(t, to) ELSE Go(t, from, to) /\ UNCHANGED steps
  /\ CanRead(m) /\ shown' = [shown EXCEPT ![t][m] = map[m]]
  /\ UNCHANGED <<durations, map, locks, arg>>

\* export_prometheus() takes the read locks of the lag, the offsets and the marks, in this
\* order, and keeps them to its end.
Export(t, m, from, to) ==
  /\ IF from = "idle" THEN Begin(t, to) ELSE Go(t, from, to) /\ UNCHANGED steps
  /\ CanRead(m) /\ readers' = [readers EXCEPT ![m] = @ \cup {t}]
  /\ shown' = [shown EXCEPT ![t] = [n \in Maps |-> IF n = m \/ t \in readers[n] THEN map[n] ELSE @[n]]]
  /\ UNCHANGED <<durations, map, writer, arg>>

\* reset() clears the durations and then the maps, one lock at a time.
ResetDurations(t) == Begin(t, "reset_lag") /\ Clear /\ UNCHANGED <<map, locks, arg, shown>>

\* Mutant of ResetMap: the locks are kept until all maps are clear.
ResetHolding(t, m, from, to) ==
  /\ Go(t, from, to) /\ CanWrite(t, m) /\ writer' = [writer EXCEPT ![m] = {t}]
  /\ map' = [map EXCEPT ![m] = [p \in Partitions |-> None]]
  /\ UNCHANGED <<durations, readers, arg, shown, steps>>

ResetMap(t, m, from, to) ==
  /\ Go(t, from, to) /\ CanWrite(t, m) /\ Unlock(t, m)
  /\ map' = [map EXCEPT ![m] = [p \in Partitions |-> None]]
  /\ UNCHANGED <<durations, readers, arg, shown, steps>>

Thread(t) ==
  \/ t \in Updaters /\ (Update(t) \/ SetLastOffset(t) \/ SetHighWaterMark(t) \/ ReadLast(t) \/ SetLag(t))
  \/ t \in Exporters /\ (\/ Export(t, "partition_lag", "idle", "lag")
                         \/ Export(t, "last_offset", "lag", "offset")
                         \/ Export(t, "high_water_mark", "offset", "done"))
  \/ t \in Resetters /\ (\/ ResetDurations(t)
                         \/ ResetMap(t, "partition_lag", "reset_lag", "reset_offset")
                         \/ ResetMap(t, "last_offset", "reset_offset", "reset_mark")
                         \/ ResetMap(t, "high_water_mark", "reset_mark", "done"))
  \/ Claim(t) \/ ReleaseAll(t)

MetricsNext == (\E t \in Threads : Thread(t)) \/ \E d \in Durations : Push(d)

MetricsSpec == MetricsInit /\ [][MetricsNext]_metricsVars

------------------------------------------------------------------------------
(* Properties *)

\* The buffer finds the last Capacity durations since the last reset again, from the oldest
\* to the newest, however often it was wrapped round or cleared.
SamplesAreRecent ==
  /\ size = Min({Len(recent), Capacity})
  /\ Items = SubSeq(recent, Len(recent) - size + 1, Len(recent))

\* The statistics are of these durations.  The percentiles are in order,
\* but for exactly two samples, where the index of the median is that of the larger and the
\* others' that of the smaller; the histogram's buckets, which are computed from them,
\* never decrease.
StatsAreRecent ==
  /\ SamplesAreRecent
  /\ size > 0 =>
       /\ size # 2 => Median <= Percentile(95) /\ Percentile(95) <= Percentile(99)
       /\ size = 2 => Median = Max(Range(Items)) /\ Percentile(99) = Min(Range(Items))
       /\ \A low, high \in Durations : low <= high => CountLe(low) <= CountLe(high)

\* What an export has written out is the state of the three maps at one moment: it holds
\* each lock to its end.
ExportIsOneLook == \A t \in Exporters : thread_pc[t] = "done" => shown[t] = map

\* The locks a thread waits for are not given to it.
Waits(t) ==
  \/ thread_pc[t] \in DOMAIN Asked /\ ~CanWrite(t, Asked[thread_pc[t]])
  \/ thread_pc[t] \in {"marked", "lag"} /\ ~CanRead("last_offset")
  \/ thread_pc[t] = "offset" /\ ~CanRead("high_water_mark")

\* All that are at work can wait for each other only over an exporter that has the lag and
\* an updater that has the marks: each waits for what the other has, or behind a writer who
\* does.  Taking the locks in one order would exclude it.
OnlyKnownDeadlock ==
  (\E t \in Threads : thread_pc[t] # "idle") /\ (\A t \in Threads : thread_pc[t] # "idle" => Waits(t)) =>
    \E e \in Exporters, u \in Updaters :
      /\ e \in readers.partition_lag /\ thread_pc[e] \in {"lag", "offset"}
      /\ u \in writer.high_water_mark /\ thread_pc[u] \in {"marked", "known"}
==============================================================================
