----------------------------- MODULE Backpressure -----------------------------
(***************************************************************************)
(* BackpressureController (src/consumer/backpressure.rs): a tokio          *)
(* semaphore, five atomics read and written without a common lock, and the *)
(* permits handed out by acquire() and try_acquire().                      *)
(*                                                                         *)
(* Every caller is a tokio task.  A step is one atomic access of the code, *)
(* or two or three of the same stretch that no property here tells apart   *)
(* (the two loads of LoadMemory, CountPermit, TryCountPermit,              *)
(* ForceCleanup); pc names the next one.  Machine integers (usize) are kept       *)
(* modulo UsizeMod, because fetch_add and fetch_sub wrap silently.         *)
(***************************************************************************)
EXTENDS Integers, FiniteSets, FiniteSetsExt

CONSTANTS
  Callers,        \* tasks that acquire permits
  Permits,        \* max_inflight as given to new(): the semaphore's size
  PausePct,       \* pause_threshold, in percent
  ResumePct,      \* resume_threshold, in percent
  MemoryLimit,    \* with_memory_limit(), or NoLimit
  NoLimit,        \* the None of Option<usize>
  InitialAvg,     \* the first avg_message_size (1024 in the code)
  Sizes,          \* payload sizes given to update_avg_message_size
  MaxWaits,       \* MAX_MEMORY_WAIT_ATTEMPTS
  Methods,        \* entry points in use, of "acquire" and "try_acquire"
  LimitCap,       \* bound on max_inflight as adjust_limits() raises it
  UsizeMod        \* 2^width of usize

ASSUME BackpressureAssumption ==
  /\ IsFiniteSet(Callers)
  /\ Permits \in Nat
  /\ PausePct \in Nat /\ ResumePct \in Nat
  /\ NoLimit \notin Nat /\ MemoryLimit \in Nat \cup {NoLimit}
  /\ InitialAvg \in Nat /\ Sizes \subseteq Nat
  /\ MaxWaits \in Nat \ {0}
  /\ Methods \subseteq {"acquire", "try_acquire"}
  /\ LimitCap \in Nat
  /\ UsizeMod \in Nat \ {0} /\ Cardinality(Callers) < UsizeMod

VARIABLES
  max_inflight, inflight_count, is_paused,   \* atomics
  current_memory, avg_message_size,          \* atomics
  available,      \* permits left in the semaphore
  pc,             \* where each caller is in acquire(), try_acquire(), drop()
  seen, est,      \* its locals current_mem and avg_size
  waits,          \* its local memory_wait_attempts
  reserved,       \* memory_reserved of the permit it holds
  cleaned         \* history: force_cleanup() has been called

counters == <<max_inflight, inflight_count, is_paused>>
memory == <<current_memory, avg_message_size>>
locals == <<seen, est, waits, reserved>>
vars == <<counters, memory, available, pc, locals, cleaned>>

Add(x, y) == (x + y) % UsizeMod
SubUnwrapped(x, y) == x - y   \* mutant of Sub
Sub(x, y) == (x - y) % UsizeMod

\* Callers whose permit is out of the semaphore, and those of them that
\* inflight_count counts: the count follows the permit by one step at each end.
Holding == {c \in Callers : pc[c] \in {"count", "trycount", "held", "average",
                                       "uncounted", "return"}}
Counted == {c \in Callers : pc[c] \in {"held", "average"}}

Init ==
  /\ max_inflight = Permits /\ inflight_count = 0 /\ is_paused = FALSE
  /\ current_memory = 0 /\ avg_message_size = InitialAvg
  /\ available = Permits
  /\ pc = [c \in Callers |-> "idle"]
  /\ seen = [c \in Callers |-> 0] /\ est = [c \in Callers |-> 0]
  /\ waits = [c \in Callers |-> 0]
  /\ reserved = [c \in Callers |-> 0]
  /\ cleaned = FALSE

Goto(c, l) == pc' = [pc EXCEPT ![c] = l]

------------------------------------------------------------------------------
(* acquire() *)

\* The call: without a memory limit it goes straight to the semaphore.
AcquireStart(c) ==
  /\ "acquire" \in Methods /\ pc[c] = "idle"
  /\ Goto(c, IF MemoryLimit = NoLimit THEN "permit" ELSE "load")
  /\ waits' = [waits EXCEPT ![c] = 0]
  /\ UNCHANGED <<counters, memory, available, seen, est, reserved, cleaned>>

\* One round of the memory loop: load the usage and the estimate, then try to
\* reserve, or sleep and count an attempt when the limit would be passed.
LoadMemory(c) ==
  /\ pc[c] = "load" /\ waits[c] < MaxWaits
  /\ IF Add(current_memory, avg_message_size) <= MemoryLimit
     THEN /\ seen' = [seen EXCEPT ![c] = current_memory]
          /\ est' = [est EXCEPT ![c] = avg_message_size]
          /\ Goto(c, "cas")
          /\ UNCHANGED waits
     ELSE /\ waits' = [waits EXCEPT ![c] = @ + 1]
          /\ UNCHANGED <<seen, est, pc>>
  /\ UNCHANGED <<counters, memory, available, reserved, cleaned>>

\* The attempts are used up, which alone leaves no other step, or the five minutes
\* of MAX_MEMORY_WAIT_DURATION are: time is abstracted, so that they may be in any
\* round.  Err.
MemoryExhausted(c) ==
  /\ pc[c] = "load"
  /\ Goto(c, "idle")
  /\ UNCHANGED <<counters, memory, available, locals, cleaned>>

\* A compare_exchange finds the loaded value and adds the estimate.
Reserve(c) ==
  /\ pc[c] = "cas" /\ current_memory = seen[c]
  /\ current_memory' = Add(current_memory, est[c])
  /\ Goto(c, "verify")
  /\ UNCHANGED <<counters, avg_message_size, available, seen, est, waits, reserved, cleaned>>

\* MAX_CAS_RETRIES comparisons with the same loaded value have failed: the
\* inner loop is left without a reservation.
ReserveGivesUp(c) ==
  /\ pc[c] = "cas" /\ current_memory # seen[c]
  /\ Goto(c, "verify")
  /\ UNCHANGED <<counters, memory, available, locals, cleaned>>

\* "Check if memory was successfully reserved": by the total, not by the CAS.
VerifyReservation(c) ==
  /\ pc[c] = "verify"
  /\ Goto(c, IF current_memory >= seen[c] + est[c] THEN "permit" ELSE "load")
  /\ seen' = [seen EXCEPT ![c] = 0] /\ est' = [est EXCEPT ![c] = 0]
  /\ UNCHANGED <<counters, memory, available, waits, reserved, cleaned>>

\* acquire_owned() succeeds, at once, before the timeout or by try_acquire.
TakePermit(c) ==
  /\ pc[c] = "permit" /\ available > 0
  /\ available' = available - 1
  /\ Goto(c, "count")
  /\ UNCHANGED <<counters, memory, locals, cleaned>>

\* 30 s without a permit, and none at the last try: Err, memory stays reserved.
PermitTimeout(c) ==
  /\ pc[c] = "permit" /\ available = 0
  /\ Goto(c, "idle")
  /\ UNCHANGED <<counters, memory, available, locals, cleaned>>

\* The permit is counted and built; memory_reserved is the estimate of now.
CountPermit(c) ==
  /\ pc[c] = "count"
  /\ inflight_count' = Add(inflight_count, 1)
  /\ reserved' = [reserved EXCEPT ![c] = avg_message_size]
  /\ Goto(c, "held")
  /\ UNCHANGED <<max_inflight, is_paused, memory, available, seen, est, waits, cleaned>>

------------------------------------------------------------------------------
(* try_acquire() *)

\* The check of the memory limit; None, the other outcome, changes nothing.
TryAcquireStart(c) ==
  /\ "try_acquire" \in Methods /\ pc[c] = "idle"
  /\ MemoryLimit # NoLimit => Add(current_memory, avg_message_size) <= MemoryLimit
  /\ Goto(c, "try")
  /\ UNCHANGED <<counters, memory, available, seen, est, waits, reserved, cleaned>>

\* try_acquire_owned(): a permit, or None.
TryTakePermit(c) ==
  /\ pc[c] = "try"
  /\ IF available > 0
     THEN available' = available - 1 /\ Goto(c, "trycount")
     ELSE UNCHANGED available /\ Goto(c, "idle")
  /\ UNCHANGED <<counters, memory, locals, cleaned>>

\* Reserve unconditionally what the permit will give back, then count.
TryCountPermit(c) ==
  LET avg == IF MemoryLimit = NoLimit THEN 0 ELSE avg_message_size IN
  /\ pc[c] = "trycount"
  /\ current_memory' = Add(current_memory, avg)
  /\ reserved' = [reserved EXCEPT ![c] = avg]
  /\ inflight_count' = Add(inflight_count, 1)
  /\ Goto(c, "held")
  /\ UNCHANGED <<max_inflight, is_paused, avg_message_size, available, seen, est, waits, cleaned>>

------------------------------------------------------------------------------
(* update_avg_message_size(), called by the task that holds a permit: load, *)
(* then store the moving average of the loaded value.                       *)

LoadAverage(c) ==
  /\ pc[c] = "held"
  /\ \E size \in Sizes : est' = [est EXCEPT ![c] = (avg_message_size * 9 + size) \div 10]
  /\ Goto(c, "average")
  /\ UNCHANGED <<counters, memory, available, seen, waits, reserved, cleaned>>

StoreAverage(c) ==
  /\ pc[c] = "average"
  /\ avg_message_size' = est[c]
  /\ est' = [est EXCEPT ![c] = 0]
  /\ Goto(c, "held")
  /\ UNCHANGED <<counters, current_memory, available, seen, waits, reserved, cleaned>>

------------------------------------------------------------------------------
(* Drop of a permit: Drop::drop releases the count, then the memory; the    *)
(* semaphore's permit is a field, dropped after it.                         *)

\* Mutant of DropCount: a drop that releases memory and permit only.
DropUncounted(c) ==
  /\ pc[c] = "held"
  /\ Goto(c, "uncounted")
  /\ UNCHANGED <<counters, memory, available, locals, cleaned>>

DropCount(c) ==
  /\ pc[c] = "held"
  /\ inflight_count' = Sub(inflight_count, 1)
  /\ Goto(c, "uncounted")
  /\ UNCHANGED <<max_inflight, is_paused, memory, available, locals, cleaned>>

DropMemory(c) ==
  /\ pc[c] = "uncounted"
  /\ current_memory' = Sub(current_memory, reserved[c])
  /\ reserved' = [reserved EXCEPT ![c] = 0]
  /\ Goto(c, "return")
  /\ UNCHANGED <<counters, avg_message_size, available, seen, est, waits, cleaned>>

\* Mutant of DropPermit: the semaphore's permit is forgotten (forget()).
ForgetPermit(c) ==
  /\ pc[c] = "return"
  /\ Goto(c, "idle")
  /\ UNCHANGED <<counters, memory, available, locals, cleaned>>

DropPermit(c) ==
  /\ pc[c] = "return"
  /\ available' = available + 1
  /\ Goto(c, "idle")
  /\ UNCHANGED <<counters, memory, locals, cleaned>>

------------------------------------------------------------------------------
(* The consumer loop's side, and the limits *)

PauseAt == (max_inflight * PausePct) \div 100
ResumeAt == (max_inflight * ResumePct) \div 100

\* should_pause() returning true.  It and should_resume() are called by the
\* consumer loop only, so the flag does not change between its two loads.
ShouldPause ==
  /\ inflight_count >= PauseAt /\ ~is_paused
  /\ is_paused' = TRUE
  /\ UNCHANGED <<max_inflight, inflight_count, memory, available, pc, locals, cleaned>>

ShouldResume ==
  /\ inflight_count <= ResumeAt /\ is_paused
  /\ is_paused' = FALSE
  /\ UNCHANGED <<max_inflight, inflight_count, memory, available, pc, locals, cleaned>>

\* adjust_limits() when the latencies and the success rate call for a change:
\* they are left out, either direction may be asked for.  The semaphore keeps
\* its size.
AdjustLimits ==
  LET lower == (max_inflight * 9) \div 10
      higher == (max_inflight * 11) \div 10
  IN /\ max_inflight' \in {IF lower < 1 THEN 1 ELSE lower, higher} \ {max_inflight}
     /\ max_inflight' <= LimitCap
     /\ UNCHANGED <<inflight_count, is_paused, memory, available, pc, locals, cleaned>>

\* force_cleanup(): the counters are zeroed whatever is outstanding.
ForceCleanup ==
  /\ inflight_count' = 0 /\ current_memory' = 0 /\ is_paused' = FALSE
  /\ cleaned' = TRUE
  /\ UNCHANGED <<max_inflight, avg_message_size, available, pc, locals>>

Next ==
  \/ \E c \in Callers :
       \/ AcquireStart(c) \/ LoadMemory(c) \/ MemoryExhausted(c)
       \/ Reserve(c) \/ ReserveGivesUp(c) \/ VerifyReservation(c)
       \/ TakePermit(c) \/ PermitTimeout(c) \/ CountPermit(c)
       \/ TryAcquireStart(c) \/ TryTakePermit(c) \/ TryCountPermit(c)
       \/ LoadAverage(c) \/ StoreAverage(c)
       \/ DropCount(c) \/ DropMemory(c) \/ DropPermit(c)
  \/ ShouldPause \/ ShouldResume \/ AdjustLimits \/ ForceCleanup

Spec == Init /\ [][Next]_vars

------------------------------------------------------------------------------
(* Properties *)

PcValues == {"idle", "load", "cas", "verify", "permit", "count", "try", "trycount",
             "held", "average", "uncounted", "return"}

\* The types of the variables; what the counters stay within is below.
TypeOK ==
  /\ max_inflight \in Nat /\ inflight_count \in 0..(UsizeMod - 1)
  /\ is_paused \in BOOLEAN
  /\ current_memory \in 0..(UsizeMod - 1) /\ avg_message_size \in Nat
  /\ available \in Nat
  /\ pc \in [Callers -> PcValues]
  /\ seen \in [Callers -> Nat] /\ est \in [Callers -> Nat]
  /\ waits \in [Callers -> Nat]
  /\ reserved \in [Callers -> Nat]
  /\ cleaned \in BOOLEAN

\* Every permit is in the semaphore or out with one caller: no timeout, failed
\* attempt or drop may lose a permit or return it twice (with acquire() giving
\* up after 30 s, a lost permit would only show as slow failures).
SemaphoreAccounting == available + Cardinality(Holding) = Permits

\* The atomic counter, which no lock ties to the semaphore, counts exactly the
\* permits between the two updates of acquire and of drop, until a
\* force_cleanup() forgets those that are out.
InflightMatchesPermits == ~cleaned => inflight_count = Cardinality(Counted)

\* inflight_count, which pausing and shutdown read, never wraps and never
\* passes the semaphore's size, even when adjust_limits() moved max_inflight.
InflightWithinPermits == ~cleaned => inflight_count <= Permits
==============================================================================
