----------------------------- MODULE SlidingWindow -----------------------------
(***************************************************************************)
(* The sliding window of src/aggregation/sliding_window.rs.  Every method  *)
(* holds the lock of the window from its first access to its last, so that *)
(* each is one step.                                                       *)
(*                                                                         *)
(* A value is an integer; F64Max is f64::MAX, and a sum beyond it on       *)
(* either side is not finite.  Infinity and NaN are values beyond          *)
(* 2 * F64Max.                                                             *)
(***************************************************************************)
EXTENDS Integers, SequencesExt

CONSTANTS
  Duration,     \* `duration`
  Values,       \* the values added
  Times,        \* the instants at which they are, and at which the window is compacted
  F64Max,
  MaxAdds       \* bound: values added

ASSUME WindowAssumption ==
  /\ Duration \in Nat /\ F64Max \in Nat /\ MaxAdds \in Nat
  /\ Values \subseteq Int /\ Times \subseteq Nat

VARIABLES
  entries, cached_value, cache_valid,   \* WindowInner
  added,        \* history: the entries ever added, since the last clear()
  horizon,      \* history: the latest start of the window that was applied
  in_order      \* history: no instant was before an earlier one

window == <<entries, cached_value, cache_valid, added, horizon, in_order>>

Entry == [value : Int, timestamp : Int]
Beginning == -1 - Duration     \* before every instant and every start of the window

WindowInit ==
  /\ entries = <<>> /\ cached_value = 0 /\ cache_valid = FALSE
  /\ added = <<>> /\ horizon = Beginning /\ in_order = TRUE

\* The sum, with f64::MAX in place of what is not finite: also of minus infinity.
Plus(acc, value) ==
  IF acc + value \in -F64Max..F64Max THEN acc + value ELSE F64Max

\* The sums of the entries at some places, up to each entry.
Sums(es, places) ==
  LET sum[i \in 0..Len(es)] ==
        IF i = 0 THEN 0 ELSE IF i \in places THEN Plus(sum[i - 1], es[i].value) ELSE sum[i - 1]
  IN sum
SumAt(es, places) == Sums(es, places)[Len(es)]
Sum(es) == SumAt(es, DOMAIN es)

\* A duration that chrono cannot hold counts as zero in the code (unwrap_or_default());
\* Duration is one that it can.
WindowStart(now) == now - Duration

\* Entries are removed from the front, up to the first that is inside the window.
FromFirstFresh(es, start) ==
  LET fresh == {i \in DOMAIN es : es[i].timestamp >= start}
  IN IF fresh = {} THEN <<>> ELSE SubSeq(es, Min(fresh), Len(es))

\* The history of a step that moves the window.
MovesTo(start) ==
  /\ horizon' = (IF start >= horizon THEN start ELSE horizon)
  /\ in_order' = (in_order /\ start >= horizon)

AddValue(value, timestamp) ==
  LET entry == [value |-> value, timestamp |-> timestamp] IN
  /\ Len(added) < MaxAdds
  /\ entries' = FromFirstFresh(Append(entries, entry), WindowStart(timestamp))
  /\ cache_valid' = FALSE
  /\ added' = Append(added, entry)
  /\ MovesTo(WindowStart(timestamp))
  /\ UNCHANGED cached_value

\* get_current_value() answers cached_value'.
GetCurrentValue ==
  /\ cached_value' = (IF cache_valid THEN cached_value ELSE Sum(entries))
  /\ cache_valid' = TRUE
  /\ UNCHANGED <<entries, added, horizon, in_order>>

\* Mutant of CompactAtTime: the cache is not invalidated.
CompactKeepsCache(now) ==
  /\ entries' = FromFirstFresh(entries, WindowStart(now))
  /\ MovesTo(WindowStart(now))
  /\ UNCHANGED <<cached_value, cache_valid, added>>

\* Mutant of CompactAtTime: one entry is removed at most.
CompactOne(now) ==
  LET one == entries # <<>> /\ entries[1].timestamp < WindowStart(now) IN
  /\ entries' = (IF one THEN Tail(entries) ELSE entries)
  /\ cache_valid' = (cache_valid /\ ~one)
  /\ MovesTo(WindowStart(now))
  /\ UNCHANGED <<cached_value, added>>

CompactAtTime(now) ==
  LET kept == FromFirstFresh(entries, WindowStart(now)) IN
  /\ entries' = kept
  /\ cache_valid' = (cache_valid /\ kept = entries)
  /\ MovesTo(WindowStart(now))
  /\ UNCHANGED <<cached_value, added>>

Clear ==
  /\ entries' = <<>> /\ cached_value' = 0 /\ cache_valid' = TRUE
  /\ added' = <<>> /\ horizon' = Beginning /\ in_order' = TRUE

WindowNext ==
  \/ \E v \in Values, t \in Times : AddValue(v, t)
  \/ GetCurrentValue
  \/ \E t \in Times : CompactAtTime(t)
  \/ Clear

WindowSpec == WindowInit /\ [][WindowNext]_window

\* Mutant of Inside: the query looks at everything up to its instant.
InsideOrBefore(e, timestamp) == e.timestamp <= timestamp

\* get_interpolated_value(): what is in the window that ends at `timestamp`.
Inside(e, timestamp) == e.timestamp >= WindowStart(timestamp) /\ e.timestamp <= timestamp
GetInterpolatedValue(timestamp) == SumAt(entries, {i \in DOMAIN entries : Inside(entries[i], timestamp)})

------------------------------------------------------------------------------
(* Properties *)

WindowTypeOK ==
  /\ entries \in Seq(Entry) /\ added \in Seq(Entry)
  /\ cached_value \in Int /\ cache_valid \in BOOLEAN
  /\ horizon \in Int /\ in_order \in BOOLEAN

\* A cached value that get_current_value() would return is the sum of what is in
\* the window: every operation that removes or adds an entry invalidates it.
CacheIsSum == cache_valid => cached_value = Sum(entries)

\* The number of entries removed so far.
Removed == Len(added) - Len(entries)

\* The window is what was added last, and what was removed had expired, though it
\* is removed only from the front and at times of adding that go back and forth;
\* the first entry that is left has not.
OnlyExpiredRemoved ==
  /\ Removed >= 0 /\ entries = SubSeq(added, Removed + 1, Len(added))
  /\ \A i \in 1..Removed : added[i].timestamp < horizon

\* While the instants come in order the window holds exactly the values that have
\* not expired.
InOrderIsExact ==
  in_order => \A i \in DOMAIN added : i > Removed <=> added[i].timestamp >= horizon

\* "Calculate value based on entries that would be valid at the given timestamp":
\* a query about a window that begins no earlier than those before it is exact,
\* whatever the order of the timestamps.  test_weighted_interpolation() disagrees with
\* the code and with this: with 10 at 0 s, 20 at 30 s and a window of 60 s it asserts 20
\* at 45 s, where both values are inside and their sum is 30
\* (tests/aggregation_tests.rs:497-499); and 20 at 15 s, where the code answers 10, of a
\* window that begins before the last one applied, of which nothing is said here.
QueryIsExact ==
  \A t \in Times :
    WindowStart(t) >= horizon =>
      GetInterpolatedValue(t) =
        SumAt(added, {i \in DOMAIN added : added[i].timestamp \in t - Duration..t})
==============================================================================
