---------------------------- MODULE StringInterner ----------------------------
(***************************************************************************)
(* The pool of pattern strings (src/pattern/intern.rs): a map from texts   *)
(* to shared strings (Arc<str>) behind an RwLock, of limited capacity.     *)
(*                                                                         *)
(* What a thread does under the lock is one step; between the read lock    *)
(* and the write lock of intern() the other threads run.  A thread that    *)
(* panics under the write lock leaves it poisoned, for good: into_inner()  *)
(* gives the map back without clearing the flag.  The n-th Arc made for a  *)
(* text is the number n.                                                   *)
(***************************************************************************)
EXTENDS Integers, FiniteSets

CONSTANTS
  Thread, Text,
  Capacities,     \* the configurations explored: max_capacity
  EvictedShare,   \* a full map loses this part of its capacity: a tenth
  MaxMade,        \* bound: the Arcs made for one text
  MaxPanics, MaxPoison   \* bounds

ASSUME InternerAssumption ==
  /\ IsFiniteSet(Text) /\ Capacities \subseteq Nat
  /\ EvictedShare \in Nat \ {0} /\ {MaxMade, MaxPanics, MaxPoison} \subseteq Nat

VARIABLES
  max_capacity,
  strings,         \* the map: the number of the Arc of each text in it
  poisoned, poison_count,
  pc, want, got,   \* of a thread: where it is in intern(), its text, the Arc returned
  made, removed    \* how many Arcs of a text were made, and taken out of the map

calls == <<pc, want, got>>
interner_vars == <<max_capacity, strings, poisoned, poison_count, calls, made, removed>>

Pooled == DOMAIN strings

InternerInit ==
  /\ max_capacity \in Capacities
  /\ strings = [s \in {} |-> 0]
  /\ poisoned = FALSE /\ poison_count = 0
  /\ pc = [t \in Thread |-> "idle"]
  /\ want \in [Thread -> Text] /\ got = [t \in Thread |-> 0]
  /\ made = [s \in Text |-> 0] /\ removed = [s \in Text |-> 0]

Call(t) ==
  /\ pc[t] = "idle" /\ poison_count < MaxPoison
  /\ pc' = [pc EXCEPT ![t] = "read"]
  /\ \E s \in Text : want' = [want EXCEPT ![t] = s]
  /\ got' = [got EXCEPT ![t] = 0]
  /\ UNCHANGED <<max_capacity, strings, poisoned, poison_count, made, removed>>

Return(t, arc) == pc' = [pc EXCEPT ![t] = "idle"] /\ got' = [got EXCEPT ![t] = arc]

\* Under the read lock: the text may be there.  A poisoned lock is not looked into.
LookUp(t) ==
  /\ pc[t] = "read"
  /\ IF ~poisoned /\ want[t] \in Pooled
     THEN Return(t, strings[want[t]])
     ELSE pc' = [pc EXCEPT ![t] = "write"] /\ UNCHANGED got
  /\ poison_count' = IF poisoned THEN poison_count + 1 ELSE poison_count
  /\ UNCHANGED <<max_capacity, strings, poisoned, want, made, removed>>

\* What the write lock gives: a poisoned map is cleared, each time.
Kept == IF poisoned THEN {} ELSE Pooled

\* Mutant of Evicted: a map is full only beyond its capacity.
EvictedLate(S) ==
  IF Cardinality(S) > max_capacity
  THEN {V \in SUBSET S : Cardinality(V) = max_capacity \div EvictedShare}
  ELSE {{}}

\* A full map loses a share of the capacity, whichever entries the HashMap gives
\* first: none when the capacity is smaller than EvictedShare.
Evicted(S) ==
  IF Cardinality(S) >= max_capacity
  THEN {V \in SUBSET S : Cardinality(V) = max_capacity \div EvictedShare}
  ELSE {{}}

RemoveAllBut(Rest) ==
  removed' = [s \in Text |-> IF s \in Pooled \ Rest THEN removed[s] + 1 ELSE removed[s]]

\* A new Arc of s goes into the map, when V has been evicted.
Add(s, V) ==
  /\ RemoveAllBut(Kept \ V)
  /\ strings' = [x \in (Kept \ V) \cup {s} |-> IF x = s THEN made[s] + 1 ELSE strings[x]]

\* Mutant of Insert: no second look at the map under the write lock.
InsertUnchecked(t) ==
  LET s == want[t] IN
  /\ pc[t] = "write" /\ made[s] < MaxMade
  /\ \E V \in Evicted(Kept) : Add(s, V)
  /\ made' = [made EXCEPT ![s] = @ + 1]
  /\ Return(t, made[s] + 1)
  /\ poison_count' = IF poisoned THEN poison_count + 1 ELSE poison_count
  /\ UNCHANGED <<max_capacity, poisoned, want>>

\* Under the write lock: another thread may have been faster; if not, a new Arc
\* goes into the map.
FoundNow(t) ==
  /\ pc[t] = "write" /\ want[t] \in Kept
  /\ Return(t, strings[want[t]])
  /\ UNCHANGED <<max_capacity, strings, poisoned, poison_count, want, made, removed>>

Insert(t) ==
  LET s == want[t] IN
  /\ pc[t] = "write" /\ s \notin Kept /\ made[s] < MaxMade
  /\ \E V \in Evicted(Kept) : Add(s, V)
  /\ made' = [made EXCEPT ![s] = @ + 1]
  /\ Return(t, made[s] + 1)
  /\ poison_count' = IF poisoned THEN poison_count + 1 ELSE poison_count
  /\ UNCHANGED <<max_capacity, poisoned, want>>

\* A panic under the write lock, before or after the eviction.
Panic(t) ==
  /\ pc[t] = "write" /\ Cardinality({u \in Thread : pc[u] = "dead"}) < MaxPanics
  /\ \E V \in {{}} \cup Evicted(Kept) :
       RemoveAllBut(Kept \ V) /\ strings' = [x \in Kept \ V |-> strings[x]]
  /\ poisoned' = TRUE
  /\ poison_count' = IF poisoned THEN poison_count + 1 ELSE poison_count
  /\ pc' = [pc EXCEPT ![t] = "dead"]
  /\ UNCHANGED <<max_capacity, want, got, made>>

\* stats(): of a poisoned map it only counts that it was.
Stats ==
  /\ poisoned /\ poison_count < MaxPoison
  /\ poison_count' = poison_count + 1
  /\ UNCHANGED <<max_capacity, strings, poisoned, calls, made, removed>>

InternerNext == Stats \/ \E t \in Thread : Call(t) \/ LookUp(t) \/ FoundNow(t) \/ Insert(t) \/ Panic(t)
InternerSpec == InternerInit /\ [][InternerNext]_interner_vars

------------------------------------------------------------------------------
(* Properties *)

InternerTypeOK ==
  /\ max_capacity \in Nat
  /\ Pooled \subseteq Text /\ \A s \in Pooled : strings[s] \in Nat
  /\ poisoned \in BOOLEAN /\ poison_count \in Nat
  /\ pc \in [Thread -> {"idle", "read", "write", "dead"}]
  /\ want \in [Thread -> Text] /\ got \in [Thread -> Nat]
  /\ made \in [Text -> Nat] /\ removed \in [Text -> Nat]

\* "Should be the same Arc" (intern.rs:178): a second Arc of a text is made only
\* after the first has left the map, though every thread looks first under the
\* read lock, then waits for the other; and what a thread gets is the newest.
OneArcWhileKept ==
  /\ \A s \in Text : made[s] = removed[s] + (IF s \in Pooled THEN 1 ELSE 0)
  /\ \A s \in Pooled : strings[s] = made[s]

\* The pool stays within its capacity, provided that a share of it is an entry at
\* least: otherwise nothing is evicted and it grows with every text.
CapacityHolds == EvictedShare <= max_capacity => Cardinality(Pooled) <= max_capacity
==============================================================================
