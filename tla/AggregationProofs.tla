--------------------------- MODULE AggregationProofs ---------------------------
(***************************************************************************)
(* What TLAPS proves of src/aggregation: of the sliding window for any     *)
(* duration, values and instants, and of the group states for any tasks,   *)
(* nodes and events.                                                       *)
(***************************************************************************)
EXTENDS AggregationEvaluator, SlidingWindow, SequenceTheorems, FiniteSetTheorems,
        WellFoundedInduction, TLAPS

LEMMA MinIsThere ==
  ASSUME NEW S, S \subseteq Nat, S # {}
  PROVE  Min(S) \in S /\ \A x \in S : Min(S) <= x
<1> DEFINE Less == {p \in Nat \X Nat : p[1] < p[2]}
<1>1. IsWellFoundedOn(Less, Nat)
  BY NatLessThanWellFounded DEF OpToRel
<1>2. \E x \in S : \A y \in S : ~ (<<y, x>> \in Less)
  <2> HIDE DEF Less
  <2> QED BY <1>1, WFMin
<1>3. PICK x \in S : \A y \in S : x <= y
  <2>1. PICK x \in S : \A y \in S : ~ (<<y, x>> \in Less)
    BY <1>2
  <2>2. ASSUME NEW y \in S PROVE x <= y
    <3>1. <<y, x>> \in Nat \X Nat /\ <<y, x>>[1] = y /\ <<y, x>>[2] = x
      OBVIOUS
    <3>2. ~ (y < x)
      BY <2>1, <3>1
    <3> QED
      BY <3>2
  <2> QED
    BY <2>2
<1>4. \A y \in S : Min(S) <= y
  BY <1>3, Zenon DEF Min
<1>5. Min(S) \in S
  BY <1>3, Zenon DEF Min
<1> QED
  BY <1>4, <1>5

LEMMA EntryOf ==
  ASSUME NEW es \in Seq(Entry), NEW i \in 1..Len(es)
  PROVE  es[i] \in Entry /\ es[i].timestamp \in Int
<1>1. es[i] \in Entry
  BY ElementOfSeq
<1> QED BY <1>1 DEF Entry

\* What is removed: `gone` entries from the front, all expired, up to one that is not.
Removes(es, kept, start, gone) ==
  /\ gone \in 0..Len(es)
  /\ kept \in Seq(Entry) /\ Len(kept) = Len(es) - gone
  /\ \A i \in 1..Len(kept) : kept[i] = es[gone + i]
  /\ \A i \in 1..gone : es[i].timestamp < start
  /\ Len(kept) > 0 => kept[1].timestamp >= start

LEMMA FirstFresh ==
  ASSUME NEW es \in Seq(Entry), NEW start \in Int
  PROVE  \E gone \in Nat : Removes(es, FromFirstFresh(es, start), start, gone)
<1> DEFINE fresh == {i \in DOMAIN es : es[i].timestamp >= start}
           kept == FromFirstFresh(es, start)
<1>0. DOMAIN es = 1..Len(es) /\ Len(es) \in Nat /\ \A i \in 1..Len(es) : es[i].timestamp \in Int
  BY LenProperties, EntryOf
<1>1. CASE fresh = {}
  <2>1. kept = <<>>
    BY <1>1 DEF FromFirstFresh
  <2>2. \A i \in 1..Len(es) : es[i].timestamp < start
    BY <1>0, <1>1
  <2> HIDE DEF kept, fresh
  <2>3. kept \in Seq(Entry) /\ Len(kept) = 0
    BY <2>1
  <2>4. Removes(es, kept, start, Len(es))
    BY <1>0, <2>2, <2>3 DEF Removes
  <2> QED BY <1>0, <2>4 DEF kept
<1>2. CASE fresh # {}
  <2> DEFINE first == Min(fresh)
  <2>1. fresh \subseteq Nat
    BY <1>0
  <2>2. first \in fresh /\ \A x \in fresh : first <= x
    BY <1>2, <2>1, MinIsThere
  <2>3. first \in 1..Len(es) /\ es[first].timestamp >= start
    BY <1>0, <2>2
  <2> HIDE DEF first
  <2>4. \A i \in 1..(first - 1) : es[i].timestamp < start
    <3>1. ASSUME NEW i \in 1..(first - 1) PROVE es[i].timestamp < start
      <4>1. i \in 1..Len(es) /\ i \notin fresh
        <5> HIDE DEF fresh
        <5> QED BY <2>2, <2>3, <1>0
      <4> QED BY <1>0, <4>1
    <3> QED BY <3>1
  <2>5. kept = SubSeq(es, first, Len(es))
    BY <1>2 DEF FromFirstFresh, first
  <2> HIDE DEF kept, fresh
  <2>6. \A i \in first..Len(es) : es[i] \in Entry
    BY <1>0, <2>3, ElementOfSeq
  <2>7. /\ kept \in Seq(Entry) /\ Len(kept) = Len(es) - first + 1
        /\ \A i \in 1..(Len(es) - first + 1) : kept[i] = es[first + i - 1]
    BY <1>0, <2>3, <2>5, <2>6, SubSeqProperties, SMTT(60)
  <2>8. /\ \A i \in 1..Len(kept) : kept[i] = es[(first - 1) + i]
        /\ kept[1] = es[first]
    <3>1. Len(es) \in Nat /\ first \in 1..Len(es)
      BY <1>0, <2>3
    <3>2. ASSUME NEW i \in 1..Len(kept) PROVE kept[i] = es[(first - 1) + i]
      BY <2>7, <3>1, SMTT(60)
    <3>3. 1 \in 1..Len(kept) /\ (first - 1) + 1 = first
      BY <2>7, <3>1
    <3> QED BY <3>2, <3>3
  <2>9. Removes(es, kept, start, first - 1)
    BY <1>0, <2>3, <2>4, <2>7, <2>8 DEF Removes
  <2> QED BY <2>3, <2>9 DEF kept
<1> QED BY <1>1, <1>2

\* The inductive invariant: what is left is the end of what was added, and while the
\* instants come in order, what was added is in order too and not beyond the horizon.
WindowInv ==
  /\ entries \in Seq(Entry) /\ added \in Seq(Entry)
  /\ cache_valid \in BOOLEAN /\ horizon \in Int /\ in_order \in BOOLEAN
  /\ Removed >= 0
  /\ \A i \in 1..Len(entries) : entries[i] = added[Removed + i]
  /\ \A i \in 1..Removed : added[i].timestamp < horizon
  /\ \A i \in 1..Len(added) : added[i].timestamp - Duration <= horizon
  /\ in_order =>
       /\ \A i, j \in 1..Len(added) : i < j => added[i].timestamp <= added[j].timestamp
       /\ Len(entries) > 0 => entries[1].timestamp >= horizon
  /\ CacheIsSum

(* Sums *)

LEMMA Induction ==
  ASSUME NEW S, 0 \in S, \A n \in Nat : n \in S => n + 1 \in S
  PROVE  \A n \in Nat : n \in S
<1> DEFINE out == Nat \ S
<1>1. ASSUME out # {} PROVE FALSE
  <2>1. Min(out) \in out /\ \A x \in out : Min(out) <= x
    BY <1>1, MinIsThere
  <2>2. PICK m : m = Min(out)
    OBVIOUS
  <2>3. m \in Nat /\ m # 0 /\ m \notin S /\ \A x \in out : m <= x
    BY <2>1, <2>2
  <2>4. m - 1 \in Nat /\ m - 1 \notin out /\ (m - 1) + 1 = m
    BY <2>3
  <2> QED BY <2>3, <2>4
<1> QED BY <1>1

\* The sums up to each of n entries, given as a function.
SumsUpTo(es, places, n, f) ==
  f = [i \in 0..n |->
         IF i = 0 THEN 0 ELSE IF i \in places THEN Plus(f[i - 1], es[i].value) ELSE f[i - 1]]

LEMMA SumsAreThere ==
  ASSUME NEW es, NEW places
  PROVE  \A n \in Nat : \E f : SumsUpTo(es, places, n, f)
<1> DEFINE S == {n \in Nat : \E f : SumsUpTo(es, places, n, f)}
<1>1. 0 \in S
  <2> DEFINE f == [i \in 0..0 |-> 0]
  <2>1. SumsUpTo(es, places, 0, f)
    BY DEF SumsUpTo
  <2> QED BY <2>1
<1>2. ASSUME NEW n \in Nat, n \in S PROVE n + 1 \in S
  <2>1. PICK f : SumsUpTo(es, places, n, f)
    BY <1>2
  <2> DEFINE last == IF n + 1 \in places THEN Plus(f[n], es[n + 1].value) ELSE f[n]
             g == [i \in 0..(n + 1) |-> IF i = n + 1 THEN last ELSE f[i]]
  <2>2. \A i \in 0..(n + 1) :
          g[i] = IF i = 0 THEN 0 ELSE IF i \in places THEN Plus(g[i - 1], es[i].value) ELSE g[i - 1]
    <3> SUFFICES ASSUME NEW i \in 0..(n + 1)
                 PROVE g[i] = IF i = 0 THEN 0
                              ELSE IF i \in places THEN Plus(g[i - 1], es[i].value) ELSE g[i - 1]
      OBVIOUS
    <3>1. CASE i = n + 1
      <4>1. i - 1 = n /\ n \in 0..(n + 1) /\ n # n + 1 /\ i # 0
        BY <3>1
      <4>2. g[i - 1] = f[n] /\ g[i] = last
        BY <3>1, <4>1
      <4> QED BY <3>1, <4>1, <4>2
    <3>2. CASE i # n + 1
      <4>1. i \in 0..n /\ g[i] = f[i]
        BY <3>2
      <4>2. i # 0 => i - 1 \in 0..n /\ i - 1 # n + 1 /\ g[i - 1] = f[i - 1]
        BY <4>1
      <4>3. f[i] = IF i = 0 THEN 0 ELSE IF i \in places THEN Plus(f[i - 1], es[i].value) ELSE f[i - 1]
        BY <2>1, <4>1 DEF SumsUpTo
      <4> HIDE DEF g
      <4> QED BY <4>1, <4>2, <4>3
    <3> QED BY <3>1, <3>2
  <2>3. g = [i \in 0..(n + 1) |-> g[i]]
    OBVIOUS
  <2> HIDE DEF g
  <2>4. SumsUpTo(es, places, n + 1, g)
    BY <2>2, <2>3 DEF SumsUpTo
  <2> QED BY <2>4
<1> HIDE DEF S
<1>3. \A n \in Nat : n \in S
  BY <1>1, <1>2, Induction
<1> QED BY <1>3 DEF S

LEMMA SumsOf ==
  ASSUME NEW es \in Seq(Entry), NEW places
  PROVE  /\ Sums(es, places)[0] = 0
         /\ \A i \in 1..Len(es) :
              Sums(es, places)[i] = IF i \in places THEN Plus(Sums(es, places)[i - 1], es[i].value)
                                    ELSE Sums(es, places)[i - 1]
<1> DEFINE f == CHOOSE g : SumsUpTo(es, places, Len(es), g)
<1>1. Len(es) \in Nat
  BY LenProperties
<1>2. SumsUpTo(es, places, Len(es), f)
  BY <1>1, SumsAreThere
<1>3. Sums(es, places) = f
  BY DEF Sums, SumsUpTo
<1> HIDE DEF f
<1>4. \A i \in 0..Len(es) :
        f[i] = IF i = 0 THEN 0 ELSE IF i \in places THEN Plus(f[i - 1], es[i].value) ELSE f[i - 1]
  BY <1>2 DEF SumsUpTo
<1>5. 0 \in 0..Len(es) /\ \A i \in 1..Len(es) : i \in 0..Len(es) /\ i # 0
  BY <1>1
<1> QED BY <1>3, <1>4, <1>5

LEMMA SumOfNone == Sum(<<>>) = 0
<1>1. <<>> \in Seq(Entry) /\ Len(<<>>) = 0
  OBVIOUS
<1>2. Sums(<<>>, DOMAIN <<>>)[0] = 0
  BY <1>1, SumsOf
<1> QED BY <1>1, <1>2 DEF Sum, SumAt

LEMMA WindowInvInit == WindowInit => WindowInv
<1> SUFFICES ASSUME WindowInit PROVE WindowInv
  OBVIOUS
<1>1. entries \in Seq(Entry) /\ added \in Seq(Entry) /\ Len(entries) = 0 /\ Len(added) = 0
  BY DEF WindowInit
<1>2. horizon \in Int
  BY WindowAssumption DEF WindowInit, Beginning
<1>3. Removed = 0
  BY <1>1 DEF Removed
<1>4. cache_valid = FALSE /\ in_order = TRUE
  BY DEF WindowInit
<1>5. CacheIsSum
  BY <1>4 DEF CacheIsSum
<1>6. 1..Len(entries) = {} /\ 1..Len(added) = {} /\ 1..Removed = {}
  BY <1>1, <1>3
<1>7. \A i \in 1..Len(entries) : entries[i] = added[Removed + i]
  BY <1>6, Zenon
<1>8. \A i \in 1..Removed : added[i].timestamp < horizon
  BY <1>6, Zenon
<1>9. \A i \in 1..Len(added) : added[i].timestamp - Duration <= horizon
  BY <1>6, Zenon
<1>10. \A i, j \in 1..Len(added) : i < j => added[i].timestamp <= added[j].timestamp
  BY <1>6, Zenon
<1>11. Removed >= 0 /\ ~ (Len(entries) > 0)
  BY <1>1, <1>3
<1> QED BY <1>1, <1>2, <1>4, <1>5, <1>7, <1>8, <1>9, <1>10, <1>11, Zenon DEF WindowInv

\* A removal from the front keeps the window the end of what was added.
LEMMA RemovalKeeps ==
  ASSUME WindowInv, NEW start \in Int, NEW gone \in Nat,
         Removes(entries, entries', start, gone), added' = added, MovesTo(start)
  PROVE  /\ entries' \in Seq(Entry) /\ Removed' >= 0
         /\ \A i \in 1..Len(entries') : entries'[i] = added'[Removed' + i]
         /\ \A i \in 1..Removed' : added'[i].timestamp < horizon'
         /\ horizon' \in Int /\ in_order' \in BOOLEAN
         /\ in_order' => (Len(entries') > 0 => entries'[1].timestamp >= horizon')
<1> USE DEF WindowInv, Removed
<1>0. /\ Len(entries) \in Nat /\ Len(added) \in Nat /\ Len(entries') \in Nat
      /\ \A i \in 1..Len(added) : added[i].timestamp \in Int
  BY LenProperties, EntryOf DEF Removes
<1>1. Removed' = Removed + gone
  BY <1>0 DEF Removes
<1>2. horizon' \in Int /\ horizon' >= start /\ horizon' >= horizon
  BY DEF MovesTo
<1>3. ASSUME NEW i \in 1..Len(entries') PROVE entries'[i] = added[Removed' + i]
  <2>1. gone + i \in 1..Len(entries) /\ entries'[i] = entries[gone + i]
    <3> HIDE DEF WindowInv
    <3>1. gone \in Int /\ Len(entries') = Len(entries) - gone
      BY DEF Removes
    <3>2. entries'[i] = entries[gone + i]
      BY Zenon DEF Removes
    <3>3. gone + i \in 1..Len(entries)
      BY <1>0, <3>1
    <3> QED BY <3>2, <3>3
  <2>2. entries[gone + i] = added[Removed + (gone + i)]
    BY <2>1, Zenon
  <2>3. Removed \in Int /\ gone \in Int
    BY <1>0
  <2>4. Removed + (gone + i) = Removed' + i
    <3> HIDE DEF Removed
    <3> QED BY <1>1, <2>3
  <2> QED BY <2>1, <2>2, <2>4
<1>4. ASSUME NEW i \in 1..(Removed + gone) PROVE added[i].timestamp < horizon'
  <2>1. CASE i <= Removed
    BY <1>0, <1>2, <2>1, SMTT(60)
  <2>2. CASE i > Removed
    <3>1. i - Removed \in 1..gone /\ i - Removed \in 1..Len(entries)
      BY <1>0, <2>2, SMTT(60) DEF Removes
    <3>2. entries[i - Removed] = added[Removed + (i - Removed)]
      BY <3>1
    <3>3. Removed + (i - Removed) = i
      BY <1>0
    <3>4. entries[i - Removed].timestamp < start
      BY <3>1 DEF Removes
    <3>5. i \in 1..Len(added)
      BY <1>0, <3>1
    <3>6. added[i].timestamp < start
      BY <3>2, <3>3, <3>4
    <3> QED BY <1>0, <1>2, <3>5, <3>6, SMTT(60)
  <2> QED BY <1>0, <2>1, <2>2
<1>5. in_order' => (Len(entries') > 0 => entries'[1].timestamp >= horizon')
  BY DEF MovesTo, Removes
<1> QED BY <1>0, <1>1, <1>2, <1>3, <1>4, <1>5 DEF MovesTo, Removes

LEMMA WindowInvStep == WindowInv /\ [WindowNext]_window => WindowInv'
<1> SUFFICES ASSUME WindowInv, [WindowNext]_window PROVE WindowInv'
  OBVIOUS
<1>0. /\ Len(entries) \in Nat /\ Len(added) \in Nat /\ Duration \in Nat
      /\ \A i \in 1..Len(added) : added[i].timestamp \in Int
  BY LenProperties, EntryOf, WindowAssumption DEF WindowInv
<1>1. ASSUME NEW v \in Values, NEW t \in Times, AddValue(v, t) PROVE WindowInv'
  <2> DEFINE entry == [value |-> v, timestamp |-> t]
             more == Append(entries, entry)
  <2>1. t \in Int /\ v \in Int /\ entry \in Entry /\ WindowStart(t) \in Int /\ WindowStart(t) = t - Duration
    BY WindowAssumption DEF Entry, WindowStart
  <2>2. /\ more \in Seq(Entry) /\ Len(more) = Len(entries) + 1
        /\ \A i \in 1..Len(entries) : more[i] = entries[i]
        /\ more[Len(entries) + 1] = entry
    BY <2>1, AppendProperties DEF WindowInv
  <2>3. /\ added' \in Seq(Entry) /\ Len(added') = Len(added) + 1
        /\ \A i \in 1..Len(added) : added'[i] = added[i]
        /\ added'[Len(added) + 1] = entry
    BY <1>1, <2>1, AppendProperties DEF WindowInv, AddValue
  <2>4. PICK gone \in Nat : Removes(more, entries', WindowStart(t), gone)
    BY <1>1, <2>1, <2>2, FirstFresh DEF AddValue
  <2>5. horizon' \in Int /\ horizon' >= WindowStart(t) /\ horizon' >= horizon
    BY <1>1, <2>1 DEF WindowInv, AddValue, MovesTo
  <2>6. in_order' \in BOOLEAN /\ (in_order' => in_order /\ horizon' = WindowStart(t))
    BY <1>1, <2>1 DEF WindowInv, AddValue, MovesTo
  <2>7. cache_valid' = FALSE
    BY <1>1 DEF AddValue
  <2> HIDE DEF entry, more
  <2>8. Removed' = Removed + gone /\ Removed \in Nat
    BY <1>0, <2>2, <2>3, <2>4 DEF Removes, Removed, WindowInv
  <2>9. entry.timestamp = t
    BY DEF entry
  <2>10. \A i \in 1..Len(more) : more[i] = added'[Removed + i]
    <3> SUFFICES ASSUME NEW i \in 1..Len(more) PROVE more[i] = added'[Removed + i]
      OBVIOUS
    <3>1. CASE i \in 1..Len(entries)
      <4>1. Removed + i \in 1..Len(added)
        BY <1>0, <3>1, <2>8 DEF Removed
      <4>2. entries[i] = added[Removed + i]
        BY <3>1, Zenon DEF WindowInv
      <4> QED BY <2>2, <2>3, <3>1, <4>1, <4>2
    <3>2. CASE i = Len(entries) + 1
      <4>1. Removed + i = Len(added) + 1
        BY <1>0, <3>2 DEF Removed
      <4> QED BY <2>2, <2>3, <3>2, <4>1
    <3> QED BY <1>0, <2>2, <3>1, <3>2
  <2>11. ASSUME NEW i \in 1..Len(entries') PROVE entries'[i] = added'[Removed' + i]
    <3>1. gone \in Int /\ Len(entries') = Len(more) - gone /\ gone <= Len(more)
      BY <2>4 DEF Removes
    <3>2. entries'[i] = more[gone + i]
      BY <2>4, Zenon DEF Removes
    <3>3. gone + i \in 1..Len(more)
      BY <1>0, <2>2, <3>1
    <3>4. more[gone + i] = added'[Removed + (gone + i)]
      BY <2>10, <3>3, Zenon
    <3>5. Removed + (gone + i) = Removed' + i
      BY <2>8, <3>1
    <3> QED BY <3>2, <3>4, <3>5
  <2>12. ASSUME NEW i \in 1..Removed' PROVE added'[i].timestamp < horizon'
    <3>1. CASE i <= Removed
      <4>1. i \in 1..Removed /\ i \in 1..Len(added)
        BY <1>0, <2>8, <3>1 DEF Removed
      <4>2. added[i].timestamp < horizon /\ added[i].timestamp \in Int
        BY <1>0, <4>1 DEF WindowInv
      <4>3. added'[i].timestamp = added[i].timestamp
        BY <2>3, <4>1
      <4> QED BY <2>5, <4>2, <4>3 DEF WindowInv
    <3>2. CASE i > Removed
      <4>1. i - Removed \in 1..gone /\ i - Removed \in 1..Len(more)
        BY <2>4, <2>8, <3>2 DEF Removes
      <4>2. more[i - Removed].timestamp < WindowStart(t) /\ more[i - Removed].timestamp \in Int
        <5>1. more[i - Removed].timestamp < WindowStart(t)
          BY <2>4, <4>1 DEF Removes
        <5> QED BY <2>2, <4>1, <5>1, EntryOf
      <4>3. more[i - Removed] = added'[Removed + (i - Removed)] /\ Removed + (i - Removed) = i
        BY <2>8, <2>10, <4>1
      <4> QED BY <2>1, <2>5, <4>2, <4>3
    <3> QED BY <2>8, <3>1, <3>2
  <2>13. ASSUME NEW i \in 1..Len(added') PROVE added'[i].timestamp - Duration <= horizon'
    <3>1. CASE i \in 1..Len(added)
      BY <1>0, <2>3, <2>5, <3>1, SMTT(60) DEF WindowInv
    <3>2. CASE i = Len(added) + 1
      BY <2>1, <2>3, <2>5, <2>9, <3>2
    <3> QED BY <1>0, <2>3, <3>1, <3>2
  <2>14. ASSUME in_order', NEW i \in 1..Len(added'), NEW j \in 1..Len(added'), i < j
         PROVE  added'[i].timestamp <= added'[j].timestamp
    <3>1. i \in 1..Len(added) /\ added'[i] = added[i]
      BY <1>0, <2>3, <2>14
    <3>2. CASE j \in 1..Len(added)
      BY <2>3, <2>6, <2>14, <3>1, <3>2 DEF WindowInv
    <3>3. CASE j = Len(added) + 1
      <4>1. added[i].timestamp - Duration <= horizon
        BY <3>1 DEF WindowInv
      <4>2. horizon <= t - Duration
        BY <2>1, <2>5, <2>6, <2>14
      <4> QED BY <1>0, <2>1, <2>3, <2>9, <3>1, <3>3, <4>1, <4>2, SMTT(60) DEF WindowInv
    <3> QED BY <1>0, <2>3, <3>2, <3>3
  <2>15. in_order' => (Len(entries') > 0 => entries'[1].timestamp >= horizon')
    BY <2>4, <2>6 DEF Removes
  <2>16. entries' \in Seq(Entry) /\ Removed' >= 0 /\ CacheIsSum'
    BY <2>4, <2>7, <2>8 DEF Removes, CacheIsSum
  <2> QED
    BY <2>3, <2>5, <2>6, <2>7, <2>11, <2>12, <2>13, <2>14, <2>15, <2>16, Zenon DEF WindowInv
<1>2. ASSUME GetCurrentValue PROVE WindowInv'
  <2>1. UNCHANGED <<entries, added, horizon, in_order>> /\ cache_valid' = TRUE
    BY <1>2 DEF GetCurrentValue
  <2>2. cached_value' = Sum(entries)
    BY <1>2 DEF GetCurrentValue, WindowInv, CacheIsSum
  <2>3. CacheIsSum'
    BY <2>1, <2>2 DEF CacheIsSum
  <2> QED BY <2>1, <2>3 DEF WindowInv, Removed
<1>3. ASSUME NEW t \in Times, CompactAtTime(t) PROVE WindowInv'
  <2>1. WindowStart(t) \in Int
    BY WindowAssumption DEF WindowStart
  <2>2. PICK gone \in Nat : Removes(entries, entries', WindowStart(t), gone)
    BY <1>3, <2>1, FirstFresh DEF CompactAtTime, WindowInv
  <2>3. added' = added /\ MovesTo(WindowStart(t)) /\ cached_value' = cached_value
        /\ (cache_valid' => cache_valid /\ entries' = entries) /\ cache_valid' \in BOOLEAN
    BY <1>3 DEF CompactAtTime, WindowInv
  <2>4. /\ entries' \in Seq(Entry) /\ Removed' >= 0
        /\ \A i \in 1..Len(entries') : entries'[i] = added'[Removed' + i]
        /\ \A i \in 1..Removed' : added'[i].timestamp < horizon'
        /\ horizon' \in Int /\ in_order' \in BOOLEAN
        /\ in_order' => (Len(entries') > 0 => entries'[1].timestamp >= horizon')
    BY <2>1, <2>2, <2>3, RemovalKeeps
  <2>5. CacheIsSum'
    BY <2>3 DEF CacheIsSum, WindowInv
  <2>6. horizon' >= horizon /\ (in_order' => in_order)
    BY <2>1, <2>3 DEF MovesTo, WindowInv
  <2>7. ASSUME NEW i \in 1..Len(added') PROVE added'[i].timestamp - Duration <= horizon'
    <3>1. i \in 1..Len(added) /\ added'[i] = added[i]
      BY <2>3
    <3>2. added[i].timestamp - Duration <= horizon /\ horizon \in Int
      BY <3>1, Zenon DEF WindowInv
    <3> QED BY <1>0, <2>4, <2>6, <3>1, <3>2
  <2>8. in_order' => \A i, j \in 1..Len(added') :
                       i < j => added'[i].timestamp <= added'[j].timestamp
    BY <2>3, <2>6 DEF WindowInv
  <2> QED BY <2>3, <2>4, <2>5, <2>7, <2>8, Zenon DEF WindowInv
<1>4. ASSUME Clear PROVE WindowInv'
  <2>1. entries' = <<>> /\ added' = <<>> /\ horizon' = Beginning /\ in_order' = TRUE
        /\ cached_value' = 0 /\ cache_valid' = TRUE
    BY <1>4 DEF Clear
  <2>2. /\ entries' \in Seq(Entry) /\ added' \in Seq(Entry)
        /\ Len(entries') = 0 /\ Len(added') = 0 /\ horizon' \in Int
    BY <2>1, WindowAssumption DEF Beginning
  <2>3. Removed' = 0
    BY <2>2 DEF Removed
  <2>4. CacheIsSum'
    BY <2>1, SumOfNone DEF CacheIsSum
  <2>5. 1..Len(entries') = {} /\ 1..Len(added') = {} /\ 1..Removed' = {}
    BY <2>2, <2>3
  <2>6. \A i \in 1..Len(entries') : entries'[i] = added'[Removed' + i]
    BY <2>5, Zenon
  <2>7. \A i \in 1..Removed' : added'[i].timestamp < horizon'
    BY <2>5, Zenon
  <2>8. \A i \in 1..Len(added') : added'[i].timestamp - Duration <= horizon'
    BY <2>5, Zenon
  <2>9. \A i, j \in 1..Len(added') : i < j => added'[i].timestamp <= added'[j].timestamp
    BY <2>5, Zenon
  <2>10. Removed' >= 0 /\ ~ (Len(entries') > 0)
    BY <2>2, <2>3
  <2> QED BY <2>1, <2>2, <2>4, <2>6, <2>7, <2>8, <2>9, <2>10, Zenon DEF WindowInv
<1>5. ASSUME UNCHANGED window PROVE WindowInv'
  BY <1>5 DEF window, WindowInv, Removed, CacheIsSum
<1> QED BY <1>1, <1>2, <1>3, <1>4, <1>5 DEF WindowNext

LEMMA WindowInvariant == WindowSpec => []WindowInv
<1>1. WindowInit => WindowInv
  BY WindowInvInit
<1>2. WindowInv /\ [WindowNext]_window => WindowInv'
  BY WindowInvStep
<1> QED BY <1>1, <1>2, PTL DEF WindowSpec

\* A cached value is never stale: whatever is added, compacted or cleared, what
\* get_current_value() returns without adding up is the sum of the window.
THEOREM CacheNeverStale == WindowSpec => []CacheIsSum
<1>1. WindowInv => CacheIsSum
  BY DEF WindowInv
<1> QED BY <1>1, WindowInvariant, PTL

LEMMA WindowIsTail == WindowInv => OnlyExpiredRemoved
<1> SUFFICES ASSUME WindowInv PROVE OnlyExpiredRemoved
  OBVIOUS
<1>0. Len(entries) \in Nat /\ Len(added) \in Nat /\ Removed \in Nat /\ Removed + Len(entries) = Len(added)
  BY LenProperties DEF WindowInv, Removed
<1> DEFINE tail == SubSeq(added, Removed + 1, Len(added))
<1> HIDE DEF Removed
<1>1. \A i \in (Removed + 1)..Len(added) : added[i] \in Entry
  BY <1>0, ElementOfSeq DEF WindowInv
<1>2. /\ tail \in Seq(Entry)
      /\ Len(tail) = IF Removed + 1 <= Len(added) THEN Len(added) - (Removed + 1) + 1 ELSE 0
      /\ \A i \in 1..(Len(added) - (Removed + 1) + 1) : tail[i] = added[Removed + 1 + i - 1]
  BY <1>0, <1>1, SubSeqProperties
<1> HIDE DEF tail
<1>3. Len(tail) = Len(entries)
  BY <1>0, <1>2
<1>4. ASSUME NEW i \in 1..Len(entries) PROVE entries[i] = tail[i]
  <2>1. entries[i] = added[Removed + i]
    BY Zenon DEF WindowInv
  <2>2. tail[i] = added[Removed + 1 + i - 1] /\ Removed + 1 + i - 1 = Removed + i
    BY <1>0, <1>2
  <2> QED BY <2>1, <2>2
<1>5. entries = tail
  BY <1>2, <1>3, <1>4, SeqEqual DEF WindowInv
<1> QED BY <1>5 DEF tail, WindowInv, OnlyExpiredRemoved

\* No entry is lost from the middle of the window and none before it has expired,
\* whatever the order of the instants.
THEOREM NothingFreshRemoved == WindowSpec => []OnlyExpiredRemoved
BY WindowIsTail, WindowInvariant, PTL

LEMMA InOrderExact == WindowInv => InOrderIsExact
<1> SUFFICES ASSUME WindowInv, in_order, NEW i \in DOMAIN added
             PROVE  i > Removed <=> added[i].timestamp >= horizon
  BY DEF InOrderIsExact
<1>0. /\ i \in 1..Len(added) /\ Len(entries) \in Nat /\ Len(added) \in Nat /\ Removed \in Nat
      /\ Removed + Len(entries) = Len(added) /\ added[i].timestamp \in Int /\ horizon \in Int
  BY LenProperties, EntryOf DEF WindowInv, Removed
<1>1. CASE i <= Removed
  BY <1>0, <1>1 DEF WindowInv
<1>2. CASE i > Removed
  <2>1. 1 \in 1..Len(entries) /\ Removed + 1 \in 1..Len(added)
    BY <1>0, <1>2
  <2>2. entries[1] = added[Removed + 1] /\ entries[1].timestamp >= horizon
    BY <1>0, <2>1 DEF WindowInv
  <2>3. added[Removed + 1].timestamp <= added[i].timestamp
    <3>1. CASE i = Removed + 1
      BY <1>0, <3>1
    <3>2. CASE Removed + 1 < i
      BY <1>0, <2>1, <3>2 DEF WindowInv
    <3> QED BY <1>0, <1>2, <3>1, <3>2
  <2>4. added[Removed + 1].timestamp \in Int
    BY <2>1, EntryOf DEF WindowInv
  <2> QED BY <1>0, <1>2, <2>2, <2>3, <2>4
<1> QED BY <1>0, <1>1, <1>2

\* While events come in order the window is exact.
THEOREM InOrderWindowIsExact == WindowSpec => []InOrderIsExact
BY InOrderExact, WindowInvariant, PTL

\* A sequence is the end of a longer one, in which nothing before it is picked.
PickedAtTheEnd(long, short, gone, P, Q) ==
  /\ long \in Seq(Entry) /\ short \in Seq(Entry) /\ gone \in Nat
  /\ Len(long) = gone + Len(short)
  /\ \A i \in 1..Len(short) : short[i] = long[gone + i] /\ (i \in P <=> gone + i \in Q)
  /\ \A i \in 1..gone : i \notin Q

LEMMA SumOfTheEnd ==
  ASSUME NEW long, NEW short, NEW gone, NEW P, NEW Q, PickedAtTheEnd(long, short, gone, P, Q)
  PROVE  SumAt(short, P) = SumAt(long, Q)
<1> DEFINE s == Sums(short, P)
           l == Sums(long, Q)
           Nothing == {n \in Nat : n <= gone => l[n] = 0}
           Same == {n \in Nat : n <= Len(short) => s[n] = l[gone + n]}
<1>0. /\ long \in Seq(Entry) /\ short \in Seq(Entry) /\ gone \in Nat
      /\ Len(short) \in Nat /\ Len(long) = gone + Len(short)
      /\ \A i \in 1..Len(short) : short[i] = long[gone + i] /\ (i \in P <=> gone + i \in Q)
      /\ \A i \in 1..gone : i \notin Q
  BY LenProperties DEF PickedAtTheEnd
<1>1. /\ s[0] = 0 /\ l[0] = 0
      /\ \A i \in 1..Len(short) : s[i] = IF i \in P THEN Plus(s[i - 1], short[i].value) ELSE s[i - 1]
      /\ \A i \in 1..Len(long) : l[i] = IF i \in Q THEN Plus(l[i - 1], long[i].value) ELSE l[i - 1]
  BY <1>0, SumsOf
<1> HIDE DEF s, l
<1>2. l[gone] = 0
  <2>1. 0 \in Nothing
    BY <1>1
  <2>2. ASSUME NEW n \in Nat, n \in Nothing PROVE n + 1 \in Nothing
    <3> SUFFICES ASSUME n + 1 <= gone PROVE l[n + 1] = 0
      OBVIOUS
    <3>1. n + 1 \in 1..Len(long) /\ n + 1 \in 1..gone /\ (n + 1) - 1 = n /\ l[n] = 0
      BY <1>0, <2>2
    <3> QED BY <1>0, <1>1, <3>1
  <2> HIDE DEF Nothing
  <2>3. gone \in Nothing
    BY <1>0, <2>1, <2>2, Induction
  <2> QED BY <1>0, <2>3 DEF Nothing
<1>3. s[Len(short)] = l[gone + Len(short)]
  <2>1. 0 \in Same
    BY <1>0, <1>1, <1>2
  <2>2. ASSUME NEW n \in Nat, n \in Same PROVE n + 1 \in Same
    <3> SUFFICES ASSUME n + 1 <= Len(short) PROVE s[n + 1] = l[gone + (n + 1)]
      OBVIOUS
    <3>0. n <= Len(short) /\ s[n] = l[gone + n]
      BY <1>0, <2>2
    <3>1. /\ n + 1 \in 1..Len(short) /\ gone + (n + 1) \in 1..Len(long)
          /\ (n + 1) - 1 = n /\ (gone + (n + 1)) - 1 = gone + n
      BY <1>0
    <3>2. short[n + 1] = long[gone + (n + 1)] /\ (n + 1 \in P <=> gone + (n + 1) \in Q)
      BY <1>0, <3>1
    <3>3. s[n + 1] = IF n + 1 \in P THEN Plus(s[n], short[n + 1].value) ELSE s[n]
      BY <1>1, <3>1
    <3>4. l[gone + (n + 1)] = IF gone + (n + 1) \in Q THEN Plus(l[gone + n], long[gone + (n + 1)].value)
                              ELSE l[gone + n]
      BY <1>1, <3>1
    <3> QED BY <3>0, <3>2, <3>3, <3>4
  <2> HIDE DEF Same
  <2>3. Len(short) \in Same
    BY <1>0, <2>1, <2>2, Induction
  <2> QED BY <2>3 DEF Same
<1> QED BY <1>0, <1>3 DEF s, l, SumAt

LEMMA QueryExact == WindowInv => QueryIsExact
<1> SUFFICES ASSUME WindowInv, NEW t \in Times, WindowStart(t) >= horizon
             PROVE  GetInterpolatedValue(t) =
                      SumAt(added, {i \in DOMAIN added : added[i].timestamp \in t - Duration..t})
  BY DEF QueryIsExact
<1> DEFINE P == {i \in DOMAIN entries : Inside(entries[i], t)}
           Q == {i \in DOMAIN added : added[i].timestamp \in t - Duration..t}
<1>0. /\ entries \in Seq(Entry) /\ added \in Seq(Entry) /\ horizon \in Int
      /\ Len(entries) \in Nat /\ Len(added) \in Nat /\ Removed \in Nat /\ Len(added) = Removed + Len(entries)
      /\ DOMAIN entries = 1..Len(entries) /\ DOMAIN added = 1..Len(added)
      /\ t \in Int /\ Duration \in Int /\ WindowStart(t) = t - Duration
      /\ \A i \in 1..Len(added) : added[i].timestamp \in Int
  BY LenProperties, EntryOf, WindowAssumption, SMTT(60) DEF WindowInv, Removed, WindowStart
<1>1. \A i \in 1..Len(entries) : entries[i] = added[Removed + i]
  BY Zenon DEF WindowInv
<1>2. \A i \in 1..Removed : added[i].timestamp < horizon
  BY Zenon DEF WindowInv
<1> HIDE DEF Removed
<1>3. ASSUME NEW i \in 1..Len(entries) PROVE entries[i] = added[Removed + i] /\ (i \in P <=> Removed + i \in Q)
  <2>1. entries[i] = added[Removed + i] /\ Removed + i \in 1..Len(added)
    BY <1>0, <1>1
  <2>2. added[Removed + i].timestamp \in Int
    BY <1>0, <2>1
  <2> QED BY <1>0, <2>1, <2>2 DEF Inside
<1>4. ASSUME NEW i \in 1..Removed PROVE i \notin Q
  <2>1. i \in 1..Len(added)
    BY <1>0
  <2>2. added[i].timestamp < horizon /\ added[i].timestamp \in Int
    BY <1>0, <1>2, <2>1
  <2> QED BY <1>0, <2>2
<1> HIDE DEF P, Q
<1>5. SumAt(entries, P) = SumAt(added, Q)
  <2>1. entries \in Seq(Entry) /\ added \in Seq(Entry) /\ Removed \in Nat
        /\ Len(added) = Removed + Len(entries)
    BY <1>0
  <2>2. \A i \in 1..Len(entries) : entries[i] = added[Removed + i] /\ (i \in P <=> Removed + i \in Q)
    BY <1>3
  <2>3. \A i \in 1..Removed : i \notin Q
    BY <1>4
  <2>4. PickedAtTheEnd(added, entries, Removed, P, Q)
    BY <2>1, <2>2, <2>3 DEF PickedAtTheEnd
  <2> QED BY <2>4, SumOfTheEnd
<1> QED BY <1>5 DEF P, Q, GetInterpolatedValue

\* A query about a window that begins no earlier than those before it answers from all that was
\* ever added: what was removed was outside of it, though the instants go back and forth.
THEOREM QueriesAreExact == WindowSpec => []QueryIsExact
BY QueryExact, WindowInvariant, PTL

------------------------------------------------------------------------------
EvaluatorInv == EvaluatorTypeOK /\ IsFiniteSet(Cached) /\ NoStateLost

LEMMA EvaluatorInvInit == EvaluatorInit => EvaluatorInv
<1> SUFFICES ASSUME EvaluatorInit PROVE EvaluatorInv
  OBVIOUS
<1>1. Cached = {}
  BY DEF EvaluatorInit, Cached
<1>2. IsFiniteSet(Cached) /\ Cardinality(Cached) = 0
  BY <1>1, FS_EmptySet
<1>3. NoStateLost
  BY <1>2 DEF EvaluatorInit, NoStateLost
<1>4. EvaluatorTypeOK
  BY DEF EvaluatorInit, EvaluatorTypeOK, Nobody
<1> QED BY <1>2, <1>3, <1>4 DEF EvaluatorInv

Group == [count : Nat, sum : Int, min : Int, max : Int]

LEMMA UpdatedGroupType ==
  ASSUME NEW group \in Group, NEW n \in Nodes, NEW value \in Int
  PROVE  UpdatedGroup(group, n.function, value) \in Group
<1>1. n.function \in {"Count", "Sum", "Average", "Min", "Max"}
  BY EvaluatorAssumption
<1>2. CASE n.function = "Count"
  BY <1>2 DEF UpdatedGroup, Group
<1>3. CASE n.function = "Sum"
  BY <1>3 DEF UpdatedGroup, Group
<1>4. CASE n.function = "Average"
  <2>1. UpdatedGroup(group, n.function, value)
          = [group EXCEPT !.sum = group.sum + value, !.count = group.count + 1]
    BY <1>4 DEF UpdatedGroup
  <2>2. group.sum + value \in Int /\ group.count + 1 \in Nat
    BY DEF Group
  <2> QED BY <2>1, <2>2 DEF Group
<1>5. CASE n.function = "Min"
  <2>1. UpdatedGroup(group, n.function, value) = [group EXCEPT !.min = Lesser(@, value)]
    BY <1>5 DEF UpdatedGroup
  <2>2. Lesser(group.min, value) \in Int
    BY DEF Group, Lesser
  <2> QED BY <2>1, <2>2 DEF Group
<1>6. CASE n.function = "Max"
  <2>1. UpdatedGroup(group, n.function, value) = [group EXCEPT !.max = Greater(@, value)]
    BY <1>6 DEF UpdatedGroup
  <2>2. Greater(group.max, value) \in Int
    BY DEF Group, Greater
  <2> QED BY <2>1, <2>2 DEF Group
<1> QED BY <1>1, <1>2, <1>3, <1>4, <1>5, <1>6

LEMMA EvaluatorInvStep == EvaluatorInv /\ [EvaluatorNext]_aggregation => EvaluatorInv'
<1> SUFFICES ASSUME EvaluatorInv, [EvaluatorNext]_aggregation PROVE EvaluatorInv'
  OBVIOUS
<1>0. states \in Seq(Group) /\ Len(states) \in Nat /\ cache \in [Keys -> 0..Len(states)]
      /\ total_evaluations \in Nat /\ evictions \in Nat /\ Cardinality(Cached) \in Nat
  BY LenProperties, FS_CardinalityType DEF EvaluatorInv, EvaluatorTypeOK, Group
<1>1. ASSUME NEW t \in Tasks, Evaluate(t) PROVE EvaluatorInv'
  <2>1. UNCHANGED <<cache, states, evictions>> /\ total_evaluations' \in Nat
    BY <1>0, <1>1 DEF Evaluate
  <2>2. Cached' = Cached
    BY <2>1 DEF Cached
  <2>3. PICK n \in Nodes, e \in Events :
          call' = [call EXCEPT ![t] = [node |-> n, event |-> e, state |-> Nobody]]
    BY <1>1 DEF Evaluate
  <2>4. [node |-> n, event |-> e, state |-> Nobody] \in Call
    BY DEF Call, Nobody
  <2>5. EvaluatorTypeOK'
    <3> HIDE DEF Call
    <3> QED BY <1>1, <2>1, <2>3, <2>4 DEF EvaluatorInv, EvaluatorTypeOK, Evaluate
  <2> QED BY <2>1, <2>2, <2>5 DEF EvaluatorInv, NoStateLost
<1>2. ASSUME NEW t \in Tasks, GetGroup(t) PROVE EvaluatorInv'
  <2>0. call[t] \in Call /\ pc[t] = "get"
    BY <1>2 DEF GetGroup, EvaluatorInv, EvaluatorTypeOK
  <2>1. Key(t) \in Keys /\ call[t].node \in Nodes /\ call[t].event \in Events
    BY <2>0 DEF Call, Key, Keys
  <2>2. CASE cache[Key(t)] # Nobody
    <3>1. UNCHANGED <<cache, states, evictions>> /\ Found(t, cache[Key(t)])
      BY <1>2, <2>2 DEF GetGroup, Found
    <3>2. Cached' = Cached
      BY <3>1 DEF Cached
    <3>3. cache[Key(t)] \in 1..Len(states)
      BY <1>0, <2>1, <2>2 DEF Nobody
    <3>4. EvaluatorTypeOK'
      <4>1. [call[t] EXCEPT !.state = cache[Key(t)]] \in Call
        BY <1>0, <2>0, <3>3, SMTT(60) DEF Call
      <4>2. [call[t] EXCEPT !.state = cache[Key(t)]].state = cache[Key(t)]
        BY <2>0 DEF Call
      <4>3. call' = [call EXCEPT ![t] = [call[t] EXCEPT !.state = cache[Key(t)]]]
        BY <3>1 DEF Found
      <4> QED BY <3>1, <3>3, <4>1, <4>2, <4>3 DEF EvaluatorInv, EvaluatorTypeOK, Found
    <3> QED BY <3>1, <3>2, <3>4 DEF EvaluatorInv, NoStateLost
  <2>3. CASE cache[Key(t)] = Nobody
    <3> DEFINE id == Len(states) + 1
    <3>1. /\ states' = Append(states, NewGroup) /\ cache' = [cache EXCEPT ![Key(t)] = id]
          /\ evictions' = evictions /\ Found(t, id)
      BY <1>2, <2>3 DEF GetGroup, Found
    <3>2. NewGroup \in Group
      BY EvaluatorAssumption DEF NewGroup, Group
    <3>3. states' \in Seq(Group) /\ Len(states') = id
      BY <1>0, <3>1, <3>2, AppendProperties
    <3>4. cache' \in [Keys -> 0..id]
      BY <1>0, <2>1, <3>1
    <3>5. Cached' = Cached \cup {Key(t)} /\ Key(t) \notin Cached
      BY <1>0, <2>1, <2>3, <3>1 DEF Cached, Nobody
    <3>6. IsFiniteSet(Cached') /\ Cardinality(Cached') = Cardinality(Cached) + 1
      BY <3>5, FS_AddElement DEF EvaluatorInv
    <3>7. NoStateLost'
      BY <1>0, <3>1, <3>3, <3>6 DEF NoStateLost, EvaluatorInv
    <3>8. EvaluatorTypeOK'
      <4>1. [call[t] EXCEPT !.state = id] \in Call
        BY <1>0, <2>0, SMTT(60) DEF Call
      <4>2. [call[t] EXCEPT !.state = id].state = id
        BY <2>0 DEF Call
      <4>3. call' = [call EXCEPT ![t] = [call[t] EXCEPT !.state = id]]
        BY <3>1 DEF Found
      <4>4. \A s \in Tasks : (pc'[s] # "idle" => call'[s] \in Call)
                          /\ (pc'[s] = "update" => call'[s].state \in 1..id)
        BY <1>0, <3>1, <4>1, <4>2, <4>3 DEF EvaluatorInv, EvaluatorTypeOK, Found
      <4> QED BY <1>0, <3>1, <3>3, <3>4, <4>1, <4>3, <4>4
              DEF EvaluatorInv, EvaluatorTypeOK, Found, Group
    <3> QED BY <3>6, <3>7, <3>8 DEF EvaluatorInv
  <2> QED BY <2>2, <2>3
<1>3. ASSUME NEW t \in Tasks, UpdateGroup(t) PROVE EvaluatorInv'
  <2> DEFINE id == call[t].state
             group == UpdatedGroup(states[id], call[t].node.function, NumericValue(call[t].event))
  <2>1. id \in 1..Len(states) /\ call[t].node \in Nodes /\ call[t].event \in Events
    BY <1>3 DEF UpdateGroup, EvaluatorInv, EvaluatorTypeOK, Call
  <2>2. NumericValue(call[t].event) \in Int
    BY <2>1, EvaluatorAssumption DEF NumericValue
  <2>3. states[id] \in Group
    BY <1>0, <2>1, ElementOfSeq
  <2>4. group \in Group
    BY <2>1, <2>2, <2>3, UpdatedGroupType
  <2>5. states' = [states EXCEPT ![id] = group] /\ UNCHANGED <<cache, total_evaluations, evictions>>
    BY <1>3 DEF UpdateGroup
  <2>6. states' \in Seq(Group) /\ Len(states') = Len(states)
    <3> HIDE DEF group, id
    <3> QED BY <1>0, <2>1, <2>4, <2>5, ExceptSeq
  <2>7. Cached' = Cached
    BY <2>5 DEF Cached
  <2>8. EvaluatorTypeOK'
    <3>1. pc' = [pc EXCEPT ![t] = "idle"] /\ call' = [call EXCEPT ![t] = <<>>]
      BY <1>3 DEF UpdateGroup
    <3> QED BY <1>0, <2>5, <2>6, <3>1 DEF EvaluatorInv, EvaluatorTypeOK, Group
  <2> QED BY <2>5, <2>6, <2>7, <2>8 DEF EvaluatorInv, NoStateLost
<1>4. ASSUME NEW k \in Keys, Evict(k) PROVE EvaluatorInv'
  <2>1. Cached' = Cached \ {k} /\ k \in Cached
    BY <1>0, <1>4 DEF Cached, Evict, Nobody
  <2>2. IsFiniteSet(Cached') /\ Cardinality(Cached') = Cardinality(Cached) - 1
    BY <2>1, FS_RemoveElement DEF EvaluatorInv
  <2>3. NoStateLost'
    BY <1>0, <1>4, <2>2 DEF NoStateLost, EvaluatorInv, Evict
  <2>4. EvaluatorTypeOK'
    BY <1>0, <1>4 DEF EvaluatorInv, EvaluatorTypeOK, Evict, Nobody
  <2> QED BY <2>2, <2>3, <2>4 DEF EvaluatorInv
<1>5. ASSUME UNCHANGED aggregation PROVE EvaluatorInv'
  BY <1>5 DEF aggregation, EvaluatorInv, EvaluatorTypeOK, NoStateLost, Cached
<1> QED BY <1>1, <1>2, <1>3, <1>4, <1>5 DEF EvaluatorNext

\* However the tasks interleave, a state of a group is made only where the cache has
\* none: what was counted is given up only to an eviction.
THEOREM StatesLostToEvictionOnly == EvaluatorSpec => [](EvaluatorTypeOK /\ NoStateLost)
<1>1. EvaluatorInit => EvaluatorInv
  BY EvaluatorInvInit
<1>2. EvaluatorInv /\ [EvaluatorNext]_aggregation => EvaluatorInv'
  BY EvaluatorInvStep
<1>3. EvaluatorInv => EvaluatorTypeOK /\ NoStateLost
  BY DEF EvaluatorInv
<1> QED BY <1>1, <1>2, <1>3, PTL DEF EvaluatorSpec
------------------------------------------------------------------------------
(* What a node answers *)

Functions == {"Count", "Sum", "Average", "Min", "Max"}
Result == [state : Nat, node : Nodes, event : Events, value : Int \X Int, triggered : BOOLEAN]

\* Nodes and amounts as EvaluatorAssumption has them.
LEMMA ResultParts ==
  ASSUME NEW r \in Result
  PROVE  /\ r.state \in Nat /\ r.node.function \in Functions
         /\ Amount(r) \in -Largest..Largest /\ Amount(r) \in Int
<1>1. r.state \in Nat /\ r.node \in Nodes /\ r.event \in Events
  BY DEF Result
<1>2. r.node.function \in Functions
  BY <1>1, EvaluatorAssumption DEF Functions
<1>3. Largest \in Nat /\ (r.event.amount \in -Largest..Largest \/ r.event.amount = Missing)
  BY <1>1, EvaluatorAssumption
<1> QED BY <1>1, <1>2, <1>3 DEF Amount

\* The totals up to each of n results, given as a function.
TotalsUpTo(rs, js, n, f) ==
  f = [i \in 0..n |->
         IF i = 0 THEN 0 ELSE IF i \in js THEN f[i - 1] + Amount(rs[i]) ELSE f[i - 1]]

LEMMA TotalsAreThere ==
  ASSUME NEW rs, NEW js
  PROVE  \A n \in Nat : \E f : TotalsUpTo(rs, js, n, f)
<1> DEFINE S == {n \in Nat : \E f : TotalsUpTo(rs, js, n, f)}
<1>1. 0 \in S
  <2> DEFINE f == [i \in 0..0 |-> 0]
  <2>1. TotalsUpTo(rs, js, 0, f)
    BY DEF TotalsUpTo
  <2> QED BY <2>1
<1>2. ASSUME NEW n \in Nat, n \in S PROVE n + 1 \in S
  <2>1. PICK f : TotalsUpTo(rs, js, n, f)
    BY <1>2
  <2> DEFINE last == IF n + 1 \in js THEN f[n] + Amount(rs[n + 1]) ELSE f[n]
             g == [i \in 0..(n + 1) |-> IF i = n + 1 THEN last ELSE f[i]]
  <2>2. \A i \in 0..(n + 1) :
          g[i] = IF i = 0 THEN 0 ELSE IF i \in js THEN g[i - 1] + Amount(rs[i]) ELSE g[i - 1]
    <3> SUFFICES ASSUME NEW i \in 0..(n + 1)
                 PROVE g[i] = IF i = 0 THEN 0
                              ELSE IF i \in js THEN g[i - 1] + Amount(rs[i]) ELSE g[i - 1]
      OBVIOUS
    <3>1. CASE i = n + 1
      <4>1. i - 1 = n /\ n \in 0..(n + 1) /\ n # n + 1 /\ i # 0
        BY <3>1
      <4>2. g[i - 1] = f[n] /\ g[i] = last
        BY <3>1, <4>1
      <4> QED BY <3>1, <4>1, <4>2
    <3>2. CASE i # n + 1
      <4>1. i \in 0..n /\ g[i] = f[i]
        BY <3>2
      <4>2. i # 0 => i - 1 \in 0..n /\ i - 1 # n + 1 /\ g[i - 1] = f[i - 1]
        BY <4>1
      <4>3. f[i] = IF i = 0 THEN 0 ELSE IF i \in js THEN f[i - 1] + Amount(rs[i]) ELSE f[i - 1]
        BY <2>1, <4>1 DEF TotalsUpTo
      <4> HIDE DEF g
      <4> QED BY <4>1, <4>2, <4>3
    <3> QED BY <3>1, <3>2
  <2>3. g = [i \in 0..(n + 1) |-> g[i]]
    OBVIOUS
  <2> HIDE DEF g
  <2>4. TotalsUpTo(rs, js, n + 1, g)
    BY <2>2, <2>3 DEF TotalsUpTo
  <2> QED BY <2>4
<1> HIDE DEF S
<1>3. \A n \in Nat : n \in S
  BY <1>1, <1>2, Induction
<1> QED BY <1>3 DEF S

LEMMA TotalsOf ==
  ASSUME NEW rs \in Seq(Result), NEW js
  PROVE  /\ Totals(rs, js)[0] = 0
         /\ \A i \in 1..Len(rs) :
              Totals(rs, js)[i] = IF i \in js THEN Totals(rs, js)[i - 1] + Amount(rs[i])
                                  ELSE Totals(rs, js)[i - 1]
<1> DEFINE f == CHOOSE g : TotalsUpTo(rs, js, Len(rs), g)
<1>1. Len(rs) \in Nat
  BY LenProperties
<1>2. TotalsUpTo(rs, js, Len(rs), f)
  BY <1>1, TotalsAreThere
<1>3. Totals(rs, js) = f
  BY DEF Totals, TotalsUpTo
<1> HIDE DEF f
<1>4. \A i \in 0..Len(rs) :
        f[i] = IF i = 0 THEN 0 ELSE IF i \in js THEN f[i - 1] + Amount(rs[i]) ELSE f[i - 1]
  BY <1>2 DEF TotalsUpTo
<1>5. 0 \in 0..Len(rs) /\ \A i \in 1..Len(rs) : i \in 0..Len(rs) /\ i # 0
  BY <1>1
<1> QED BY <1>3, <1>4, <1>5

\* The totals are numbers, and as long as the results are the same and those picked are, so
\* are they.
SamePicked(rs, more, js, ks, n) ==
  /\ rs \in Seq(Result) /\ more \in Seq(Result) /\ n \in Nat /\ n <= Len(rs) /\ n <= Len(more)
  /\ \A i \in 1..n : rs[i] = more[i] /\ (i \in js <=> i \in ks)

LEMMA TotalsAgree ==
  ASSUME NEW rs, NEW more, NEW js, NEW ks, NEW n, SamePicked(rs, more, js, ks, n)
  PROVE  Totals(rs, js)[n] \in Int /\ Totals(rs, js)[n] = Totals(more, ks)[n]
<1> DEFINE s == Totals(rs, js)
           t == Totals(more, ks)
           Same == {m \in Nat : m <= n => s[m] \in Int /\ s[m] = t[m]}
<1>0. /\ rs \in Seq(Result) /\ more \in Seq(Result) /\ n \in Nat /\ n <= Len(rs) /\ n <= Len(more)
      /\ \A i \in 1..n : rs[i] = more[i] /\ (i \in js <=> i \in ks)
  BY DEF SamePicked
<1>1. Len(rs) \in Nat /\ Len(more) \in Nat /\ \A i \in 1..Len(rs) : Amount(rs[i]) \in Int
  <2>1. \A i \in 1..Len(rs) : rs[i] \in Result
    BY <1>0, ElementOfSeq
  <2> QED BY <1>0, <2>1, LenProperties, ResultParts
<1>2. /\ s[0] = 0 /\ t[0] = 0
      /\ \A i \in 1..Len(rs) : s[i] = IF i \in js THEN s[i - 1] + Amount(rs[i]) ELSE s[i - 1]
      /\ \A i \in 1..Len(more) : t[i] = IF i \in ks THEN t[i - 1] + Amount(more[i]) ELSE t[i - 1]
  BY <1>0, TotalsOf
<1> HIDE DEF s, t
<1>3. 0 \in Same
  BY <1>2
<1>4. ASSUME NEW m \in Nat, m \in Same PROVE m + 1 \in Same
  <2> SUFFICES ASSUME m + 1 <= n PROVE s[m + 1] \in Int /\ s[m + 1] = t[m + 1]
    OBVIOUS
  <2>1. /\ m + 1 \in 1..Len(rs) /\ m + 1 \in 1..Len(more) /\ m + 1 \in 1..n /\ (m + 1) - 1 = m
        /\ m <= n
    BY <1>0, <1>1
  <2>2. s[m] \in Int /\ s[m] = t[m]
    BY <1>4, <2>1
  <2>3. s[m + 1] = IF m + 1 \in js THEN s[m] + Amount(rs[m + 1]) ELSE s[m]
    BY <1>2, <2>1
  <2>4. t[m + 1] = IF m + 1 \in ks THEN t[m] + Amount(more[m + 1]) ELSE t[m]
    BY <1>2, <2>1
  <2>5. rs[m + 1] = more[m + 1] /\ (m + 1 \in js <=> m + 1 \in ks) /\ Amount(rs[m + 1]) \in Int
    BY <1>0, <1>1, <2>1
  <2> QED BY <2>2, <2>3, <2>4, <2>5
<1> HIDE DEF Same
<1>5. n \in Same
  BY <1>0, <1>3, <1>4, Induction
<1> QED BY <1>0, <1>5 DEF Same, s, t

\* A result more: the total of the others is what it was, the total with it more by its amount.
LEMMA TotalWithOneMore ==
  ASSUME NEW rs \in Seq(Result), NEW r \in Result, NEW js \in SUBSET (1..Len(rs))
  PROVE  /\ Total(rs, js) \in Int
         /\ Total(Append(rs, r), js) = Total(rs, js)
         /\ Total(Append(rs, r), js \cup {Len(rs) + 1}) = Total(rs, js) + Amount(r)
<1> DEFINE more == Append(rs, r)
           n == Len(rs)
<1>1. /\ n \in Nat /\ more \in Seq(Result) /\ Len(more) = n + 1 /\ more[n + 1] = r
      /\ \A i \in 1..n : more[i] = rs[i]
  BY LenProperties, AppendProperties
<1> HIDE DEF more, n
<1>2. n + 1 \in 1..Len(more) /\ (n + 1) - 1 = n /\ n + 1 \notin js /\ js \subseteq 1..n
  BY <1>1 DEF n
<1>3. /\ Totals(rs, js)[n] \in Int /\ Totals(more, js)[n] = Totals(rs, js)[n]
      /\ Totals(more, js \cup {n + 1})[n] = Totals(rs, js)[n]
  <2>1. n <= Len(rs) /\ n <= Len(more)
    BY <1>1 DEF n
  <2>2. ASSUME NEW ks, \A i \in 1..n : i \in js <=> i \in ks
        PROVE  Totals(rs, js)[n] \in Int /\ Totals(more, ks)[n] = Totals(rs, js)[n]
    <3>1. SamePicked(rs, more, js, ks, n)
      BY <1>1, <2>1, <2>2 DEF SamePicked
    <3> QED BY <3>1, TotalsAgree
  <2>3. \A i \in 1..n : i \in js <=> i \in js \cup {n + 1}
    BY <1>1
  <2> QED BY <2>2, <2>3
<1>4. Totals(more, js)[n + 1] = Totals(more, js)[n]
  BY <1>1, <1>2, TotalsOf
<1>5. Totals(more, js \cup {n + 1})[n + 1] = Totals(more, js \cup {n + 1})[n] + Amount(r)
  BY <1>1, <1>2, TotalsOf
<1>6. Total(rs, js) = Totals(rs, js)[n] /\ \A ks : Total(more, ks) = Totals(more, ks)[n + 1]
  BY <1>1 DEF Total, n
<1> QED BY <1>3, <1>4, <1>5, <1>6 DEF more, n

LEMMA TheLeast ==
  ASSUME NEW S \in SUBSET Int, NEW x \in S, \A y \in S : x <= y
  PROVE  Min(S) = x
<1>1. PICK m : m = Min(S)
  OBVIOUS
<1>2. m \in S /\ \A y \in S : m <= y
  BY <1>1, Zenon DEF Min
<1>3. m = x
  BY <1>2
<1> QED BY <1>1, <1>3

LEMMA TheGreatest ==
  ASSUME NEW S \in SUBSET Int, NEW x \in S, \A y \in S : x >= y
  PROVE  Max(S) = x
<1>1. PICK m : m = Max(S)
  OBVIOUS
<1>2. m \in S /\ \A y \in S : m >= y
  BY <1>1, Zenon DEF Max
<1>3. m = x
  BY <1>2
<1> QED BY <1>1, <1>3

\* The results of a state by one function, and that no other function uses its fields.
Of(rs, id, function) == {j \in 1..Len(rs) : rs[j].state = id /\ rs[j].node.function = function}
Unmixed(rs, id, function) ==
  \A j \in 1..Len(rs) : rs[j].state = id =>
    rs[j].node.function = function \/ Fields(rs[j].node.function) \cap Fields(function) = {}

\* The fields of a function hold the aggregate over some results.
Holds(group, function, rs, js) ==
  /\ "count" \in Fields(function) => group.count = Cardinality(js)
  /\ "sum" \in Fields(function) => group.sum = Total(rs, js)
  /\ "min" \in Fields(function) =>
       /\ group.min = Largest \/ \E j \in js : group.min = Amount(rs[j])
       /\ group.min <= Largest /\ \A j \in js : group.min <= Amount(rs[j])
  /\ "max" \in Fields(function) =>
       /\ group.max = -Largest \/ \E j \in js : group.max = Amount(rs[j])
       /\ group.max >= -Largest /\ \A j \in js : group.max >= Amount(rs[j])

\* What the fields hold is what is answered.
LEMMA HeldIsAnswered ==
  ASSUME NEW group \in Group, NEW function \in Functions, NEW rs \in Seq(Result),
         NEW js \in SUBSET (1..Len(rs)), js # {}, Holds(group, function, rs, js)
  PROVE  CurrentValue(group, function) = Aggregate(function, rs, js)
<1> DEFINE amounts == {Amount(rs[j]) : j \in js}
<1>1. \A j \in js : Amount(rs[j]) \in Int /\ -Largest <= Amount(rs[j]) /\ Amount(rs[j]) <= Largest
  <2>1. \A j \in js : rs[j] \in Result
    BY ElementOfSeq
  <2>2. Largest \in Nat
    BY EvaluatorAssumption
  <2> QED BY <2>1, <2>2, ResultParts
<1>2. amounts \in SUBSET Int /\ group.min \in Int /\ group.max \in Int /\ Largest \in Nat
  BY <1>1, EvaluatorAssumption DEF Group
<1>3. CASE function \in {"Count", "Sum", "Average"}
  BY <1>3 DEF CurrentValue, Aggregate, Holds, Fields
<1>4. CASE function = "Min"
  <2>1. /\ group.min = Largest \/ \E j \in js : group.min = Amount(rs[j])
        /\ \A j \in js : group.min <= Amount(rs[j])
    BY <1>4 DEF Holds, Fields
  <2>2. PICK j \in js : group.min = Amount(rs[j])
    <3>1. PICK k \in js : TRUE
      OBVIOUS
    <3>2. group.min = Largest => group.min = Amount(rs[k])
      BY <1>1, <1>2, <2>1, <3>1
    <3> QED BY <2>1, <3>1, <3>2
  <2>3. group.min \in amounts /\ \A y \in amounts : group.min <= y
    BY <2>1, <2>2
  <2> HIDE DEF amounts
  <2>4. Min(amounts) = group.min
    BY <1>2, <2>3, TheLeast
  <2> QED BY <1>4, <2>4 DEF CurrentValue, Aggregate, amounts
<1>5. CASE function = "Max"
  <2>1. /\ group.max = -Largest \/ \E j \in js : group.max = Amount(rs[j])
        /\ \A j \in js : group.max >= Amount(rs[j])
    BY <1>5 DEF Holds, Fields
  <2>2. PICK j \in js : group.max = Amount(rs[j])
    <3>1. PICK k \in js : TRUE
      OBVIOUS
    <3>2. group.max = -Largest => group.max = Amount(rs[k])
      BY <1>1, <1>2, <2>1, <3>1
    <3> QED BY <2>1, <3>1, <3>2
  <2>3. group.max \in amounts /\ \A y \in amounts : group.max >= y
    BY <2>1, <2>2
  <2> HIDE DEF amounts
  <2>4. Max(amounts) = group.max
    BY <1>2, <2>3, TheGreatest
  <2> QED BY <1>5, <2>4 DEF CurrentValue, Aggregate, amounts
<1> QED BY <1>3, <1>4, <1>5 DEF Functions

\* An update holds the aggregate over one result more in the fields of its function,
LEMMA UpdateHolds ==
  ASSUME NEW group \in Group, NEW rs \in Seq(Result), NEW r \in Result,
         NEW js \in SUBSET (1..Len(rs)), Holds(group, r.node.function, rs, js)
  PROVE  Holds(UpdatedGroup(group, r.node.function, Amount(r)), r.node.function,
               Append(rs, r), js \cup {Len(rs) + 1})
<1> DEFINE function == r.node.function
           v == Amount(r)
           new == UpdatedGroup(group, function, v)
           more == Append(rs, r)
           ks == js \cup {Len(rs) + 1}
<1>0. function \in Functions /\ v \in Int /\ -Largest <= v /\ v <= Largest /\ Largest \in Nat
  BY ResultParts, EvaluatorAssumption
<1>1. /\ Len(rs) \in Nat /\ Len(rs) + 1 \notin js /\ IsFiniteSet(js)
      /\ \A j \in js : more[j] = rs[j] /\ Amount(rs[j]) \in Int
      /\ more[Len(rs) + 1] = r
  <2>1. Len(rs) \in Nat /\ IsFiniteSet(1..Len(rs))
    BY LenProperties, FS_Interval
  <2>2. \A j \in 1..Len(rs) : more[j] = rs[j] /\ rs[j] \in Result
    BY ElementOfSeq, AppendProperties
  <2>3. more[Len(rs) + 1] = r
    BY AppendProperties
  <2>4. IsFiniteSet(js)
    BY <2>1, FS_Subset
  <2> HIDE DEF more
  <2> QED BY <2>1, <2>2, <2>3, <2>4, ResultParts
<1>2. Cardinality(ks) = Cardinality(js) + 1
  BY <1>1, FS_AddElement
<1>3. Total(more, ks) = Total(rs, js) + v
  BY TotalWithOneMore
<1>4. group.min \in Int /\ group.max \in Int /\ group.count \in Nat /\ group.sum \in Int
  BY DEF Group
<1> HIDE DEF function, v, more, ks
<1>5. CASE function \in {"Count", "Sum", "Average"}
  <2>1. /\ "count" \in Fields(function) => group.count = Cardinality(js) /\ new.count = group.count + 1
        /\ "sum" \in Fields(function) => group.sum = Total(rs, js) /\ new.sum = group.sum + v
        /\ "min" \notin Fields(function) /\ "max" \notin Fields(function)
    BY <1>5 DEF Holds, Fields, UpdatedGroup, Group, function
  <2> HIDE DEF new
  <2> QED BY <1>2, <1>3, <2>1 DEF Holds, function, v, new, more, ks
<1>6. CASE function = "Min"
  <2>1. /\ group.min = Largest \/ \E j \in js : group.min = Amount(rs[j])
        /\ group.min <= Largest /\ \A j \in js : group.min <= Amount(rs[j])
        /\ new.min = Lesser(group.min, v) /\ Fields(function) = {"min"}
    BY <1>6 DEF Holds, Fields, UpdatedGroup, Group, function
  <2> HIDE DEF new
  <2>2. \A j \in ks : j \in js \/ (j = Len(rs) + 1 /\ Amount(more[j]) = v)
    BY <1>1 DEF ks, v
  <2>3. \A j \in js : j \in ks /\ Amount(more[j]) = Amount(rs[j])
    BY <1>1 DEF ks
  <2>4. Len(rs) + 1 \in ks /\ Amount(more[Len(rs) + 1]) = v
    BY <1>1 DEF ks, v
  <2>5. new.min = Largest \/ \E j \in ks : new.min = Amount(more[j])
    BY <2>1, <2>3, <2>4 DEF Lesser
  <2>6. new.min \in Int /\ new.min <= group.min /\ new.min <= v
    BY <1>0, <1>4, <2>1 DEF Lesser
  <2>7. ASSUME NEW j \in ks PROVE new.min <= Amount(more[j])
    <3>1. CASE j \in js
      <4>1. Amount(more[j]) = Amount(rs[j]) /\ Amount(rs[j]) \in Int /\ group.min <= Amount(rs[j])
        BY <1>1, <2>1, <2>3, <3>1
      <4> QED BY <1>4, <2>6, <4>1
    <3>2. CASE Amount(more[j]) = v
      BY <2>6, <3>2
    <3> QED BY <2>2, <3>1, <3>2
  <2>8. new.min <= Largest
    BY <1>0, <1>4, <2>1, <2>6
  <2> QED BY <2>1, <2>5, <2>7, <2>8 DEF Holds, function, v, new, more, ks
<1>7. CASE function = "Max"
  <2>1. /\ group.max = -Largest \/ \E j \in js : group.max = Amount(rs[j])
        /\ group.max >= -Largest /\ \A j \in js : group.max >= Amount(rs[j])
        /\ new.max = Greater(group.max, v) /\ Fields(function) = {"max"}
    BY <1>7 DEF Holds, Fields, UpdatedGroup, Group, function
  <2> HIDE DEF new
  <2>2. \A j \in ks : j \in js \/ (j = Len(rs) + 1 /\ Amount(more[j]) = v)
    BY <1>1 DEF ks, v
  <2>3. \A j \in js : j \in ks /\ Amount(more[j]) = Amount(rs[j])
    BY <1>1 DEF ks
  <2>4. Len(rs) + 1 \in ks /\ Amount(more[Len(rs) + 1]) = v
    BY <1>1 DEF ks, v
  <2>5. new.max = -Largest \/ \E j \in ks : new.max = Amount(more[j])
    BY <2>1, <2>3, <2>4 DEF Greater
  <2>6. new.max \in Int /\ new.max >= group.max /\ new.max >= v
    BY <1>0, <1>4, <2>1 DEF Greater
  <2>7. ASSUME NEW j \in ks PROVE new.max >= Amount(more[j])
    <3>1. CASE j \in js
      <4>1. Amount(more[j]) = Amount(rs[j]) /\ Amount(rs[j]) \in Int /\ group.max >= Amount(rs[j])
        BY <1>1, <2>1, <2>3, <3>1
      <4> QED BY <1>4, <2>6, <4>1
    <3>2. CASE Amount(more[j]) = v
      BY <2>6, <3>2
    <3> QED BY <2>2, <3>1, <3>2
  <2>8. new.max >= -Largest
    BY <1>0, <1>4, <2>1, <2>6
  <2> QED BY <2>1, <2>5, <2>7, <2>8 DEF Holds, function, v, new, more, ks
<1> QED BY <1>0, <1>5, <1>6, <1>7 DEF Functions

\* and leaves what other fields hold over the results before it.
LEMMA UpdateLeaves ==
  ASSUME NEW group \in Group, NEW rs \in Seq(Result), NEW r \in Result, NEW function \in Functions,
         Fields(r.node.function) \cap Fields(function) = {},
         NEW js \in SUBSET (1..Len(rs)), Holds(group, function, rs, js)
  PROVE  Holds(UpdatedGroup(group, r.node.function, Amount(r)), function, rs, js)
<1> DEFINE other == r.node.function
           new == UpdatedGroup(group, other, Amount(r))
<1>1. other \in Functions
  BY ResultParts
<1> HIDE DEF other
<1>2. /\ "count" \notin Fields(other) => new.count = group.count
      /\ "sum" \notin Fields(other) => new.sum = group.sum
      /\ "min" \notin Fields(other) => new.min = group.min
      /\ "max" \notin Fields(other) => new.max = group.max
  BY <1>1 DEF UpdatedGroup, Fields, Functions, Group
<1> HIDE DEF new
<1>3. \A field : field \in Fields(function) => field \notin Fields(other)
  BY DEF other
<1> QED BY <1>2, <1>3 DEF Holds, new, other

\* A group that is new holds the aggregates over no result.
LEMMA NewHolds ==
  ASSUME NEW rs \in Seq(Result), NEW function
  PROVE  Holds(NewGroup, function, rs, {})
<1>1. Total(rs, {}) = 0
  <2> DEFINE t == Totals(rs, {})
             Zero == {n \in Nat : n <= Len(rs) => t[n] = 0}
  <2>1. t[0] = 0 /\ \A i \in 1..Len(rs) : t[i] = t[i - 1]
    BY TotalsOf
  <2>2. Len(rs) \in Nat
    BY LenProperties
  <2> HIDE DEF t
  <2>3. 0 \in Zero
    BY <2>1
  <2>4. ASSUME NEW n \in Nat, n \in Zero PROVE n + 1 \in Zero
    <3> SUFFICES ASSUME n + 1 <= Len(rs) PROVE t[n + 1] = 0
      OBVIOUS
    <3>1. n + 1 \in 1..Len(rs) /\ (n + 1) - 1 = n /\ t[n] = 0
      BY <2>2, <2>4
    <3> QED BY <2>1, <3>1
  <2> HIDE DEF Zero
  <2>5. Len(rs) \in Zero
    BY <2>2, <2>3, <2>4, Induction
  <2> QED BY <2>5, <2>2 DEF Zero, t, Total
<1>2. Largest \in Nat
  BY EvaluatorAssumption
<1> QED BY <1>1, <1>2, FS_EmptySet DEF Holds, NewGroup

\* What is held does not depend on the results that come after.
LEMMA HeldLater ==
  ASSUME NEW group, NEW function, NEW rs \in Seq(Result), NEW r \in Result,
         NEW js \in SUBSET (1..Len(rs))
  PROVE  /\ Holds(group, function, Append(rs, r), js) <=> Holds(group, function, rs, js)
         /\ Aggregate(function, Append(rs, r), js) = Aggregate(function, rs, js)
<1> DEFINE more == Append(rs, r)
<1>1. Total(more, js) = Total(rs, js)
  BY TotalWithOneMore
<1>2. \A j \in js : more[j] = rs[j]
  BY AppendProperties
<1> HIDE DEF more
<1>3. {Amount(more[j]) : j \in js} = {Amount(rs[j]) : j \in js}
  BY <1>2
<1>4. Aggregate(function, more, js) = Aggregate(function, rs, js)
  BY <1>1, <1>3 DEF Aggregate
<1>5. Holds(group, function, more, js) <=> Holds(group, function, rs, js)
  BY <1>1, <1>2 DEF Holds
<1> QED BY <1>4, <1>5 DEF more

\* Each update so far answered exactly, and the fields of every function that is alone on them
\* hold its aggregate.
StatesHold ==
  \A id \in 1..Len(states), function \in Functions :
    Unmixed(results, id, function) => Holds(states[id], function, results, Of(results, id, function))
AloneInv ==
  /\ EvaluatorInv /\ results \in Seq(Result)
  /\ \A j \in 1..Len(results) : results[j].state \in 1..Len(states)
  /\ StatesHold /\ AloneIsExact

\* The groups after a result more, of the state that was updated and of the others.
LEMMA OneMoreHolds ==
  ASSUME NEW group \in Group, NEW rs \in Seq(Result), NEW r \in Result, NEW function \in Functions,
         Unmixed(Append(rs, r), r.state, function),
         Unmixed(rs, r.state, function) => Holds(group, function, rs, Of(rs, r.state, function))
  PROVE  Holds(UpdatedGroup(group, r.node.function, Amount(r)), function,
               Append(rs, r), Of(Append(rs, r), r.state, function))
<1> DEFINE more == Append(rs, r)
           id == r.state
           js == Of(rs, id, function)
           new == UpdatedGroup(group, r.node.function, Amount(r))
<1>1. /\ Len(rs) \in Nat /\ more \in Seq(Result) /\ Len(more) = Len(rs) + 1
      /\ more[Len(rs) + 1] = r /\ \A j \in 1..Len(rs) : more[j] = rs[j]
  BY LenProperties, AppendProperties
<1> HIDE DEF more
<1>2. \A j \in 1..Len(rs) : j \in 1..Len(more)
  BY <1>1
<1>3. Unmixed(rs, id, function)
  BY <1>1, <1>2 DEF Unmixed, more
<1>4. js \in SUBSET (1..Len(rs)) /\ Holds(group, function, rs, js)
  BY <1>3 DEF Of
<1>5. CASE r.node.function = function
  <2>1. Of(more, id, function) = js \cup {Len(rs) + 1}
    BY <1>1, <1>5 DEF Of
  <2>2. Holds(new, function, more, js \cup {Len(rs) + 1})
    BY <1>4, <1>5, UpdateHolds DEF more
  <2> QED BY <2>1, <2>2 DEF more
<1>6. CASE r.node.function # function
  <2>1. Fields(r.node.function) \cap Fields(function) = {}
    <3>1. Len(rs) + 1 \in 1..Len(more) /\ more[Len(rs) + 1].state = id
      BY <1>1
    <3> QED BY <1>1, <1>6, <3>1 DEF Unmixed, more
  <2>2. Of(more, id, function) = js
    BY <1>1, <1>6 DEF Of
  <2> HIDE DEF js, new, id
  <2>3. Holds(new, function, rs, js)
    BY <1>4, <2>1, UpdateLeaves DEF new
  <2>4. Holds(new, function, more, js)
    BY <1>4, <2>3, HeldLater DEF more
  <2> QED BY <2>2, <2>4 DEF more, new, id
<1> QED BY <1>5, <1>6

LEMMA OthersHold ==
  ASSUME NEW group, NEW rs \in Seq(Result), NEW r \in Result, NEW function \in Functions,
         NEW id, id # r.state,
         Unmixed(Append(rs, r), id, function),
         Unmixed(rs, id, function) => Holds(group, function, rs, Of(rs, id, function))
  PROVE  Holds(group, function, Append(rs, r), Of(Append(rs, r), id, function))
<1> DEFINE more == Append(rs, r)
           js == Of(rs, id, function)
<1>1. /\ Len(rs) \in Nat /\ more \in Seq(Result) /\ Len(more) = Len(rs) + 1
      /\ more[Len(rs) + 1] = r /\ \A j \in 1..Len(rs) : more[j] = rs[j]
  BY LenProperties, AppendProperties
<1> HIDE DEF more
<1>2. \A j \in 1..Len(rs) : j \in 1..Len(more)
  BY <1>1
<1>3. Unmixed(rs, id, function)
  BY <1>1, <1>2 DEF Unmixed, more
<1>4. js \in SUBSET (1..Len(rs)) /\ Holds(group, function, rs, js)
  BY <1>3 DEF Of
<1>5. Of(more, id, function) = js
  BY <1>1 DEF Of
<1> HIDE DEF js
<1>6. Holds(group, function, more, js)
  BY <1>4, HeldLater DEF more
<1> QED BY <1>5, <1>6 DEF more

\* That an answer is exact, of any list of results.
ExactAt(rs, i) ==
  LET function == rs[i].node.function
      before == {j \in 1..i : rs[j].state = rs[i].state}
  IN (\A j \in before : rs[j].node.function = function
        \/ Fields(rs[j].node.function) \cap Fields(function) = {})
     => rs[i].value = Aggregate(function, rs, {j \in before : rs[j].node.function = function})

LEMMA ExactEverywhere == AloneIsExact <=> \A i \in DOMAIN results : ExactAt(results, i)
BY DEF AloneIsExact, ExactAt, Before, Alike

LEMMA StillExact ==
  ASSUME NEW rs \in Seq(Result), NEW r \in Result, NEW i \in 1..Len(rs), ExactAt(rs, i)
  PROVE  ExactAt(Append(rs, r), i)
<1> DEFINE more == Append(rs, r)
           js == {j \in 1..i : rs[j].state = rs[i].state /\ rs[j].node.function = rs[i].node.function}
<1>1. Len(rs) \in Nat /\ \A j \in 1..Len(rs) : more[j] = rs[j]
  BY LenProperties, AppendProperties
<1>2. more[i] = rs[i] /\ \A j \in 1..i : more[j] = rs[j] /\ j \in 1..Len(rs)
  BY <1>1
<1>3. Aggregate(rs[i].node.function, more, js) = Aggregate(rs[i].node.function, rs, js)
  BY <1>2, HeldLater
<1> HIDE DEF more
<1>4. {j \in {k \in 1..i : rs[k].state = rs[i].state} : rs[j].node.function = rs[i].node.function} = js
  OBVIOUS
<1>5. {j \in {k \in 1..i : more[k].state = more[i].state} : more[j].node.function = more[i].node.function} = js
  BY <1>2
<1> HIDE DEF js
<1>6. (\A j \in {k \in 1..i : more[k].state = more[i].state} : more[j].node.function = more[i].node.function
         \/ Fields(more[j].node.function) \cap Fields(more[i].node.function) = {})
      => \A j \in {k \in 1..i : rs[k].state = rs[i].state} : rs[j].node.function = rs[i].node.function
         \/ Fields(rs[j].node.function) \cap Fields(rs[i].node.function) = {}
  BY <1>2
<1> QED BY <1>2, <1>3, <1>4, <1>5, <1>6 DEF ExactAt, more

LEMMA AnswerExact ==
  ASSUME NEW rs \in Seq(Result), NEW r \in Result, NEW new \in Group,
         r.value = CurrentValue(new, r.node.function),
         Unmixed(Append(rs, r), r.state, r.node.function) =>
           Holds(new, r.node.function, Append(rs, r), Of(Append(rs, r), r.state, r.node.function))
  PROVE  ExactAt(Append(rs, r), Len(rs) + 1)
<1> DEFINE more == Append(rs, r)
           last == Len(rs) + 1
           before == {j \in 1..last : more[j].state = more[last].state}
           js == Of(more, r.state, r.node.function)
<1>1. Len(rs) \in Nat /\ more \in Seq(Result) /\ Len(more) = last /\ more[last] = r /\ last \in 1..last
  BY LenProperties, AppendProperties
<1> HIDE DEF more, last
<1> SUFFICES ASSUME \A j \in before : more[j].node.function = more[last].node.function
                      \/ Fields(more[j].node.function) \cap Fields(more[last].node.function) = {}
             PROVE  more[last].value = Aggregate(more[last].node.function, more,
                      {j \in before : more[j].node.function = more[last].node.function})
  BY DEF ExactAt, more, last
<1>2. Unmixed(more, r.state, r.node.function)
  BY <1>1 DEF Unmixed
<1>3. js \in SUBSET (1..Len(more)) /\ last \in js
  BY <1>1 DEF Of
<1>4. {j \in before : more[j].node.function = more[last].node.function} = js
  BY <1>1 DEF Of
<1> HIDE DEF js, before
<1>5. r.node.function \in Functions
  BY ResultParts
<1>6. Holds(new, r.node.function, more, js)
  BY <1>2 DEF more, js
<1>7. CurrentValue(new, r.node.function) = Aggregate(r.node.function, more, js)
  BY <1>1, <1>3, <1>5, <1>6, HeldIsAnswered
<1> QED BY <1>1, <1>4, <1>7

LEMMA AnswerIsResult ==
  ASSUME NEW n \in Nodes, NEW e \in Events, NEW id \in Nat, NEW new \in Group
  PROVE  LET value == CurrentValue(new, n.function) IN
         [state |-> id, node |-> n, event |-> e, value |-> value,
          triggered |-> Compares(value, n.comparison, n.threshold)] \in Result
<1> DEFINE value == CurrentValue(new, n.function)
<1>1. n.function \in Functions /\ n.threshold \in Int
      /\ n.comparison \in {">", ">=", "<", "<=", "==", "!="}
  BY EvaluatorAssumption DEF Functions
<1>2. value \in Int \X Int
  BY <1>1 DEF CurrentValue, Functions, Group
<1> HIDE DEF value
<1>3. Compares(value, n.comparison, n.threshold) \in BOOLEAN
  <2> DEFINE bound == n.threshold * value[2]
  <2>1. value[1] \in Int /\ value[2] \in Int
    BY <1>2
  <2>2. bound \in Int
    BY <1>1, <2>1
  <2> HIDE DEF bound
  <2>3. /\ (value[1] > bound) \in BOOLEAN /\ (value[1] >= bound) \in BOOLEAN
        /\ (value[1] < bound) \in BOOLEAN /\ (value[1] <= bound) \in BOOLEAN
        /\ (value[1] = bound) \in BOOLEAN /\ (value[1] # bound) \in BOOLEAN
    BY <2>1, <2>2
  <2>4. CASE n.comparison = ">"
    BY <2>3, <2>4, Zenon DEF Compares, bound
  <2>5. CASE n.comparison = ">="
    BY <2>3, <2>5, Zenon DEF Compares, bound
  <2>6. CASE n.comparison = "<"
    BY <2>3, <2>6, Zenon DEF Compares, bound
  <2>7. CASE n.comparison = "<="
    BY <2>3, <2>7, Zenon DEF Compares, bound
  <2>8. CASE n.comparison = "=="
    BY <2>3, <2>8, Zenon DEF Compares, bound
  <2>9. CASE n.comparison = "!="
    BY <2>3, <2>9, Zenon DEF Compares, bound
  <2> QED BY <1>1, <2>4, <2>5, <2>6, <2>7, <2>8, <2>9
<1> QED BY <1>2, <1>3 DEF Result, value

LEMMA AloneInit == EvaluatorInit => AloneInv
<1> SUFFICES ASSUME EvaluatorInit PROVE AloneInv
  OBVIOUS
<1>1. EvaluatorInv
  BY EvaluatorInvInit
<1>2. results = <<>> /\ states = <<>>
  BY DEF EvaluatorInit
<1>3. results \in Seq(Result) /\ Len(results) = 0 /\ Len(states) = 0 /\ DOMAIN results = {}
  BY <1>2
<1>4. 1..Len(results) = {} /\ 1..Len(states) = {}
  BY <1>3
<1>5. StatesHold
  BY <1>4, Zenon DEF StatesHold
<1>6. AloneIsExact
  BY <1>3, Zenon DEF AloneIsExact
<1> QED BY <1>1, <1>3, <1>4, <1>5, <1>6, Zenon DEF AloneInv

LEMMA AloneStep == AloneInv /\ [EvaluatorNext]_aggregation => AloneInv'
<1> SUFFICES ASSUME AloneInv, [EvaluatorNext]_aggregation PROVE AloneInv'
  OBVIOUS
<1>0. /\ EvaluatorInv /\ EvaluatorInv' /\ results \in Seq(Result) /\ states \in Seq(Group)
      /\ Len(states) \in Nat /\ Len(results) \in Nat /\ DOMAIN results = 1..Len(results)
  BY EvaluatorInvStep, LenProperties DEF AloneInv, EvaluatorInv, EvaluatorTypeOK, Group
<1>1. CASE UNCHANGED <<states, results>>
  <2>1. StatesHold' /\ AloneIsExact'
    BY <1>1, ExactEverywhere DEF AloneInv, StatesHold, AloneIsExact, Before, Alike
  <2> QED BY <1>0, <1>1, <2>1 DEF AloneInv
<1>2. CASE states' = Append(states, NewGroup) /\ results' = results
  <2>1. NewGroup \in Group
    BY EvaluatorAssumption DEF NewGroup, Group
  <2>2. /\ Len(states') = Len(states) + 1 /\ states'[Len(states) + 1] = NewGroup
        /\ \A id \in 1..Len(states) : states'[id] = states[id]
    BY <1>0, <1>2, <2>1, AppendProperties
  <2>3. \A j \in 1..Len(results) : results[j].state \in 1..Len(states)
    BY DEF AloneInv
  <2>4. ASSUME NEW id \in 1..Len(states'), NEW function \in Functions, Unmixed(results, id, function)
        PROVE  Holds(states'[id], function, results, Of(results, id, function))
    <3>1. CASE id \in 1..Len(states)
      BY <2>2, <2>4, <3>1 DEF AloneInv, StatesHold
    <3>2. CASE id = Len(states) + 1
      <4>1. Of(results, id, function) = {}
        BY <1>0, <2>3, <3>2 DEF Of
      <4>2. Holds(NewGroup, function, results, {})
        BY <1>0, NewHolds
      <4> QED BY <2>2, <3>2, <4>1, <4>2
    <3> QED BY <1>0, <2>2, <3>1, <3>2
  <2>5. StatesHold'
    BY <1>2, <2>4 DEF StatesHold
  <2>6. AloneIsExact'
    BY <1>2 DEF AloneInv, AloneIsExact, Before, Alike
  <2>7. \A j \in 1..Len(results') : results'[j].state \in 1..Len(states')
    BY <1>0, <1>2, <2>2, <2>3
  <2> QED BY <1>0, <1>2, <2>5, <2>6, <2>7 DEF AloneInv
<1>3. ASSUME NEW t \in Tasks, UpdateGroup(t) PROVE AloneInv'
  <2> DEFINE id == call[t].state
             node == call[t].node
             event == call[t].event
             new == UpdatedGroup(states[id], node.function, NumericValue(event))
             value == CurrentValue(new, node.function)
             r == [state |-> id, node |-> node, event |-> event, value |-> value,
                   triggered |-> Compares(value, node.comparison, node.threshold)]
  <2>1. id \in 1..Len(states) /\ node \in Nodes /\ event \in Events /\ id \in Nat
    BY <1>0, <1>3 DEF UpdateGroup, EvaluatorInv, EvaluatorTypeOK, Call
  <2>2. NumericValue(event) \in Int /\ states[id] \in Group
    BY <1>0, <2>1, ElementOfSeq, EvaluatorAssumption DEF NumericValue
  <2>3. new \in Group
    BY <2>1, <2>2, UpdatedGroupType
  <2>4. r \in Result
    BY <2>1, <2>3, AnswerIsResult
  <2>5. /\ states' = [states EXCEPT ![id] = new] /\ results' = Append(results, r)
        /\ r.state = id /\ r.node = node /\ r.value = value /\ NumericValue(event) = Amount(r)
    BY <1>3 DEF UpdateGroup, Amount, NumericValue
  <2>6. PICK s, g, f : s = r /\ g = new /\ f = node.function
    OBVIOUS
  <2>7. /\ s \in Result /\ g \in Group /\ results' = Append(results, s) /\ s.state = id
        /\ s.node.function = f /\ s.value = CurrentValue(g, f)
        /\ g = UpdatedGroup(states[id], f, Amount(s)) /\ states' = [states EXCEPT ![id] = g]
    BY <2>3, <2>4, <2>5, <2>6
  <2> HIDE DEF r, new, value, node, event, id
  <2>8. /\ Len(states') = Len(states) /\ states'[id] = g
        /\ \A d \in 1..Len(states) : d # id => states'[d] = states[d]
    BY <1>0, <2>1, <2>7, ExceptSeq
  <2>9. /\ results' \in Seq(Result) /\ Len(results') = Len(results) + 1
        /\ results'[Len(results) + 1] = s /\ \A j \in 1..Len(results) : results'[j] = results[j]
        /\ DOMAIN results' = 1..Len(results')
    BY <1>0, <2>7, AppendProperties
  <2>10. ASSUME NEW d \in 1..Len(states), NEW function \in Functions, Unmixed(results', d, function)
         PROVE  Holds(states'[d], function, results', Of(results', d, function))
    <3>1. Unmixed(results, d, function) => Holds(states[d], function, results, Of(results, d, function))
      BY DEF AloneInv, StatesHold
    <3>2. CASE d = id
      BY <1>0, <2>1, <2>2, <2>7, <2>8, <2>10, <3>1, <3>2, OneMoreHolds
    <3>3. CASE d # id
      BY <1>0, <2>7, <2>8, <2>10, <3>1, <3>3, OthersHold
    <3> QED BY <3>2, <3>3
  <2>11. StatesHold'
    BY <2>8, <2>10 DEF StatesHold
  <2>12. \A i \in 1..Len(results) : ExactAt(results, i)
    BY <1>0, ExactEverywhere DEF AloneInv
  <2>13. f \in Functions
    BY <2>7, ResultParts
  <2>14. ExactAt(results', Len(results) + 1)
    <3>1. Unmixed(Append(results, s), s.state, s.node.function) =>
            Holds(g, s.node.function, Append(results, s), Of(Append(results, s), s.state, s.node.function))
      BY <2>1, <2>7, <2>8, <2>10, <2>13
    <3> QED BY <1>0, <2>7, <3>1, AnswerExact
  <2>15. \A i \in DOMAIN results' : ExactAt(results', i)
    <3>1. ASSUME NEW i \in 1..Len(results) PROVE ExactAt(results', i)
      BY <1>0, <2>7, <2>12, StillExact
    <3> QED BY <1>0, <2>9, <2>14, <3>1
  <2>16. AloneIsExact'
    BY <2>15 DEF AloneIsExact, ExactAt, Before, Alike
  <2>17. \A j \in 1..Len(results') : results'[j].state \in 1..Len(states')
    <3>1. ASSUME NEW j \in 1..Len(results') PROVE results'[j].state \in 1..Len(states')
      <4>1. CASE j \in 1..Len(results)
        BY <2>8, <2>9, <4>1 DEF AloneInv
      <4>2. CASE j = Len(results) + 1
        BY <2>1, <2>7, <2>8, <2>9, <4>2
      <4> QED BY <1>0, <2>9, <4>1, <4>2
    <3> QED BY <3>1
  <2> QED BY <1>0, <2>9, <2>11, <2>16, <2>17 DEF AloneInv
<1>4. \/ UNCHANGED <<states, results>>
      \/ states' = Append(states, NewGroup) /\ results' = results
      \/ \E t \in Tasks : UpdateGroup(t)
  BY DEF EvaluatorNext, Evaluate, GetGroup, Found, Evict, aggregation
<1> QED BY <1>1, <1>2, <1>3, <1>4

\* However the updates of several tasks interleave with each other and with evictions, a node
\* whose fields no other function uses answers the aggregate over the updates of its state.
THEOREM AloneNodesAreExact == EvaluatorSpec => []AloneIsExact
<1>1. AloneInv => AloneIsExact
  BY DEF AloneInv
<1> QED BY <1>1, AloneInit, AloneStep, PTL DEF EvaluatorSpec
==============================================================================
