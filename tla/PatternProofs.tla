----------------------------- MODULE PatternProofs -----------------------------
(***************************************************************************)
(* What is proved of the patterns.  The pool of pattern strings, for every *)
(* set of threads and texts: one Arc per text at a time, and no more texts *)
(* than the capacity if a share of it can be evicted.  The escape of a     *)
(* text for the glob crate, for every text: both copies of it give the     *)
(* text escaped, and the buffer that one of them fills is long enough.     *)
(***************************************************************************)
EXTENDS StringInterner, SigmaEscape, FiniteSetTheorems, SequenceTheorems, WellFoundedInduction, TLAPS

------------------------------------------------------------------------------
(* The pool: the invariant is the conjunction of what is shown with the    *)
(* types; Insert() and Panic() are the only steps that change the map.     *)

PoolOK(m, mk, rm) ==
  /\ DOMAIN m \subseteq Text
  /\ \A s \in Text : mk[s] = rm[s] + (IF s \in DOMAIN m THEN 1 ELSE 0)
  /\ \A s \in DOMAIN m : m[s] = mk[s]

Inv ==
  /\ max_capacity \in Nat
  /\ want \in [Thread -> Text] /\ made \in [Text -> Nat] /\ removed \in [Text -> Nat]
  /\ PoolOK(strings, made, removed)
  /\ EvictedShare <= max_capacity => Cardinality(Pooled) <= max_capacity

------------------------------------------------------------------------------
\* What the eviction leaves of the entries, with one more, is within the capacity.
LEMMA EvictionMakesRoom ==
  ASSUME NEW S \in SUBSET Text, NEW V \in Evicted(S), NEW s \in Text, max_capacity \in Nat,
         EvictedShare <= max_capacity, Cardinality(S) <= max_capacity
  PROVE  V \subseteq S /\ Cardinality((S \ V) \cup {s}) <= max_capacity
<1> DEFINE q == max_capacity \div EvictedShare
           Rest == S \ V
<1>1. IsFiniteSet(Text) /\ EvictedShare \in Nat \ {0}  BY InternerAssumption
<1>2. V \subseteq S  BY DEF Evicted
<1>3. IsFiniteSet(S) /\ IsFiniteSet(V) /\ IsFiniteSet(Rest)  BY <1>1, <1>2, FS_Subset
<1>4. /\ Cardinality(S) \in Nat /\ Cardinality(V) \in Nat /\ Cardinality(Rest) \in Nat
      /\ Cardinality(Rest) = Cardinality(S) - Cardinality(V)
  <2>1. V = S \cap V  BY <1>2
  <2>2. Cardinality(Rest) = Cardinality(S) - Cardinality(S \cap V)  BY <1>3, FS_Difference
  <2> QED  BY <1>3, <2>1, <2>2, FS_CardinalityType
<1>5. Cardinality(Rest) < max_capacity
  <2>1. CASE Cardinality(S) >= max_capacity
    <3>1. Cardinality(V) = q  BY <2>1 DEF Evicted
    <3>2. q \in Nat /\ q >= 1  BY <1>1
    <3> HIDE DEF q, Rest
    <3> QED  BY <1>4, <2>1, <3>1, <3>2
  <2>2. CASE ~(Cardinality(S) >= max_capacity)
    <3> HIDE DEF Rest
    <3> QED  BY <1>4, <2>2
  <2> QED  BY <2>1, <2>2
<1> HIDE DEF Rest
<1>6. Cardinality(Rest \cup {s}) <= Cardinality(Rest) + 1
  <2>1. CASE s \in Rest
    <3>1. Cardinality(Rest \cup {s}) = Cardinality(Rest)  BY <1>3, <2>1, FS_AddElement
    <3>2. Cardinality(Rest) \in Nat  BY <1>3, FS_CardinalityType
    <3> HIDE DEF Rest
    <3> QED  BY <3>1, <3>2
  <2>2. CASE s \notin Rest
    <3>1. Cardinality(Rest \cup {s}) = Cardinality(Rest) + 1  BY <1>3, <2>2, FS_AddElement
    <3>2. Cardinality(Rest) \in Nat  BY <1>3, FS_CardinalityType
    <3> QED  BY <3>1, <3>2
  <2> QED  BY <2>1, <2>2
<1>7. Cardinality(Rest \cup {s}) \in Nat  BY <1>3, FS_AddElement, FS_CardinalityType
<1> QED  BY <1>2, <1>4, <1>5, <1>6, <1>7 DEF Rest

\* The entries that stay are entries.
LEMMA KeptPooled == Kept \subseteq Pooled
BY DEF Kept

LEMMA InvInitially == InternerInit => Inv
<1> SUFFICES ASSUME InternerInit  PROVE Inv  OBVIOUS
<1>1. Pooled = {}  BY DEF InternerInit, Pooled
<1>2. max_capacity \in Nat  BY InternerAssumption DEF InternerInit
<1>3. Cardinality(Pooled) = 0  BY <1>1, FS_EmptySet
<1>4. PoolOK(strings, made, removed)  BY DEF InternerInit, PoolOK
<1> QED  BY <1>2, <1>3, <1>4 DEF InternerInit, Inv

\* A new Arc: its text is not in the map any more, so that the others are removed.
LEMMA InsertKeeps == ASSUME Inv, NEW t \in Thread, Insert(t)  PROVE Inv'
<1> DEFINE s == want[t]
<1>1. s \in Text /\ s \notin Kept  BY DEF Inv, Insert
<1>2. PICK V \in Evicted(Kept) : Add(s, V)  BY DEF Insert
<1> DEFINE Rest == Kept \ V
<1>3. Kept \subseteq Pooled /\ Pooled \subseteq Text  BY KeptPooled DEF Inv, PoolOK, Pooled
<1>4. /\ removed' = [x \in Text |-> IF x \in Pooled \ Rest THEN removed[x] + 1 ELSE removed[x]]
      /\ strings' = [x \in Rest \cup {s} |-> IF x = s THEN made[s] + 1 ELSE strings[x]]
      /\ made' = [made EXCEPT ![s] = @ + 1] /\ max_capacity' = max_capacity /\ want' = want
  BY <1>2 DEF Add, RemoveAllBut, Insert
<1>5. Rest \subseteq Pooled /\ s \notin Rest  BY <1>1, <1>3
<1>6. made \in [Text -> Nat] /\ removed \in [Text -> Nat]  BY DEF Inv
<1>7. made' \in [Text -> Nat] /\ removed' \in [Text -> Nat]
  <2>1. made[s] + 1 \in Nat  BY <1>1, <1>6
  <2>2. made' \in [Text -> Nat]  BY <1>4, <1>6, <2>1
  <2>3. removed' \in [Text -> Nat]  BY <1>4, <1>6
  <2> QED  BY <2>2, <2>3
<1> HIDE DEF s, Rest
<1>8. PoolOK(strings', made', removed')
  <2>1. DOMAIN strings' = Rest \cup {s}  BY <1>4
  <2>2. ASSUME NEW x \in Text
        PROVE  made'[x] = removed'[x] + (IF x \in Rest \cup {s} THEN 1 ELSE 0)
    <3>1. made[x] = removed[x] + (IF x \in Pooled THEN 1 ELSE 0)  BY DEF Inv, PoolOK, Pooled
    <3> QED  BY <1>1, <1>4, <1>5, <1>6, <3>1
  <2>3. ASSUME NEW x \in Rest \cup {s}  PROVE strings'[x] = made'[x]
    <3>1. x # s => strings[x] = made[x]  BY <1>5 DEF Inv, PoolOK, Pooled
    <3> QED  BY <1>1, <1>3, <1>4, <1>5, <1>6, <3>1
  <2> QED  BY <1>1, <1>3, <1>5, <2>1, <2>2, <2>3 DEF PoolOK
<1>9. EvictedShare <= max_capacity' => Cardinality(Pooled') <= max_capacity'
  <2> SUFFICES ASSUME EvictedShare <= max_capacity  PROVE Cardinality(Pooled') <= max_capacity
    BY <1>4
  <2>1. Cardinality(Kept) <= max_capacity
    <3>1. IsFiniteSet(Pooled)  BY <1>3, InternerAssumption, FS_Subset
    <3>2. Cardinality(Kept) <= Cardinality(Pooled) /\ Cardinality(Kept) \in Nat /\ Cardinality(Pooled) \in Nat
      BY <1>3, <3>1, FS_Subset, FS_CardinalityType
    <3> QED  BY <3>2 DEF Inv
  <2>2. Pooled' = (Kept \ V) \cup {s}  BY <1>4 DEF Pooled, Rest
  <2>3. max_capacity \in Nat /\ Kept \in SUBSET Text  BY <1>3 DEF Inv
  <2> QED  BY <1>1, <2>1, <2>2, <2>3, EvictionMakesRoom
<1> QED  BY <1>4, <1>7, <1>8, <1>9 DEF Inv, s

\* A panic after the eviction: every entry that is gone is removed.
LEMMA PanicKeeps == ASSUME Inv, NEW t \in Thread, Panic(t)  PROVE Inv'
<1>1. PICK V : /\ RemoveAllBut(Kept \ V)
               /\ strings' = [x \in Kept \ V |-> strings[x]]
  BY DEF Panic
<1> DEFINE Rest == Kept \ V
<1>2. Rest \subseteq Pooled /\ Pooled \subseteq Text  BY KeptPooled DEF Inv, PoolOK, Pooled
<1>3. /\ removed' = [x \in Text |-> IF x \in Pooled \ Rest THEN removed[x] + 1 ELSE removed[x]]
      /\ strings' = [x \in Rest |-> strings[x]]
      /\ made' = made /\ max_capacity' = max_capacity /\ want' = want
  BY <1>1 DEF RemoveAllBut, Panic
<1> HIDE DEF Rest
<1>4. made \in [Text -> Nat] /\ removed \in [Text -> Nat]  BY DEF Inv
<1>5. removed' \in [Text -> Nat]  BY <1>3, <1>4
<1>6. PoolOK(strings', made', removed')
  <2>1. DOMAIN strings' = Rest  BY <1>3
  <2>2. ASSUME NEW x \in Text  PROVE made'[x] = removed'[x] + (IF x \in Rest THEN 1 ELSE 0)
    <3>1. made[x] = removed[x] + (IF x \in Pooled THEN 1 ELSE 0)  BY DEF Inv, PoolOK, Pooled
    <3> QED  BY <1>2, <1>3, <1>4, <3>1
  <2>3. ASSUME NEW x \in Rest  PROVE strings'[x] = made'[x]
    BY <1>2, <1>3 DEF Inv, PoolOK, Pooled
  <2> QED  BY <1>2, <2>1, <2>2, <2>3 DEF PoolOK
<1>7. EvictedShare <= max_capacity' => Cardinality(Pooled') <= max_capacity'
  <2>1. Pooled' = Rest  BY <1>3 DEF Pooled
  <2>2. IsFiniteSet(Pooled)  BY <1>2, InternerAssumption, FS_Subset
  <2>3. Cardinality(Rest) <= Cardinality(Pooled) /\ Cardinality(Rest) \in Nat /\ Cardinality(Pooled) \in Nat
    BY <1>2, <2>2, FS_Subset, FS_CardinalityType
  <2>4. max_capacity \in Nat /\ EvictedShare \in Nat  BY InternerAssumption DEF Inv
  <2> QED  BY <1>3, <2>1, <2>3, <2>4 DEF Inv
<1> QED  BY <1>3, <1>4, <1>5, <1>6, <1>7 DEF Inv

\* The invariant is inductive.
LEMMA InvAlways == InternerSpec => []Inv
<1>1. Inv /\ [InternerNext]_interner_vars => Inv'
  <2> SUFFICES ASSUME Inv, [InternerNext]_interner_vars  PROVE Inv'  OBVIOUS
  <2>1. ASSUME NEW t \in Thread, Call(t)  PROVE Inv'
    <3>1. want' \in [Thread -> Text]  BY <2>1 DEF Call, Inv
    <3> QED  BY <2>1, <3>1 DEF Call, Inv, PoolOK, Pooled
  <2>2. ASSUME NEW t \in Thread, LookUp(t)  PROVE Inv'  BY <2>2 DEF LookUp, Inv, PoolOK, Pooled
  <2>3. ASSUME NEW t \in Thread, FoundNow(t)  PROVE Inv'  BY <2>3 DEF FoundNow, Inv, PoolOK, Pooled
  <2>4. CASE Stats  BY <2>4 DEF Stats, calls, Inv, PoolOK, Pooled
  <2>5. CASE UNCHANGED interner_vars  BY <2>5 DEF interner_vars, calls, Inv, PoolOK, Pooled
  <2> QED  BY <2>1, <2>2, <2>3, <2>4, <2>5, InsertKeeps, PanicKeeps DEF InternerNext
<1> QED  BY <1>1, InvInitially, PTL DEF InternerSpec

------------------------------------------------------------------------------
\* intern() looks twice: whatever the threads do, a second Arc of a text is made only
\* when the first has left the map, and the map holds the newest.
THEOREM OneArcAtATime == InternerSpec => []OneArcWhileKept
<1>1. Inv => OneArcWhileKept  BY DEF Inv, PoolOK, Pooled, OneArcWhileKept
<1> QED  BY <1>1, InvAlways, PTL

\* The pool never holds more texts than its capacity, if a tenth of it is a text.
THEOREM PoolIsBounded == InternerSpec => []CapacityHolds
<1>1. Inv => CapacityHolds  BY DEF Inv, CapacityHolds
<1> QED  BY <1>1, InvAlways, PTL

------------------------------------------------------------------------------
(* The escape: induction without a theorem that takes an operator *)

\* The least number outside of S has no predecessor in it.
LEMMA Induction ==
  ASSUME NEW S, 0 \in S, \A n \in Nat : n \in S => n + 1 \in S
  PROVE  \A n \in Nat : n \in S
<1> DEFINE Less == {p \in Nat \X Nat : p[1] < p[2]}
           out == Nat \ S
<1> SUFFICES ASSUME out # {} PROVE FALSE
  OBVIOUS
<1>1. IsWellFoundedOn(Less, Nat)
  BY NatLessThanWellFounded DEF OpToRel
<1>2. \E x \in out : \A y \in out : ~ (<<y, x>> \in Less)
  <2>1. out \subseteq Nat
    OBVIOUS
  <2> HIDE DEF Less, out
  <2> QED BY <1>1, <2>1, WFMin
<1>3. PICK m \in out : \A y \in out : ~ (y < m)
  <2>1. PICK m \in out : \A y \in out : ~ (<<y, m>> \in Less)
    BY <1>2
  <2>2. \A y \in out : <<y, m>> \in Nat \X Nat /\ <<y, m>>[1] = y /\ <<y, m>>[2] = m
    OBVIOUS
  <2> QED BY <2>1, <2>2
<1>4. m \in Nat /\ m # 0
  OBVIOUS
<1>5. m - 1 \in Nat /\ m - 1 < m /\ (m - 1) + 1 = m
  BY <1>4
<1> QED BY <1>3, <1>4, <1>5

------------------------------------------------------------------------------
(* The recursions *)

\* A recursion over the numbers up to l, each step a function.
StepsUpTo(l, first, step, f) == f = [n \in 0..l |-> IF n = 0 THEN first ELSE step[n][f[n - 1]]]

\* The function that such a recursion describes exists.
LEMMA RecursionIsThere ==
  ASSUME NEW D, NEW first \in D, NEW step, NEW l \in Nat, \A n \in 1..l : step[n] \in [D -> D]
  PROVE  \E f \in [0..l -> D] : StepsUpTo(l, first, step, f)
<1> DEFINE S == {k \in Nat : k <= l => \E f \in [0..k -> D] : StepsUpTo(k, first, step, f)}
<1>1. 0 \in S
  <2> DEFINE f == [n \in 0..0 |-> first]
  <2>1. f \in [0..0 -> D] /\ StepsUpTo(0, first, step, f)
    BY DEF StepsUpTo
  <2> QED BY <2>1
<1>2. ASSUME NEW k \in Nat, k \in S PROVE k + 1 \in S
  <2> SUFFICES ASSUME k + 1 <= l PROVE \E f \in [0..(k + 1) -> D] : StepsUpTo(k + 1, first, step, f)
    OBVIOUS
  <2>1. PICK f \in [0..k -> D] : StepsUpTo(k, first, step, f)
    BY <1>2
  <2>2. f[k] \in D /\ step[k + 1] \in [D -> D] /\ step[k + 1][f[k]] \in D
    BY <2>1
  <2> DEFINE g == [n \in 0..(k + 1) |-> IF n = k + 1 THEN step[k + 1][f[k]] ELSE f[n]]
  <2>3. g \in [0..(k + 1) -> D]
    BY <2>1, <2>2
  <2>4. \A n \in 0..(k + 1) : g[n] = IF n = 0 THEN first ELSE step[n][g[n - 1]]
    <3> SUFFICES ASSUME NEW n \in 0..(k + 1) PROVE g[n] = IF n = 0 THEN first ELSE step[n][g[n - 1]]
      OBVIOUS
    <3>1. CASE n = k + 1
      <4>1. n # 0 /\ n - 1 = k /\ k \in 0..(k + 1) /\ k # k + 1
        BY <3>1
      <4>2. g[n - 1] = f[k] /\ g[n] = step[k + 1][f[k]]
        BY <3>1, <4>1
      <4> HIDE DEF g
      <4> QED BY <3>1, <4>1, <4>2
    <3>2. CASE n # k + 1
      <4>1. n \in 0..k /\ g[n] = f[n] /\ (n # 0 => n - 1 \in 0..(k + 1) /\ n - 1 # k + 1 /\ g[n - 1] = f[n - 1])
        BY <3>2
      <4>2. f[n] = IF n = 0 THEN first ELSE step[n][f[n - 1]]
        BY <2>1, <4>1 DEF StepsUpTo
      <4> HIDE DEF g
      <4> QED BY <4>1, <4>2
    <3> QED BY <3>1, <3>2
  <2>5. g = [n \in 0..(k + 1) |-> g[n]]
    OBVIOUS
  <2> HIDE DEF g
  <2>6. StepsUpTo(k + 1, first, step, g)
    BY <2>4, <2>5 DEF StepsUpTo
  <2> QED BY <2>3, <2>6
<1> HIDE DEF S
<1>3. l \in S
  BY <1>1, <1>2, Induction
<1> QED BY <1>3 DEF S

\* What holds of the first state and is kept by every step.
LEMMA StaysIn ==
  ASSUME NEW D, NEW l \in Nat, NEW g, g[0] \in D, \A n \in 1..l : g[n - 1] \in D => g[n] \in D
  PROVE  \A n \in 0..l : g[n] \in D
<1> DEFINE S == {k \in Nat : k <= l => g[k] \in D}
<1>1. 0 \in S
  OBVIOUS
<1>2. ASSUME NEW k \in Nat, k \in S PROVE k + 1 \in S
  <2> SUFFICES ASSUME k + 1 <= l PROVE g[k + 1] \in D
    OBVIOUS
  <2>1. k + 1 \in 1..l /\ (k + 1) - 1 = k /\ g[k] \in D
    BY <1>2
  <2> QED BY <2>1
<1> HIDE DEF S
<1>3. \A k \in Nat : k \in S
  BY <1>1, <1>2, Induction
<1> QED BY <1>3 DEF S

\* The states of the three ways through a text.
Made(C) == [out : Seq(C), wildcard : BOOLEAN, slashes : Nat]
Buffered(C, l) == [buffer : [1..2 * l -> C], x : Int, wildcard : BOOLEAN, slashes : Nat]
Forwards(C) == [out : Seq(C), run : Nat]

\* What a character adds is text, and how many slashes are pending a number.
LEMMA AddedType ==
  ASSUME NEW C, "\\" \in C, NEW c \in C, NEW a, a.slashes \in Nat, a.wildcard \in BOOLEAN
  PROVE  /\ Pushed(c, a) \in Seq(C)
         /\ WildcardAt(c, a.wildcard) \in BOOLEAN /\ SlashesAt(c, a) \in Nat
<1>1. Pushed(c, a) \in Seq(C)
  <2>1. PICK u : u = IF Balances(c, a) THEN <<"\\">> ELSE <<>>
    OBVIOUS
  <2>2. PICK v : v = IF c \in Bracket THEN <<"\\">> ELSE <<>>
    OBVIOUS
  <2>3. u \in Seq(C) /\ v \in Seq(C) /\ <<c>> \in Seq(C)
    BY <2>1, <2>2
  <2>4. Pushed(c, a) = u \o <<c>> \o v
    BY <2>1, <2>2 DEF Pushed
  <2> QED BY <2>3, <2>4
<1>2. WildcardAt(c, a.wildcard) \in BOOLEAN
  BY DEF WildcardAt
<1>3. SlashesAt(c, a) \in Nat
  BY DEF SlashesAt
<1> QED BY <1>1, <1>2, <1>3

\* The definitions by recursion are the functions that they describe.
LEMMA PushingIs ==
  ASSUME NEW C, "\\" \in C, NEW s \in Seq(C)
  PROVE  /\ Pushing(s) \in [0..Len(s) -> Made(C)]
         /\ Pushing(s)[0] = [out |-> <<>>, wildcard |-> FALSE, slashes |-> 0]
         /\ \A n \in 1..Len(s) : Pushing(s)[n] = PushCharacter(s[Len(s) + 1 - n], Pushing(s)[n - 1])
<1> DEFINE l == Len(s)
           first == [out |-> <<>>, wildcard |-> FALSE, slashes |-> 0]
           step == [n \in 1..l |-> [a \in Made(C) |-> PushCharacter(s[l + 1 - n], a)]]
           Is(f) == f = [n \in 0..l |-> IF n = 0 THEN first ELSE PushCharacter(s[l + 1 - n], f[n - 1])]
<1>1. l \in Nat /\ first \in Made(C)
  BY DEF Made
<1>2. ASSUME NEW n \in 1..l, NEW a \in Made(C) PROVE PushCharacter(s[l + 1 - n], a) \in Made(C)
  <2>1. s[l + 1 - n] \in C /\ a.out \in Seq(C) /\ a.wildcard \in BOOLEAN /\ a.slashes \in Nat
    BY <1>1 DEF Made
  <2>2. PICK c \in C : c = s[l + 1 - n]
    BY <2>1
  <2>3. Pushed(c, a) \in Seq(C) /\ WildcardAt(c, a.wildcard) \in BOOLEAN /\ SlashesAt(c, a) \in Nat
    BY <2>1, AddedType
  <2>4. a.out \o Pushed(c, a) \in Seq(C)
    BY <2>1, <2>3
  <2> QED BY <2>2, <2>3, <2>4 DEF PushCharacter, Made
<1>3. \A n \in 1..l : step[n] \in [Made(C) -> Made(C)]
  BY <1>2
<1> HIDE DEF first
<1>4. PICK f \in [0..l -> Made(C)] : StepsUpTo(l, first, step, f)
  <2> HIDE DEF step, l
  <2> QED BY <1>1, <1>3, RecursionIsThere
<1>5. Is(f)
  <2>1. ASSUME NEW n \in 0..l, n # 0 PROVE step[n][f[n - 1]] = PushCharacter(s[l + 1 - n], f[n - 1])
    <3>1. n \in 1..l /\ n - 1 \in 0..l
      BY <1>1, <2>1
    <3>2. f[n - 1] \in Made(C)
      BY <1>4, <3>1
    <3> QED BY <3>1, <3>2
  <2> HIDE DEF step, l
  <2> QED BY <1>4, <2>1 DEF StepsUpTo
<1>6. PICK g : g = CHOOSE f1 : Is(f1)
  OBVIOUS
<1>7. Is(g) /\ Pushing(s) = g
  <2>1. Is(g)
    <3> HIDE DEF Is
    <3> QED BY <1>5, <1>6
  <2>2. Pushing(s) = g
    BY <1>6 DEF Pushing, first
  <2> QED BY <2>1, <2>2
<1>8. g[0] = first /\ \A n \in 1..l : g[n] = PushCharacter(s[l + 1 - n], g[n - 1])
  BY <1>1, <1>7
<1>9. \A n \in 0..l : g[n] \in Made(C)
  <2>1. \A n \in 1..l : g[n - 1] \in Made(C) => g[n] \in Made(C)
    BY <1>2, <1>8
  <2> HIDE DEF l
  <2> QED BY <1>1, <1>8, <2>1, StaysIn
<1>10. g \in [0..l -> Made(C)]
  BY <1>1, <1>7, <1>9
<1> QED BY <1>7, <1>8, <1>10 DEF first

LEMMA EscapingIs ==
  ASSUME NEW C, "\\" \in C, NEW s \in Seq(C)
  PROVE  /\ Escaping(s) \in [0..Len(s) -> Forwards(C)]
         /\ Escaping(s)[0] = [out |-> <<>>, run |-> 0]
         /\ \A n \in 1..Len(s) : Escaping(s)[n] = Escape(s[n], Escaping(s)[n - 1])
<1> DEFINE l == Len(s)
           first == [out |-> <<>>, run |-> 0]
           step == [n \in 1..l |-> [a \in Forwards(C) |-> Escape(s[n], a)]]
           Is(f) == f = [n \in 0..l |-> IF n = 0 THEN first ELSE Escape(s[n], f[n - 1])]
<1>1. l \in Nat /\ first \in Forwards(C)
  BY DEF Forwards
<1>2. ASSUME NEW n \in 1..l, NEW a \in Forwards(C) PROVE Escape(s[n], a) \in Forwards(C)
  <2>1. s[n] \in C /\ a.out \in Seq(C) /\ a.run \in Nat
    BY <1>1 DEF Forwards
  <2>2. PICK c \in C : c = s[n]
    BY <2>1
  <2>3. PICK t : t = Slashes(Before(a.run, c))
    OBVIOUS
  <2>4. t \in Seq(C)
    <3>1. Before(a.run, c) \in Nat
      BY <2>1 DEF Before
    <3> QED BY <2>3, <3>1 DEF Slashes
  <2>5. Append(a.out \o t, c) \in Seq(C)
    BY <2>1, <2>4
  <2> QED BY <2>1, <2>2, <2>3, <2>5 DEF Escape, Forwards
<1>3. \A n \in 1..l : step[n] \in [Forwards(C) -> Forwards(C)]
  BY <1>2
<1> HIDE DEF first
<1>4. PICK f \in [0..l -> Forwards(C)] : StepsUpTo(l, first, step, f)
  <2> HIDE DEF step, l
  <2> QED BY <1>1, <1>3, RecursionIsThere
<1>5. Is(f)
  <2>1. ASSUME NEW n \in 0..l, n # 0 PROVE step[n][f[n - 1]] = Escape(s[n], f[n - 1])
    <3>1. n \in 1..l /\ n - 1 \in 0..l
      BY <1>1, <2>1
    <3>2. f[n - 1] \in Forwards(C)
      BY <1>4, <3>1
    <3> QED BY <3>1, <3>2
  <2> HIDE DEF step, l
  <2> QED BY <1>4, <2>1 DEF StepsUpTo
<1>6. PICK g : g = CHOOSE f1 : Is(f1)
  OBVIOUS
<1>7. Is(g) /\ Escaping(s) = g
  <2>1. Is(g)
    <3> HIDE DEF Is
    <3> QED BY <1>5, <1>6
  <2>2. Escaping(s) = g
    BY <1>6 DEF Escaping, first
  <2> QED BY <2>1, <2>2
<1>8. g[0] = first /\ \A n \in 1..l : g[n] = Escape(s[n], g[n - 1])
  BY <1>1, <1>7
<1>9. \A n \in 0..l : g[n] \in Forwards(C)
  <2>1. \A n \in 1..l : g[n - 1] \in Forwards(C) => g[n] \in Forwards(C)
    BY <1>2, <1>8
  <2> HIDE DEF l
  <2> QED BY <1>1, <1>8, <2>1, StaysIn
<1>10. g \in [0..l -> Forwards(C)]
  BY <1>1, <1>7, <1>9
<1> QED BY <1>7, <1>8, <1>10 DEF first

\* Nothing is put outside of the buffer.
LEMMA PutType ==
  ASSUME NEW C, NEW l \in Nat, NEW a \in Buffered(C, l), NEW t \in Seq(C)
  PROVE  Put(a, t) \in Buffered(C, l)
<1>1. a.buffer \in [1..2 * l -> C] /\ a.x \in Int /\ Len(t) \in Nat /\ DOMAIN a.buffer = 1..2 * l
  BY DEF Buffered
<1>2. PICK x \in Int : x = a.x
  BY <1>1
<1>3. PICK m \in Nat : m = Len(t)
  BY <1>1
<1>4. PICK b : b = [i \in 1..2 * l |-> IF i \in x - m + 1 .. x THEN t[x + 1 - i] ELSE a.buffer[i]]
  OBVIOUS
<1>5. b \in [1..2 * l -> C]
  <2>1. \A i \in x - m + 1 .. x : x + 1 - i \in 1..m
    OBVIOUS
  <2>2. \A i \in 1..m : t[i] \in C
    BY <1>3
  <2> QED BY <1>1, <1>4, <2>1, <2>2
<1>6. Put(a, t) = [a EXCEPT !.buffer = b, !.x = x - m]
  BY <1>1, <1>2, <1>3, <1>4 DEF Put
<1>7. x - m \in Int
  OBVIOUS
<1> QED BY <1>5, <1>6, <1>7 DEF Buffered

LEMMA FillingIs ==
  ASSUME NEW C, "\\" \in C, "NUL" \in C, NEW s \in Seq(C)
  PROVE  /\ Filling(s) \in [0..Len(s) -> Buffered(C, Len(s))]
         /\ Filling(s)[0] = [buffer |-> [i \in 1..2 * Len(s) |-> "NUL"], x |-> 2 * Len(s),
                             wildcard |-> FALSE, slashes |-> 0]
         /\ \A n \in 1..Len(s) : Filling(s)[n] = PutCharacter(s[Len(s) + 1 - n], Filling(s)[n - 1])
<1> DEFINE l == Len(s)
           first == [buffer |-> [i \in 1..2 * l |-> "NUL"], x |-> 2 * l, wildcard |-> FALSE, slashes |-> 0]
           step == [n \in 1..l |-> [a \in Buffered(C, l) |-> PutCharacter(s[l + 1 - n], a)]]
           Is(f) == f = [n \in 0..l |-> IF n = 0 THEN first ELSE PutCharacter(s[l + 1 - n], f[n - 1])]
<1>1. l \in Nat /\ first \in Buffered(C, l)
  BY DEF Buffered
<1>2. ASSUME NEW n \in 1..l, NEW a \in Buffered(C, l) PROVE PutCharacter(s[l + 1 - n], a) \in Buffered(C, l)
  <2>1. s[l + 1 - n] \in C
    BY <1>1
  <2>2. PICK c \in C : c = s[l + 1 - n]
    BY <2>1
  <2> HIDE DEF l
  <2>3. a.wildcard \in BOOLEAN /\ a.slashes \in Nat
    BY DEF Buffered
  <2>4. Pushed(c, a) \in Seq(C) /\ WildcardAt(c, a.wildcard) \in BOOLEAN /\ SlashesAt(c, a) \in Nat
    BY <2>3, AddedType
  <2>5. PICK p \in Buffered(C, l) : p = Put(a, Pushed(c, a))
    <3>1. PICK t \in Seq(C) : t = Pushed(c, a)
      BY <2>4
    <3>2. Put(a, t) \in Buffered(C, l)
      BY <1>1, PutType
    <3> QED BY <3>1, <3>2
  <2>6. PICK w \in BOOLEAN : w = WildcardAt(c, a.wildcard)
    BY <2>4
  <2>7. PICK k \in Nat : k = SlashesAt(c, a)
    BY <2>4
  <2>8. PutCharacter(c, a) = [p EXCEPT !.wildcard = w, !.slashes = k]
    BY <2>5, <2>6, <2>7 DEF PutCharacter
  <2>9. [p EXCEPT !.wildcard = w, !.slashes = k] \in Buffered(C, l)
    BY DEF Buffered
  <2>10. PutCharacter(c, a) \in Buffered(C, l)
    BY <2>8, <2>9
  <2> QED BY <2>2, <2>10
<1>3. \A n \in 1..l : step[n] \in [Buffered(C, l) -> Buffered(C, l)]
  BY <1>2
<1> HIDE DEF first
<1>4. PICK f \in [0..l -> Buffered(C, l)] : StepsUpTo(l, first, step, f)
  <2> HIDE DEF step, l
  <2> QED BY <1>1, <1>3, RecursionIsThere
<1>5. Is(f)
  <2>1. ASSUME NEW n \in 0..l, n # 0 PROVE step[n][f[n - 1]] = PutCharacter(s[l + 1 - n], f[n - 1])
    <3>1. n \in 1..l /\ n - 1 \in 0..l
      BY <1>1, <2>1
    <3>2. f[n - 1] \in Buffered(C, l)
      BY <1>4, <3>1
    <3> QED BY <3>1, <3>2
  <2> HIDE DEF step, l
  <2> QED BY <1>4, <2>1 DEF StepsUpTo
<1>6. PICK g : g = CHOOSE f1 : Is(f1)
  OBVIOUS
<1>7. Is(g) /\ Filling(s) = g
  <2>1. Is(g)
    <3> HIDE DEF Is
    <3> QED BY <1>5, <1>6
  <2>2. Filling(s) = g
    BY <1>6 DEF Filling, first
  <2> QED BY <2>1, <2>2
<1>8. g[0] = first /\ \A n \in 1..l : g[n] = PutCharacter(s[l + 1 - n], g[n - 1])
  BY <1>1, <1>7
<1>9. \A n \in 0..l : g[n] \in Buffered(C, l)
  <2>1. \A n \in 1..l : g[n - 1] \in Buffered(C, l) => g[n] \in Buffered(C, l)
    BY <1>2, <1>8
  <2> HIDE DEF l
  <2> QED BY <1>1, <1>8, <2>1, StaysIn
<1>10. g \in [0..l -> Buffered(C, l)]
  BY <1>1, <1>7, <1>9
<1> QED BY <1>7, <1>8, <1>10 DEF first

\* Backslashes in a row.
LEMMA SlashesAre ==
  /\ Slashes(0) = <<>> /\ Slashes(1) = <<"\\">>
  /\ \A C : "\\" \in C => \A n \in Nat : Slashes(n) \in Seq(C) /\ Len(Slashes(n)) = n
  /\ \A m, n \in Nat : Slashes(m + n) = Slashes(m) \o Slashes(n)
<1>1. \A C : "\\" \in C => \A n \in Nat : Slashes(n) \in Seq(C) /\ Len(Slashes(n)) = n
  BY DEF Slashes
<1>2. Slashes(0) = <<>> /\ Slashes(1) = <<"\\">>
  BY DEF Slashes
<1>3. ASSUME NEW m \in Nat, NEW n \in Nat PROVE Slashes(m + n) = Slashes(m) \o Slashes(n)
  <2>1. PICK a : a = Slashes(m)
    OBVIOUS
  <2>2. PICK b : b = Slashes(n)
    OBVIOUS
  <2>3. /\ a \in Seq({"\\"}) /\ Len(a) = m /\ b \in Seq({"\\"}) /\ Len(b) = n
    BY <1>1, <2>1, <2>2
  <2>4. (\A i \in 1..m : a[i] = "\\") /\ (\A i \in 1..n : b[i] = "\\")
    BY <2>3
  <2>5. PICK c : c = a \o b
    OBVIOUS
  <2>6. c \in Seq({"\\"}) /\ Len(c) = m + n /\ \A i \in 1..(m + n) : c[i] = IF i <= m THEN a[i] ELSE b[i - m]
    <3> DEFINE Concat(C, s1, s2) == /\ s1 \o s2 \in Seq(C) /\ Len(s1 \o s2) = Len(s1) + Len(s2)
                                   /\ \A i \in 1..Len(s1) + Len(s2) : (s1 \o s2)[i] = IF i <= Len(s1) THEN s1[i] ELSE s2[i - Len(s1)]
    <3>1. Concat({"\\"}, a, b)
      BY <2>3, ConcatProperties, Zenon
    <3> QED BY <2>3, <2>5, <3>1
  <2>7. \A i \in 1..(m + n) : c[i] = "\\"
    BY <2>6
  <2>8. c = [i \in 1..(m + n) |-> c[i]]
    BY <2>6
  <2> QED BY <2>1, <2>2, <2>5, <2>7, <2>8 DEF Slashes
<1> QED BY <1>1, <1>2, <1>3

\* The reverse of a text, and of one joined from two.
LEMMA ReverseIs ==
  ASSUME NEW C
  PROVE  /\ \A s \in Seq(C) : Reverse(s) \in Seq(C) /\ Len(Reverse(s)) = Len(s)
                              /\ \A i \in 1..Len(s) : Reverse(s)[i] = s[(Len(s) - i) + 1]
         /\ \A s, t \in Seq(C) : Reverse(s \o t) = Reverse(t) \o Reverse(s)
         /\ Reverse(<<>>) = <<>> /\ \A x : Reverse(<<x>>) = <<x>>
<1>1. ASSUME NEW s \in Seq(C)
      PROVE  Reverse(s) \in Seq(C) /\ Len(Reverse(s)) = Len(s)
             /\ \A i \in 1..Len(s) : Reverse(s)[i] = s[(Len(s) - i) + 1]
  BY DEF Reverse
<1>2. ASSUME NEW s \in Seq(C), NEW t \in Seq(C) PROVE Reverse(s \o t) = Reverse(t) \o Reverse(s)
  <2>1. PICK m \in Nat : m = Len(s)
    OBVIOUS
  <2>2. PICK n \in Nat : n = Len(t)
    OBVIOUS
  <2>3. PICK a : a = Reverse(s)
    OBVIOUS
  <2>4. PICK b : b = Reverse(t)
    OBVIOUS
  <2>5. PICK u : u = s \o t
    OBVIOUS
  <2>6. /\ a \in Seq(C) /\ Len(a) = m /\ \A i \in 1..m : a[i] = s[(m - i) + 1]
        /\ b \in Seq(C) /\ Len(b) = n /\ \A i \in 1..n : b[i] = t[(n - i) + 1]
    BY <1>1, <2>1, <2>2, <2>3, <2>4
  <2>7. /\ u \in Seq(C) /\ Len(u) = m + n
        /\ \A i \in 1..(m + n) : u[i] = IF i <= m THEN s[i] ELSE t[i - m]
    BY <2>1, <2>2, <2>5
  <2>12. PICK v : v = b \o a
    OBVIOUS
  <2>13. v \in Seq(C) /\ Len(v) = n + m /\ \A i \in 1..(n + m) : v[i] = IF i <= n THEN b[i] ELSE a[i - n]
    <3> DEFINE Concat(s1, s2) == /\ s1 \o s2 \in Seq(C) /\ Len(s1 \o s2) = Len(s1) + Len(s2)
                                /\ \A i \in 1..Len(s1) + Len(s2) : (s1 \o s2)[i] = IF i <= Len(s1) THEN s1[i] ELSE s2[i - Len(s1)]
    <3>1. b \in Seq(C) /\ a \in Seq(C)
      BY <2>6
    <3>2. Concat(b, a)
      BY ONLY <3>1, ConcatProperties, Zenon
    <3> QED BY <2>6, <2>12, <3>2
  <2>8. v = [i \in 1..(n + m) |-> IF i <= n THEN b[i] ELSE a[i - n]]
    BY <2>13
  <2>9. Reverse(u) = [i \in 1..(m + n) |-> u[((m + n) - i) + 1]]
    BY <2>7 DEF Reverse
  <2>10. \A i \in 1..(m + n) : u[((m + n) - i) + 1] = IF i <= n THEN b[i] ELSE a[i - n]
    <3> SUFFICES ASSUME NEW i \in 1..(m + n)
                 PROVE  u[((m + n) - i) + 1] = IF i <= n THEN b[i] ELSE a[i - n]
      OBVIOUS
    <3>1. PICK j \in 1..(m + n) : j = ((m + n) - i) + 1
      OBVIOUS
    <3>2. CASE i <= n
      <4>1. ~(j <= m) /\ j - m = (n - i) + 1 /\ i \in 1..n
        BY <3>1, <3>2
      <4>2. b[i] = t[j - m]
        BY <2>6, <4>1
      <4>3. u[j] = t[j - m]
        BY <2>7, <4>1
      <4> QED BY <3>1, <3>2, <4>2, <4>3
    <3>3. CASE ~(i <= n)
      <4>1. j <= m /\ j = (m - (i - n)) + 1 /\ i - n \in 1..m
        BY <3>1, <3>3
      <4>2. a[i - n] = s[j]
        BY <2>6, <4>1
      <4>3. u[j] = s[j]
        BY <2>7, <4>1
      <4> QED BY <3>1, <3>3, <4>2, <4>3
    <3> QED BY <3>2, <3>3
  <2>11. n + m = m + n
    OBVIOUS
  <2> QED BY <2>3, <2>4, <2>5, <2>12, <2>8, <2>9, <2>10, <2>11
<1>3. Reverse(<<>>) = <<>> /\ \A x : Reverse(<<x>>) = <<x>>
  BY DEF Reverse
<1> QED BY <1>1, <1>2, <1>3

\* The text with what was read forwards, and what was read backwards of the rest.
Between(f, b) == IF b.wildcard THEN f.run ELSE f.run + ((f.run + b.slashes) % 2)
Joined(f, b) == f.out \o Slashes(Between(f, b)) \o Reverse(b.out)

Associates(p, q, r) == (p \o q) \o r = p \o (q \o r)

\* The equation under a name, so that a proof sees the instances it asks for only.
LEMMA Grouped == \A C : \A p, q, r \in Seq(C) : Associates(p, q, r)
<1> SUFFICES ASSUME NEW C, NEW p \in Seq(C), NEW q \in Seq(C), NEW r \in Seq(C) PROVE Associates(p, q, r)
  OBVIOUS
<1>1. (p \o q) \o r = p \o (q \o r)
  BY ConcatAssociative
<1> QED BY <1>1 DEF Associates

Regroups(p, q, b, y, l, r) == (p \o (q \o b)) \o y \o l \o r = p \o q \o ((b \o y \o l) \o r)

LEMMA Regroup ==
  ASSUME NEW C, NEW p \in Seq(C), NEW q \in Seq(C), NEW b \in Seq(C), NEW y \in Seq(C), NEW l \in Seq(C), NEW r \in Seq(C)
  PROVE  Regroups(p, q, b, y, l, r)
<1>1. PICK pq \in Seq(C) : pq = p \o q
  BY ConcatProperties
<1>2. PICK by \in Seq(C) : by = b \o y
  BY ConcatProperties
<1>3. PICK lr \in Seq(C) : lr = l \o r
  BY ConcatProperties
<1>4. PICK u \in Seq(C) : u = pq \o by
  BY ConcatProperties
<1>5. /\ Associates(p, q, b) /\ Associates(pq, b, y) /\ Associates(u, l, r)
      /\ Associates(pq, by, lr) /\ Associates(by, l, r)
  BY Grouped
<1>10. (p \o (q \o b)) \o y = u
  BY <1>1, <1>2, <1>4, <1>5, Zenon DEF Associates
<1>11. (u \o l) \o r = pq \o (by \o lr)
  BY <1>3, <1>4, <1>5, Zenon DEF Associates
<1>12. pq \o (by \o lr) = p \o q \o ((b \o y \o l) \o r)
  BY <1>1, <1>2, <1>3, <1>5, Zenon DEF Associates
<1> QED BY <1>10, <1>11, <1>12, Zenon DEF Regroups

\* The character between the two parts may be read from either side.
LEMMA JoinsOn ==
  ASSUME NEW C, "\\" \in C, NEW c \in C, NEW f \in Forwards(C), NEW b \in Made(C), b.wildcard => b.slashes = 0
  PROVE  /\ Joined(Escape(c, f), b) = Joined(f, PushCharacter(c, b))
         /\ PushCharacter(c, b).wildcard => PushCharacter(c, b).slashes = 0
<1>1. PICK fo \in Seq(C) : fo = f.out
  BY DEF Forwards
<1>2. PICK k \in Nat : k = f.run
  BY DEF Forwards
<1>3. PICK bo \in Seq(C) : bo = b.out
  BY DEF Made
<1>4. PICK w \in BOOLEAN : w = b.wildcard
  BY DEF Made
<1>5. PICK sl \in Nat : sl = b.slashes
  BY DEF Made
<1>6. w => sl = 0
  BY <1>4, <1>5
<1>7. PICK R \in Seq(C) : R = Reverse(bo)
  BY ReverseIs
<1>8. PICK X \in Seq(C) : X = <<"\\">>
  <2>1. <<"\\">> \in Seq(C)
    OBVIOUS
  <2> QED BY <2>1
<1>11. <<>> \in Seq(C)
  OBVIOUS
<1>9. CASE c = "\\"
  <2>1. PICK n \in Nat : n = IF w THEN k ELSE k + ((k + (sl + 1)) % 2)
    OBVIOUS
  <2>2. Joined(Escape(c, f), b) = fo \o Slashes(n + 1) \o R
    <3>1. Escape(c, f) = [out |-> fo, run |-> k + 1]
      BY <1>1, <1>2, <1>9 DEF Escape
    <3>2. (IF w THEN k + 1 ELSE (k + 1) + (((k + 1) + sl) % 2)) = n + 1
      BY <2>1
    <3>3. Between(Escape(c, f), b) = n + 1
      BY <1>4, <1>5, <3>1, <3>2 DEF Between
    <3>4. Escape(c, f).out = fo
      BY <3>1
    <3> QED BY <1>3, <1>7, <3>3, <3>4, Zenon DEF Joined
  <2>3. PushCharacter(c, b) = [out |-> bo \o X, wildcard |-> w, slashes |-> IF w THEN sl ELSE sl + 1]
    <3>1. Pushed(c, b) = X
      <4>1. Pushed(c, b) = <<>> \o <<c>> \o <<>>
        BY <1>9 DEF Pushed, Balances, Bracket
      <4> QED BY <1>8, <1>9, <4>1
    <3>2. WildcardAt(c, b.wildcard) = w /\ SlashesAt(c, b) = IF w THEN sl ELSE sl + 1
      BY <1>4, <1>5, <1>9 DEF WildcardAt, Wildcard, SlashesAt
    <3> QED BY <1>3, <3>1, <3>2 DEF PushCharacter
  <2>4. Reverse(bo \o X) = X \o R
    BY <1>7, <1>8, ReverseIs
  <2>5. Joined(f, PushCharacter(c, b)) = fo \o Slashes(n) \o (X \o R)
    <3>1. (IF w THEN k ELSE k + ((k + (IF w THEN sl ELSE sl + 1)) % 2)) = n
      BY <2>1
    <3>2. Between(f, PushCharacter(c, b)) = n
      BY <1>2, <2>3, <3>1 DEF Between
    <3>3. PushCharacter(c, b).out = bo \o X
      BY <2>3
    <3> QED BY <1>1, <2>4, <3>2, <3>3, Zenon DEF Joined
  <2>6. PICK S \in Seq(C) : S = Slashes(n)
    BY SlashesAre
  <2>7. Slashes(n + 1) = S \o X
    BY <1>8, <2>6, SlashesAre
  <2>8. PICK FS \in Seq(C) : FS = fo \o S
    BY ConcatProperties
  <2>9. Associates(fo, S, X) /\ Associates(FS, X, R)
    BY Grouped
  <2>10. fo \o (S \o X) \o R = fo \o S \o (X \o R)
    BY <2>8, <2>9, Zenon DEF Associates
  <2>11. Joined(Escape(c, f), b) = Joined(f, PushCharacter(c, b))
    BY <2>2, <2>5, <2>6, <2>7, <2>10, Zenon
  <2> QED BY <1>6, <2>3, <2>11
<1>10. CASE c # "\\"
  <2>1. PICK n \in Nat : n = IF c \in Wildcard THEN k ELSE k + (k % 2)
    OBVIOUS
  <2>2. PICK q \in Seq(C) : q = Slashes(n)
    BY SlashesAre
  <2>3. PICK br \in Seq(C) : br = IF c \in Bracket THEN <<"\\">> ELSE <<>>
    BY <1>8, <1>11
  <2>4. PICK bal \in Seq(C) : bal = IF Odd(sl) THEN <<"\\">> ELSE <<>>
    BY <1>8, <1>11
  <2>5. PICK y \in Seq(C) : y = <<c>>
    <3>1. <<c>> \in Seq(C)
      OBVIOUS
    <3> QED BY <3>1
  <2>6. Slashes(Before(k, c)) = q \o br
    <3>1. c \in Wildcard => c \notin Bracket
      BY DEF Wildcard, Bracket
    <3>2. PICK d \in Nat : d = IF c \in Bracket THEN 1 ELSE 0
      OBVIOUS
    <3>3. Before(k, c) = n + d
      BY <2>1, <3>1, <3>2 DEF Before
    <3>4. Slashes(d) = br
      BY <2>3, <3>2, SlashesAre
    <3> QED BY <2>2, <3>3, <3>4, SlashesAre
  <2>7. Joined(Escape(c, f), b) = (fo \o (q \o br)) \o y \o bal \o R
    <3>1. PICK t \in Seq(C) : t = q \o br
      BY ConcatProperties
    <3>2. PICK u \in Seq(C) : u = fo \o t
      BY ConcatProperties
    <3>3. Append(u, c) = u \o y
      BY <2>5, AppendIsConcat
    <3>4. Escape(c, f) = [out |-> u \o y, run |-> 0]
      BY <1>1, <1>2, <1>10, <2>6, <3>1, <3>2, <3>3 DEF Escape
    <3>5. Slashes(Between(Escape(c, f), b)) = bal
      <4>1. (IF w THEN 0 ELSE 0 + ((0 + sl) % 2)) = IF Odd(sl) THEN 1 ELSE 0
        <5>1. sl % 2 \in {0, 1} /\ 0 + sl = sl /\ 0 % 2 = 0
          OBVIOUS
        <5>2. 0 + ((0 + sl) % 2) = IF Odd(sl) THEN 1 ELSE 0
          BY <5>1 DEF Odd
        <5>3. w => ~Odd(sl)
          BY <1>6, <5>1 DEF Odd
        <5> QED BY <5>2, <5>3
      <4>5. Escape(c, f).run = 0
        BY <3>4
      <4>2. Between(Escape(c, f), b) = IF Odd(sl) THEN 1 ELSE 0
        BY <1>4, <1>5, <4>1, <4>5 DEF Between
      <4>3. Odd(sl) => Slashes(Between(Escape(c, f), b)) = <<"\\">>
        BY <4>2, SlashesAre
      <4>4. ~Odd(sl) => Slashes(Between(Escape(c, f), b)) = <<>>
        BY <4>2, SlashesAre
      <4> QED BY <2>4, <4>3, <4>4
    <3>6. Escape(c, f).out = u \o y
      BY <3>4
    <3> QED BY <1>3, <1>7, <3>1, <3>2, <3>5, <3>6, Zenon DEF Joined
  <2>8. /\ PushCharacter(c, b).out = bo \o (bal \o y \o br)
        /\ PushCharacter(c, b).wildcard = (c \in Wildcard) /\ PushCharacter(c, b).slashes = 0
    <3>1. Pushed(c, b) = bal \o y \o br
      BY <1>5, <1>10, <2>3, <2>4, <2>5 DEF Pushed, Balances
    <3>2. WildcardAt(c, b.wildcard) = (c \in Wildcard) /\ SlashesAt(c, b) = 0
      BY <1>10 DEF WildcardAt, SlashesAt
    <3>3. /\ PushCharacter(c, b).out = b.out \o Pushed(c, b)
          /\ PushCharacter(c, b).wildcard = WildcardAt(c, b.wildcard)
          /\ PushCharacter(c, b).slashes = SlashesAt(c, b)
      BY DEF PushCharacter
    <3>4. PushCharacter(c, b).out = bo \o (bal \o y \o br)
      BY <1>3, <3>1, <3>3, Zenon
    <3> QED BY <3>2, <3>3, <3>4, Zenon
  <2>9. Reverse(bal) = bal /\ Reverse(br) = br /\ Reverse(y) = y
    BY <2>3, <2>4, <2>5, ReverseIs
  <2>10. PICK byb \in Seq(C) : byb = br \o y \o bal
    BY ConcatProperties
  <2>11. PICK push \in Seq(C) : push = bal \o y \o br
    BY ConcatProperties
  <2>12. Reverse(push) = byb
    <3>1. PICK u \in Seq(C) : u = bal \o y
      BY ConcatProperties
    <3>2. Reverse(u) = y \o bal
      BY <2>9, <3>1, ReverseIs
    <3>3. Reverse(u \o br) = br \o (y \o bal)
      BY <2>9, <3>2, ReverseIs
    <3>4. Associates(br, y, bal)
      BY Grouped
    <3> QED BY <2>10, <2>11, <3>1, <3>3, <3>4, Zenon DEF Associates
  <2>13. Reverse(bo \o push) = byb \o R
    BY <1>7, <2>12, ReverseIs
  <2>14. Joined(f, PushCharacter(c, b)) = fo \o q \o (byb \o R)
    <3>1. (IF c \in Wildcard THEN k ELSE k + ((k + 0) % 2)) = n
      BY <2>1
    <3>4. PushCharacter(c, b).wildcard = (c \in Wildcard) /\ PushCharacter(c, b).slashes = 0
      BY <2>8
    <3>2. Between(f, PushCharacter(c, b)) = n
      BY <1>2, <3>1, <3>4 DEF Between
    <3>3. PushCharacter(c, b).out = bo \o push
      BY <2>8, <2>11, Zenon
    <3> QED BY <1>1, <2>2, <2>13, <3>2, <3>3, Zenon DEF Joined
  <2>15. (fo \o (q \o br)) \o y \o bal \o R = fo \o q \o ((br \o y \o bal) \o R)
    <3>1. Regroups(fo, q, br, y, bal, R)
      BY Regroup
    <3> QED BY <3>1 DEF Regroups
  <2>16. Joined(Escape(c, f), b) = Joined(f, PushCharacter(c, b))
    BY <2>7, <2>10, <2>14, <2>15, Zenon
  <2> QED BY <2>8, <2>16
<1> QED BY <1>9, <1>10

\* Character by character from all read forwards to all read backwards.
LEMMA ReversedIsEscaped ==
  ASSUME NEW C, "\\" \in C, NEW s \in Seq(C)
  PROVE  EscapeReversed(s) = Escaped(s)
<1>1. PICK l \in Nat : l = Len(s)
  OBVIOUS
<1>2. PICK E \in [0..l -> Forwards(C)] :
        /\ E = Escaping(s)
        /\ E[0] = [out |-> <<>>, run |-> 0]
        /\ \A n \in 1..l : E[n] = Escape(s[n], E[n - 1])
  BY <1>1, EscapingIs
<1>3. PICK P \in [0..l -> Made(C)] :
        /\ P = Pushing(s)
        /\ P[0] = [out |-> <<>>, wildcard |-> FALSE, slashes |-> 0]
        /\ \A n \in 1..l : P[n] = PushCharacter(s[l + 1 - n], P[n - 1])
  BY <1>1, PushingIs
<1> DEFINE J(m) == Joined(E[l - m], P[m]) = Escaped(s) /\ (P[m].wildcard => P[m].slashes = 0)
           S == {m \in Nat : m <= l => J(m)}
<1>4. 0 \in S
  <2>1. l - 0 = l /\ l \in 0..l /\ 0 \in 0..l
    OBVIOUS
  <2>2. PICK fo \in Seq(C) : fo = E[l].out
    BY <2>1 DEF Forwards
  <2>3. PICK k \in Nat : k = E[l].run
    BY <2>1 DEF Forwards
  <2>4. Between(E[l], P[0]) = k + (k % 2)
    BY <1>3, <2>3 DEF Between
  <2>5. Before(k, "end") = k + (k % 2)
    BY DEF Before, Wildcard, Bracket
  <2>6. PICK t \in Seq(C) : t = fo \o Slashes(k + (k % 2))
    <3>1. PICK n \in Nat : n = k + (k % 2)
      OBVIOUS
    <3>2. PICK q \in Seq(C) : q = Slashes(n)
      BY SlashesAre
    <3>3. fo \o q \in Seq(C)
      OBVIOUS
    <3> QED BY <3>1, <3>2, <3>3
  <2>7. Escaped(s) = t
    <3>1. Escaped(s) = E[l].out \o Slashes(Before(E[l].run, "end"))
      BY <1>1, <1>2 DEF Escaped
    <3> QED BY <2>2, <2>3, <2>5, <2>6, <3>1, Zenon
  <2>8. P[0].out = <<>>
    BY <1>3
  <2>9. Joined(E[l], P[0]) = t \o <<>>
    BY <2>2, <2>4, <2>6, <2>8, ReverseIs, Zenon DEF Joined
  <2>10. t \o <<>> = t
    OBVIOUS
  <2>11. ~P[0].wildcard
    BY <1>3
  <2> QED BY <2>1, <2>7, <2>9, <2>10, <2>11
<1>5. ASSUME NEW m \in Nat, m \in S PROVE m + 1 \in S
  <2> SUFFICES ASSUME m + 1 <= l PROVE J(m + 1)
    OBVIOUS
  <2>1. J(m)
    BY <1>5
  <2>2. PICK i \in 1..l : i = l - m
    OBVIOUS
  <2>3. i - 1 = l - (m + 1) /\ l + 1 - (m + 1) = i /\ (m + 1) - 1 = m /\ m + 1 \in 1..l /\ i - 1 \in 0..l /\ m \in 0..l
    BY <2>2
  <2>4. PICK c \in C : c = s[i]
    BY <1>1
  <2>5. PICK f \in Forwards(C) : f = E[i - 1]
    BY <2>3
  <2>6. PICK b \in Made(C) : b = P[m]
    BY <2>3
  <2>7. E[l - m] = Escape(c, f)
    BY <1>2, <2>2, <2>4, <2>5
  <2>8. P[m + 1] = PushCharacter(c, b)
    BY <1>3, <2>3, <2>4, <2>6
  <2>9. /\ Joined(Escape(c, f), b) = Joined(f, PushCharacter(c, b))
        /\ PushCharacter(c, b).wildcard => PushCharacter(c, b).slashes = 0
    BY <2>1, <2>6, JoinsOn
  <2> QED BY <2>1, <2>3, <2>5, <2>6, <2>7, <2>8, <2>9
<1>6. J(l)
  <2>1. \A k \in Nat : k \in S
    <3> HIDE DEF S
    <3> QED BY <1>4, <1>5, Induction
  <2> QED BY <2>1
<1>7. PICK o \in Seq(C) : o = P[l].out
  BY DEF Made
<1>8. PICK sl \in Nat : sl = P[l].slashes
  BY DEF Made
<1>9. PICK R \in Seq(C) : R = Reverse(o)
  BY ReverseIs
<1>10. Joined(E[0], P[l]) = <<>> \o Slashes(IF Odd(sl) THEN 1 ELSE 0) \o R
  <2>1. E[0].out = <<>> /\ E[0].run = 0
    BY <1>2
  <2>2. sl % 2 \in {0, 1} /\ 0 + sl = sl /\ 0 % 2 = 0
    OBVIOUS
  <2>3. P[l].wildcard => ~Odd(sl)
    BY <1>6, <1>8, <2>2 DEF Odd
  <2>4. 0 + ((0 + sl) % 2) = IF Odd(sl) THEN 1 ELSE 0
    BY <2>2 DEF Odd
  <2>5. Between(E[0], P[l]) = IF Odd(sl) THEN 1 ELSE 0
    BY <1>8, <2>1, <2>3, <2>4 DEF Between
  <2> QED BY <1>7, <1>9, <2>1, <2>5, Zenon DEF Joined
<1>11. EscapeReversed(s) = Reverse(IF Odd(sl) THEN Append(o, "\\") ELSE o)
  BY <1>1, <1>3, <1>7, <1>8 DEF EscapeReversed
<1>12. Escaped(s) = <<>> \o Slashes(IF Odd(sl) THEN 1 ELSE 0) \o R
  <2>1. l - l = 0
    OBVIOUS
  <2> QED BY <1>6, <1>10, <2>1
<1>13. CASE Odd(sl)
  <2>1. PICK x \in Seq(C) : x = <<"\\">>
    <3>1. <<"\\">> \in Seq(C)
      OBVIOUS
    <3> QED BY <3>1
  <2>2. Append(o, "\\") = o \o x
    BY <2>1, AppendIsConcat
  <2>3. Reverse(o \o x) = x \o R
    BY <1>9, <2>1, ReverseIs
  <2>4. Slashes(IF Odd(sl) THEN 1 ELSE 0) = x
    BY <1>13, <2>1, SlashesAre
  <2>5. <<>> \o x = x
    OBVIOUS
  <2> QED BY <1>11, <1>12, <1>13, <2>2, <2>3, <2>4, <2>5
<1>14. CASE ~Odd(sl)
  <2>1. Slashes(IF Odd(sl) THEN 1 ELSE 0) = <<>>
    BY <1>14, SlashesAre
  <2>2. <<>> \o <<>> \o R = R
    OBVIOUS
  <2> QED BY <1>9, <1>11, <1>12, <1>14, <2>1, <2>2
<1> QED BY <1>13, <1>14

\* The result so far stands at the end of the buffer, its last character first.
AtTheEnd(buffer, out, l) == \A i \in 1..Len(out) : buffer[2 * l + 1 - i] = out[i]

\* Putting a text before what is there appends it to the result.
LEMMA PutIs ==
  ASSUME NEW C, NEW l \in Nat, NEW a \in Buffered(C, l), NEW out \in Seq(C), NEW t \in Seq(C),
         a.x = 2 * l - Len(out), AtTheEnd(a.buffer, out, l), Len(out) + Len(t) <= 2 * l
  PROVE  /\ Put(a, t).x = 2 * l - Len(out \o t) /\ AtTheEnd(Put(a, t).buffer, out \o t, l)
         /\ Put(a, t).wildcard = a.wildcard /\ Put(a, t).slashes = a.slashes
<1>1. PICK x \in Int : x = a.x
  BY DEF Buffered
<1>2. PICK k \in Nat : k = Len(out)
  OBVIOUS
<1>3. PICK m \in Nat : m = Len(t)
  OBVIOUS
<1>4. PICK u \in Seq(C) : u = out \o t
  BY ConcatProperties
<1>5. Len(u) = k + m /\ \A i \in 1..(k + m) : u[i] = IF i <= k THEN out[i] ELSE t[i - k]
  <2> DEFINE Concat(s1, s2) == /\ Len(s1 \o s2) = Len(s1) + Len(s2)
                               /\ \A i \in 1..Len(s1) + Len(s2) : (s1 \o s2)[i] = IF i <= Len(s1) THEN s1[i] ELSE s2[i - Len(s1)]
  <2>1. Concat(out, t)
    BY ConcatProperties, Zenon
  <2> QED BY <1>2, <1>3, <1>4, <2>1
<1>6. PICK old : old = a.buffer
  OBVIOUS
<1>7. DOMAIN old = 1..2 * l
  BY <1>6 DEF Buffered
<1>8. PICK b : b = [i \in 1..2 * l |-> IF i \in x - m + 1 .. x THEN t[x + 1 - i] ELSE old[i]]
  OBVIOUS
<1>9. Put(a, t) = [a EXCEPT !.buffer = b, !.x = x - m]
  BY <1>1, <1>3, <1>6, <1>7, <1>8 DEF Put, Buffered
<1>10. /\ Put(a, t).buffer = b /\ Put(a, t).x = x - m
       /\ Put(a, t).wildcard = a.wildcard /\ Put(a, t).slashes = a.slashes
  BY <1>9 DEF Buffered
<1>11. x = 2 * l - k /\ k + m <= 2 * l /\ \A i \in 1..k : old[2 * l + 1 - i] = out[i]
  BY <1>1, <1>2, <1>3, <1>6 DEF AtTheEnd
<1>14. x = 2 * l - k /\ k + m <= 2 * l
  BY <1>11
<1>12. ASSUME NEW i \in 1..(k + m) PROVE b[2 * l + 1 - i] = u[i]
  <2>1. PICK j \in 1..2 * l : j = 2 * l + 1 - i
    BY <1>14
  <2>2. CASE i <= k
    <3>1. ~(j \in x - m + 1 .. x) /\ i \in 1..k
      BY <1>14, <2>1, <2>2
    <3>2. b[j] = old[j]
      BY <1>8, <3>1
    <3>3. u[i] = out[i]
      BY <1>5, <2>2
    <3> QED BY <1>11, <2>1, <3>1, <3>2, <3>3
  <2>3. CASE ~(i <= k)
    <3>1. j \in x - m + 1 .. x /\ x + 1 - j = i - k
      BY <1>14, <2>1, <2>3
    <3>2. b[j] = t[i - k]
      BY <1>8, <3>1
    <3>3. u[i] = t[i - k]
      BY <1>5, <2>3
    <3> QED BY <2>1, <3>2, <3>3
  <2> QED BY <2>2, <2>3
<1>13. x - m = 2 * l - (k + m)
  BY <1>14
<1> QED BY <1>4, <1>5, <1>10, <1>12, <1>13 DEF AtTheEnd

\* A character takes at most two places more than the backslash that may still come.
LEMMA PushedFits ==
  ASSUME NEW C, "\\" \in C, NEW c \in C, NEW b \in Made(C)
  PROVE  Len(Pushed(c, b)) + (SlashesAt(c, b) % 2) <= 2 + (b.slashes % 2)
<1>1. PICK sl \in Nat : sl = b.slashes
  BY DEF Made
<1>2. sl % 2 \in {0, 1} /\ (sl + 1) % 2 \in {0, 1}
  OBVIOUS
<1>3. CASE c = "\\"
  <2>1. Pushed(c, b) = <<>> \o <<c>> \o <<>>
    BY <1>3 DEF Pushed, Balances, Bracket
  <2>2. Len(Pushed(c, b)) = 1
    BY <2>1
  <2>3. SlashesAt(c, b) = sl \/ SlashesAt(c, b) = sl + 1
    BY <1>1, <1>3 DEF SlashesAt
  <2>4. SlashesAt(c, b) % 2 <= 1 /\ SlashesAt(c, b) % 2 \in Nat
    BY <1>2, <2>3
  <2> QED BY <1>1, <1>2, <2>2, <2>4
<1>4. CASE c # "\\"
  <2>1. SlashesAt(c, b) = 0
    BY <1>4 DEF SlashesAt
  <2>6. /\ <<"\\">> \in Seq(C) /\ Len(<<"\\">>) = 1
        /\ <<>> \in Seq(C) /\ Len(<<>>) = 0
    OBVIOUS
  <2>2. PICK bal : bal = IF Balances(c, b) THEN <<"\\">> ELSE <<>>
    OBVIOUS
  <2>3. PICK br : br = IF c \in Bracket THEN <<"\\">> ELSE <<>>
    OBVIOUS
  <2>7. bal \in Seq(C) /\ Len(bal) <= sl % 2
    <3>1. CASE Odd(sl)
      <4>1. Balances(c, b) /\ sl % 2 = 1
        BY <1>1, <1>2, <1>4, <3>1 DEF Balances, Odd
      <4>2. bal = <<"\\">>
        BY <2>2, <4>1
      <4> QED BY <2>6, <4>1, <4>2
    <3>2. CASE ~Odd(sl)
      <4>1. ~Balances(c, b) /\ sl % 2 = 0
        BY <1>1, <1>2, <3>2 DEF Balances, Odd
      <4>2. bal = <<>>
        BY <2>2, <4>1
      <4> QED BY <2>6, <4>1, <4>2
    <3> QED BY <3>1, <3>2
  <2>8. br \in Seq(C) /\ Len(br) <= 1
    <3>1. br = <<"\\">> \/ br = <<>>
      BY <2>3
    <3>2. CASE br = <<"\\">>
      BY <2>6, <3>2
    <3>3. CASE br = <<>>
      BY <2>6, <3>3
    <3> QED BY <3>1, <3>2, <3>3
  <2>4. Pushed(c, b) = bal \o <<c>> \o br
    BY <2>2, <2>3 DEF Pushed
  <2>5. Len(bal \o <<c>> \o br) = Len(bal) + 1 + Len(br)
    BY <2>7, <2>8
  <2>9. SlashesAt(c, b) % 2 = 0
    BY <2>1
  <2>10. Len(bal) \in Nat /\ Len(br) \in Nat
    BY <2>7, <2>8
  <2> QED BY <1>1, <1>2, <2>4, <2>5, <2>7, <2>8, <2>9, <2>10
<1> QED BY <1>3, <1>4

\* After m characters buffer and pushed text are the same, of at most 2 * m places
\* with the backslash that may still come.
EscapeRoom(l, m, F, P) ==
  /\ F.x = 2 * l - Len(P.out) /\ AtTheEnd(F.buffer, P.out, l)
  /\ F.wildcard = P.wildcard /\ F.slashes = P.slashes
  /\ Len(P.out) + (P.slashes % 2) <= 2 * m

\* Both copies make the same steps.
LEMMA FillingIsPushing ==
  ASSUME NEW C, "\\" \in C, "NUL" \in C, NEW s \in Seq(C), NEW n \in 0..Len(s)
  PROVE  EscapeRoom(Len(s), n, Filling(s)[n], Pushing(s)[n])
<1>1. PICK l \in Nat : l = Len(s)
  OBVIOUS
<1>2. PICK A \in [0..l -> Buffered(C, l)] :
        /\ A = Filling(s)
        /\ A[0] = [buffer |-> [i \in 1..2 * l |-> "NUL"], x |-> 2 * l, wildcard |-> FALSE, slashes |-> 0]
        /\ \A m \in 1..l : A[m] = PutCharacter(s[l + 1 - m], A[m - 1])
  <2>1. /\ Filling(s) \in [0..Len(s) -> Buffered(C, Len(s))]
        /\ Filling(s)[0] = [buffer |-> [i \in 1..2 * Len(s) |-> "NUL"], x |-> 2 * Len(s),
                            wildcard |-> FALSE, slashes |-> 0]
        /\ \A m \in 1..Len(s) : Filling(s)[m] = PutCharacter(s[Len(s) + 1 - m], Filling(s)[m - 1])
    BY FillingIs
  <2> QED BY <1>1, <2>1, Zenon
<1>3. PICK P \in [0..l -> Made(C)] :
        /\ P = Pushing(s)
        /\ P[0] = [out |-> <<>>, wildcard |-> FALSE, slashes |-> 0]
        /\ \A m \in 1..l : P[m] = PushCharacter(s[l + 1 - m], P[m - 1])
  <2>1. /\ Pushing(s) \in [0..Len(s) -> Made(C)]
        /\ Pushing(s)[0] = [out |-> <<>>, wildcard |-> FALSE, slashes |-> 0]
        /\ \A m \in 1..Len(s) : Pushing(s)[m] = PushCharacter(s[Len(s) + 1 - m], Pushing(s)[m - 1])
    BY PushingIs
  <2> QED BY <1>1, <2>1, Zenon
<1> DEFINE S == {m \in Nat : m <= l => EscapeRoom(l, m, A[m], P[m])}
<1>4. 0 \in S
  <2>1. /\ A[0].x = 2 * l /\ A[0].wildcard = FALSE /\ A[0].slashes = 0
        /\ P[0].out = <<>> /\ P[0].wildcard = FALSE /\ P[0].slashes = 0
    BY <1>2, <1>3
  <2>2. Len(<<>>) = 0 /\ 0 % 2 = 0
    OBVIOUS
  <2>3. AtTheEnd(A[0].buffer, <<>>, l)
    BY <2>2 DEF AtTheEnd
  <2>4. 2 * l = 2 * l - 0 /\ 0 + 0 <= 2 * 0
    OBVIOUS
  <2>5. EscapeRoom(l, 0, A[0], P[0])
    BY <2>1, <2>2, <2>3, <2>4, Zenon DEF EscapeRoom
  <2> QED BY <2>5
<1>5. ASSUME NEW m \in Nat, m \in S PROVE m + 1 \in S
  <2> SUFFICES ASSUME m + 1 <= l PROVE EscapeRoom(l, m + 1, A[m + 1], P[m + 1])
    OBVIOUS
  <2>1. m \in 0..l /\ m + 1 \in 1..l /\ (m + 1) - 1 = m /\ l + 1 - (m + 1) \in 1..l
    OBVIOUS
  <2>2. PICK c \in C : c = s[l + 1 - (m + 1)]
    BY <1>1, <2>1
  <2>3. PICK a \in Buffered(C, l) : a = A[m]
    BY <2>1
  <2>4. PICK b \in Made(C) : b = P[m]
    BY <2>1
  <2>5. A[m + 1] = PutCharacter(c, a) /\ P[m + 1] = PushCharacter(c, b)
    BY <1>2, <1>3, <2>1, <2>2, <2>3, <2>4
  <2>6. EscapeRoom(l, m, a, b)
    BY <1>5, <2>1, <2>3, <2>4
  <2>7. b.out \in Seq(C) /\ b.slashes \in Nat /\ b.wildcard \in BOOLEAN
    BY DEF Made
  <2>8. a.wildcard = b.wildcard /\ a.slashes = b.slashes
    BY <2>6 DEF EscapeRoom
  <2>9. Pushed(c, a) = Pushed(c, b) /\ SlashesAt(c, a) = SlashesAt(c, b)
    BY <2>8 DEF Pushed, Balances, SlashesAt
  <2>10. PICK t \in Seq(C) : t = Pushed(c, b)
    BY <2>7, AddedType
  <2>11. PICK sl \in Nat : sl = SlashesAt(c, b)
    BY <2>7, AddedType
  <2>12. PICK out \in Seq(C) : out = b.out
    BY <2>7
  <2>13. PICK k \in Nat : k = Len(out)
    OBVIOUS
  <2>14. PICK j \in Nat : j = Len(t)
    OBVIOUS
  <2>15. PICK e \in {0, 1} : e = b.slashes % 2
    <3>1. PICK sb \in Nat : sb = b.slashes
      BY <2>7
    <3>2. sb % 2 \in {0, 1}
      OBVIOUS
    <3> QED BY <3>1, <3>2
  <2>16. PICK e1 \in {0, 1} : e1 = sl % 2
    OBVIOUS
  <2>17. j + e1 <= 2 + e /\ k + e <= 2 * m
    <3>1. Len(Pushed(c, b)) + (SlashesAt(c, b) % 2) <= 2 + (b.slashes % 2)
      BY PushedFits
    <3>2. Len(b.out) + (b.slashes % 2) <= 2 * m
      BY <2>6 DEF EscapeRoom
    <3> QED BY <2>10, <2>11, <2>12, <2>13, <2>14, <2>15, <2>16, <3>1, <3>2
  <2>18. k + j + e1 <= 2 * (m + 1) /\ k + j <= 2 * l
    BY <2>17
  <2>19. PICK p : p = Put(a, t)
    OBVIOUS
  <2>20. /\ p.x = 2 * l - Len(out \o t) /\ AtTheEnd(p.buffer, out \o t, l)
         /\ p.wildcard = a.wildcard /\ p.slashes = a.slashes
    <3>1. a.x = 2 * l - Len(out) /\ AtTheEnd(a.buffer, out, l)
      BY <2>6, <2>12 DEF EscapeRoom
    <3>2. Len(out) + Len(t) <= 2 * l
      BY <2>13, <2>14, <2>18
    <3> QED BY <2>19, <3>1, <3>2, PutIs
  <2>21. p \in Buffered(C, l)
    BY <2>19, PutType
  <2>22. /\ A[m + 1].x = p.x /\ A[m + 1].buffer = p.buffer
         /\ A[m + 1].wildcard = WildcardAt(c, a.wildcard) /\ A[m + 1].slashes = SlashesAt(c, a)
    <3>1. A[m + 1] = [p EXCEPT !.wildcard = WildcardAt(c, a.wildcard), !.slashes = SlashesAt(c, a)]
      BY <2>5, <2>9, <2>10, <2>19 DEF PutCharacter
    <3> QED BY <2>21, <3>1 DEF Buffered
  <2>23. /\ P[m + 1].out = out \o t
         /\ P[m + 1].wildcard = WildcardAt(c, b.wildcard) /\ P[m + 1].slashes = SlashesAt(c, b)
    BY <2>5, <2>10, <2>12 DEF PushCharacter
  <2>24. Len(out \o t) = k + j
    BY <2>13, <2>14
  <2> QED BY <2>8, <2>9, <2>11, <2>16, <2>18, <2>20, <2>22, <2>23, <2>24 DEF EscapeRoom
<1>6. n \in Nat /\ n <= l
  BY <1>1
<1>7. n \in S
  <2> HIDE DEF S
  <2> QED BY <1>4, <1>5, <1>6, Induction
<1> QED BY <1>1, <1>2, <1>3, <1>6, <1>7

\* A backslash before the first character still finds a place.
LEMMA LastFits ==
  ASSUME NEW C, "\\" \in C, "NUL" \in C, NEW s \in Seq(C)
  PROVE  LET l == Len(s)
             a == Filling(s)[l]
             b == Pushing(s)[l]
             t == IF Odd(b.slashes) THEN <<"\\">> ELSE <<>>
         IN /\ PutLast(a) \in Buffered(C, l) /\ PutLast(a).x >= 0
            /\ b.out \o t \in Seq(C)
            /\ PutLast(a).x = 2 * l - Len(b.out \o t) /\ AtTheEnd(PutLast(a).buffer, b.out \o t, l)
<1>1. PICK l \in Nat : l = Len(s)
  OBVIOUS
<1>2. PICK a \in Buffered(C, l) : a = Filling(s)[l]
  <2>1. Filling(s) \in [0..Len(s) -> Buffered(C, Len(s))]
    BY FillingIs
  <2> QED BY <1>1, <2>1
<1>3. PICK b \in Made(C) : b = Pushing(s)[l]
  <2>1. Pushing(s) \in [0..Len(s) -> Made(C)]
    BY PushingIs
  <2> QED BY <1>1, <2>1
<1>4. EscapeRoom(l, l, a, b)
  <2>1. Len(s) \in 0..Len(s)
    OBVIOUS
  <2>2. EscapeRoom(Len(s), Len(s), Filling(s)[Len(s)], Pushing(s)[Len(s)])
    BY <2>1, FillingIsPushing
  <2> QED BY <1>1, <1>2, <1>3, <2>2
<1>5. PICK sl \in Nat : sl = b.slashes /\ sl = a.slashes
  BY <1>4 DEF Made, EscapeRoom
<1>6. PICK t : t = IF Odd(sl) THEN <<"\\">> ELSE <<>>
  OBVIOUS
<1>7. t \in Seq(C) /\ Len(t) = sl % 2
  <2>1. /\ <<"\\">> \in Seq(C) /\ Len(<<"\\">>) = 1
        /\ <<>> \in Seq(C) /\ Len(<<>>) = 0
    OBVIOUS
  <2>2. sl % 2 \in {0, 1}
    OBVIOUS
  <2>3. CASE Odd(sl)
    <3>1. t = <<"\\">> /\ sl % 2 = 1
      BY <1>6, <2>2, <2>3 DEF Odd
    <3> QED BY <2>1, <3>1
  <2>4. CASE ~Odd(sl)
    <3>1. t = <<>> /\ sl % 2 = 0
      BY <1>6, <2>2, <2>4 DEF Odd
    <3> QED BY <2>1, <3>1
  <2> QED BY <2>3, <2>4
<1>8. PICK out \in Seq(C) : out = b.out
  BY DEF Made
<1>9. Len(out) + Len(t) <= 2 * l
  BY <1>4, <1>5, <1>7, <1>8 DEF EscapeRoom
<1>10. PutLast(a) = Put(a, t)
  BY <1>5, <1>6 DEF PutLast
<1>11. /\ Put(a, t).x = 2 * l - Len(out \o t) /\ AtTheEnd(Put(a, t).buffer, out \o t, l)
  <2>1. a.x = 2 * l - Len(out) /\ AtTheEnd(a.buffer, out, l)
    BY <1>4, <1>8 DEF EscapeRoom
  <2> QED BY <1>7, <1>9, <2>1, PutIs
<1>12. Put(a, t) \in Buffered(C, l)
  BY <1>7, PutType
<1>13. out \o t \in Seq(C) /\ Len(out \o t) = Len(out) + Len(t)
  BY <1>7
<1>14. Put(a, t).x >= 0
  <2>1. PICK k \in Nat : k = Len(out)
    OBVIOUS
  <2>2. PICK m \in Nat : m = Len(t)
    BY <1>7
  <2> QED BY <1>9, <1>11, <1>13, <2>1, <2>2
<1> QED BY <1>1, <1>2, <1>3, <1>5, <1>6, <1>8, <1>10, <1>11, <1>12, <1>13, <1>14, Zenon

\* What lies behind the last place filled is the pushed text in reverse.
LEMMA BufferIsReversed ==
  ASSUME NEW C, "\\" \in C, "NUL" \in C, NEW s \in Seq(C)
  PROVE  EscapeIntoBuffer(s) = EscapeReversed(s)
<1>1. PICK l \in Nat : l = Len(s)
  OBVIOUS
<1>2. PICK b \in Made(C) : b = Pushing(s)[l]
  <2>1. Pushing(s) \in [0..Len(s) -> Made(C)]
    BY PushingIs
  <2> QED BY <1>1, <2>1
<1>3. PICK t : t = IF Odd(b.slashes) THEN <<"\\">> ELSE <<>>
  OBVIOUS
<1>4. PICK a : a = PutLast(Filling(s)[l])
  OBVIOUS
<1>5. PICK o : o = b.out \o t
  OBVIOUS
<1>6. a \in Buffered(C, l) /\ a.x >= 0 /\ o \in Seq(C) /\ a.x = 2 * l - Len(o) /\ AtTheEnd(a.buffer, o, l)
  BY <1>1, <1>2, <1>3, <1>4, <1>5, LastFits, Zenon
<1>7. EscapeIntoBuffer(s) = SubSeq(a.buffer, a.x + 1, Len(a.buffer))
  BY <1>1, <1>4 DEF EscapeIntoBuffer, Filled
<1>8. PICK k \in Nat : k = Len(o)
  BY <1>6
<1>9. PICK buffer \in [1..2 * l -> C] : buffer = a.buffer
  BY <1>6 DEF Buffered
<1>10. buffer \in Seq(C) /\ Len(buffer) = 2 * l
  OBVIOUS
<1>11. PICK x \in Nat : x = a.x
  BY <1>6 DEF Buffered
<1>12. x = 2 * l - k /\ \A i \in 1..k : buffer[2 * l + 1 - i] = o[i]
  BY <1>6, <1>8, <1>9, <1>11 DEF AtTheEnd
<1>13. EscapeReversed(s) = Reverse(o)
  <2>1. PICK p \in Seq(C) : p = b.out
    BY DEF Made
  <2>2. Append(p, "\\") = p \o <<"\\">>
    BY AppendIsConcat
  <2>3. p \o <<>> = p
    OBVIOUS
  <2>4. EscapeReversed(s) = Reverse(IF Odd(b.slashes) THEN Append(p, "\\") ELSE p)
    BY <1>1, <1>2, <2>1 DEF EscapeReversed
  <2>5. CASE Odd(b.slashes)
    BY <1>3, <1>5, <2>1, <2>2, <2>4, <2>5
  <2>6. CASE ~Odd(b.slashes)
    BY <1>3, <1>5, <2>1, <2>3, <2>4, <2>6
  <2> QED BY <2>5, <2>6
<1>14. PICK r : r = Reverse(o)
  OBVIOUS
<1>15. r \in Seq(C) /\ Len(r) = k /\ \A i \in 1..k : r[i] = o[(k - i) + 1]
  BY <1>6, <1>8, <1>14, ReverseIs
<1>16. PICK u : u = SubSeq(buffer, x + 1, 2 * l)
  OBVIOUS
<1>17. u \in Seq(C) /\ Len(u) = k /\ \A i \in 1..k : u[i] = buffer[x + i]
  <2>1. u = [i \in 1..k |-> buffer[i + x]]
    BY <1>10, <1>12, <1>16
  <2>2. \A i \in 1..k : i + x \in 1..2 * l
    BY <1>12
  <2>3. \A i \in 1..k : buffer[i + x] \in C
    BY <2>2
  <2>4. \A i \in 1..k : i + x = x + i
    BY <1>11
  <2>5. u \in [1..k -> C]
    BY <2>1, <2>3, Zenon
  <2>6. u \in Seq(C) /\ Len(u) = k
    BY <2>5
  <2> QED BY <2>1, <2>4, <2>6
<1>18. \A i \in 1..k : u[i] = r[i]
  <2> SUFFICES ASSUME NEW i \in 1..k PROVE u[i] = r[i]
    OBVIOUS
  <2>1. PICK j \in 1..k : j = (k - i) + 1
    OBVIOUS
  <2>2. 2 * l + 1 - j = x + i
    BY <1>12, <2>1
  <2> QED BY <1>12, <1>15, <1>17, <2>1, <2>2
<1>19. u = r
  <2>1. u = [i \in 1..k |-> u[i]] /\ r = [i \in 1..k |-> r[i]]
    BY <1>15, <1>17
  <2> QED BY <1>18, <2>1
<1> QED BY <1>7, <1>9, <1>10, <1>11, <1>13, <1>14, <1>16, <1>19

\* A text without brackets and backslashes escapes to itself.
LEMMA PlainIsEscaped ==
  ASSUME NEW C, "\\" \in C, NEW s \in Seq(C), \A i \in DOMAIN s : s[i] \notin Bracket \cup {"\\"}
  PROVE  Escaped(s) = s
<1>1. PICK l \in Nat : l = Len(s)
  OBVIOUS
<1>2. PICK E \in [0..l -> Forwards(C)] :
        /\ E = Escaping(s)
        /\ E[0] = [out |-> <<>>, run |-> 0]
        /\ \A n \in 1..l : E[n] = Escape(s[n], E[n - 1])
  BY <1>1, EscapingIs
<1> DEFINE J(m) == E[m].run = 0 /\ Len(E[m].out) = m /\ \A i \in 1..m : E[m].out[i] = s[i]
           S == {m \in Nat : m <= l => J(m)}
<1>3. 0 \in S
  BY <1>2
<1>4. ASSUME NEW m \in Nat, m \in S PROVE m + 1 \in S
  <2> SUFFICES ASSUME m + 1 <= l PROVE J(m + 1)
    OBVIOUS
  <2>1. J(m) /\ m \in 0..l /\ m + 1 \in 1..l /\ (m + 1) - 1 = m
    BY <1>4
  <2>2. PICK out \in Seq(C) : out = E[m].out
    BY <2>1 DEF Forwards
  <2>3. PICK c \in C : c = s[m + 1]
    BY <1>1, <2>1
  <2>4. c \notin Bracket /\ c # "\\"
    BY <1>1, <2>1, <2>3
  <2>5. Before(0, c) = 0
    <3>1. 0 % 2 = 0
      OBVIOUS
    <3> QED BY <2>4, <3>1 DEF Before
  <2>6. out \o Slashes(0) = out
    <3>1. out \o <<>> = out
      OBVIOUS
    <3> QED BY <3>1, SlashesAre, Zenon
  <2>7. E[m + 1] = [out |-> Append(out, c), run |-> 0]
    <3>1. E[m + 1] = Escape(c, E[m])
      BY <1>2, <2>1, <2>3
    <3>2. E[m].run = 0
      BY <2>1
    <3> QED BY <2>2, <2>4, <2>5, <2>6, <3>1, <3>2, Zenon DEF Escape
  <2>8. Len(Append(out, c)) = m + 1 /\ \A i \in 1..(m + 1) : Append(out, c)[i] = s[i]
    BY <2>1, <2>2, <2>3
  <2>9. E[m + 1].run = 0 /\ E[m + 1].out = Append(out, c)
    BY <2>7
  <2> HIDE DEF S
  <2> QED BY <2>8, <2>9
<1>5. J(l)
  <2>1. \A k \in Nat : k \in S
    <3> HIDE DEF S
    <3> QED BY <1>3, <1>4, Induction
  <2> QED BY <2>1
<1>6. PICK out \in Seq(C) : out = E[l].out
  BY DEF Forwards
<1>7. Escaped(s) = out \o Slashes(Before(0, "end"))
  BY <1>1, <1>2, <1>5, <1>6 DEF Escaped
<1>8. Before(0, "end") = 0
  <2>1. 0 + (0 % 2) + 0 = 0
    OBVIOUS
  <2>2. "end" \notin Wildcard /\ "end" \notin Bracket
    BY DEF Wildcard, Bracket
  <2> QED BY <2>1, <2>2, Zenon DEF Before
<1>9. out \o Slashes(0) = out
  <2>1. out \o <<>> = out
    OBVIOUS
  <2> QED BY <2>1, SlashesAre, Zenon
<1>10. out = s
  BY <1>1, <1>5, <1>6
<1> QED BY <1>7, <1>8, <1>9, <1>10

------------------------------------------------------------------------------
\* Both copies give the text escaped, of any length and over any characters.
LEMMA EveryTextEscapedAlike == \A Char : \A s \in Seq(Char) : EscapedAlike(s)
<1> SUFFICES ASSUME NEW Char, NEW s \in Seq(Char) PROVE EscapedAlike(s)
  OBVIOUS
<1>1. PICK C : C = Char \cup {"\\", "NUL"}
  OBVIOUS
<1>2. "\\" \in C /\ "NUL" \in C /\ s \in Seq(C)
  BY <1>1
<1>3. EscapeIntoBuffer(s) = EscapeReversed(s) /\ EscapeReversed(s) = Escaped(s)
  BY <1>2, BufferIsReversed, ReversedIsEscaped
<1>4. CASE \E i \in DOMAIN s : s[i] \in Bracket \cup {"\\"}
  BY <1>3, <1>4 DEF EscapedAlike, EscapeSigma
<1>5. CASE ~ \E i \in DOMAIN s : s[i] \in Bracket \cup {"\\"}
  <2>1. Escaped(s) = s
    BY <1>2, <1>5, PlainIsEscaped
  <2> QED BY <1>3, <1>5, <2>1 DEF EscapedAlike, EscapeSigma
<1> QED BY <1>4, <1>5

\* Whatever text the entry of a detection has, escape_sigma_for_glob_cow() and the copy
\* of it in string_matcher.rs escape it alike, and as the definition by the text read
\* forwards says.
THEOREM EscapesAlwaysAgree ==
  ASSUME NEW Char, entry.value.kind = "string" => entry.value.text \in Seq(Char)
  PROVE  EscapesAgree
BY EveryTextEscapedAlike DEF EscapesAgree

\* The index of escape_sigma_for_glob_owned() into its buffer of twice the length never
\* falls below the first place, also for the backslash that may come last.
THEOREM BufferSuffices ==
  \A Char : \A s \in Seq(Char) :
    /\ \A n \in 0..Len(s) : Filling(s)[n].x >= 0
    /\ PutLast(Filling(s)[Len(s)]).x >= 0
<1> SUFFICES ASSUME NEW Char, NEW s \in Seq(Char)
             PROVE  /\ \A n \in 0..Len(s) : Filling(s)[n].x >= 0
                    /\ PutLast(Filling(s)[Len(s)]).x >= 0
  OBVIOUS
<1>1. PICK C : C = Char \cup {"\\", "NUL"}
  OBVIOUS
<1>2. "\\" \in C /\ "NUL" \in C /\ s \in Seq(C)
  BY <1>1
<1>3. ASSUME NEW n \in 0..Len(s) PROVE Filling(s)[n].x >= 0
  <2>1. EscapeRoom(Len(s), n, Filling(s)[n], Pushing(s)[n])
    BY <1>2, FillingIsPushing
  <2>2. PICK P \in Made(C) : P = Pushing(s)[n]
    <3>1. Pushing(s) \in [0..Len(s) -> Made(C)]
      BY <1>2, PushingIs
    <3> QED BY <3>1
  <2>3. PICK l \in Nat : l = Len(s) /\ n <= l
    OBVIOUS
  <2>4. PICK k \in Nat : k = Len(P.out)
    BY DEF Made
  <2>5. P.slashes % 2 \in Nat
    <3>1. PICK sl \in Nat : sl = P.slashes
      BY DEF Made
    <3>2. sl % 2 \in Nat
      OBVIOUS
    <3> QED BY <3>1, <3>2
  <2> QED BY <2>1, <2>2, <2>3, <2>4, <2>5 DEF EscapeRoom
<1>4. PutLast(Filling(s)[Len(s)]).x >= 0
  BY <1>2, LastFits
<1> QED BY <1>3, <1>4
================================================================================
