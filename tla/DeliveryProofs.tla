----------------------------- MODULE DeliveryProofs -----------------------------
(***************************************************************************)
(* What the delivery of messages promises, for any workers, messages and   *)
(* policies, and what the locks of the metrics promise.                    *)
(***************************************************************************)
EXTENDS MessageDelivery, ConsumerMetrics, FiniteSetTheorems, SequenceTheorems,
        WellFoundedInduction, TLAPS

------------------------------------------------------------------------------
(* Numbers *)

LEMMA MinIsThere ==
  ASSUME NEW S, S \subseteq Nat, S # {}
  PROVE  Min(S) \in S /\ \A x \in S : Min(S) <= x
<1> DEFINE Less == {p \in Nat \X Nat : p[1] < p[2]}
<1>1. IsWellFoundedOn(Less, Nat)
  BY NatLessThanWellFounded DEF OpToRel
<1>2. \E x \in S : \A y \in S : ~ (<<y, x>> \in Less)
  <2> HIDE DEF Less
  <2> QED BY <1>1, WFMin
<1>3. PICK x \in S : \A y \in S : x <= y
  <2>1. PICK x \in S : \A y \in S : ~ (<<y, x>> \in Less)
    BY <1>2
  <2>2. ASSUME NEW y \in S PROVE x <= y
    <3>1. <<y, x>> \in Nat \X Nat /\ <<y, x>>[1] = y /\ <<y, x>>[2] = x
      OBVIOUS
    <3>2. ~ (y < x)
      BY <2>1, <3>1
    <3> QED
      BY <3>2
  <2> QED
    BY <2>2
<1>4. \A y \in S : Min(S) <= y
  BY <1>3, Zenon DEF Min
<1>5. Min(S) \in S
  BY <1>3, Zenon DEF Min
<1> QED
  BY <1>4, <1>5

\* A set that holds zero and with every number the next holds all: there is no least one
\* outside.
LEMMA Induction ==
  ASSUME NEW S, 0 \in S, \A n \in Nat : n \in S => n + 1 \in S
  PROVE  \A n \in Nat : n \in S
<1> DEFINE out == Nat \ S
<1>1. ASSUME out # {} PROVE FALSE
  <2>1. Min(out) \in out /\ \A x \in out : Min(out) <= x
    BY <1>1, MinIsThere
  <2>2. PICK m : m = Min(out)
    OBVIOUS
  <2>3. m \in Nat /\ m # 0 /\ m \notin S /\ \A x \in out : m <= x
    BY <2>1, <2>2
  <2>4. m - 1 \in Nat /\ m - 1 \notin out /\ (m - 1) + 1 = m
    BY <2>3
  <2> QED BY <2>3, <2>4
<1> QED BY <1>1

------------------------------------------------------------------------------
(* Sequences of anything *)

LEMMA SequenceIsAFunction ==
  ASSUME NEW s, IsASequence(s)
  PROVE  Len(s) \in Nat /\ DOMAIN s = 1..Len(s)
BY DEF IsASequence

LEMMA AppendToSequence ==
  ASSUME NEW s, IsASequence(s), NEW e
  PROVE  LET t == Append(s, e) IN
         /\ IsASequence(t) /\ Len(t) = Len(s) + 1
         /\ t[Len(s) + 1] = e /\ \A i \in 1..Len(s) : t[i] = s[i]
<1> DEFINE R == Range(s) \cup {e}
           t == Append(s, e)
<1>1. s \in Seq(R)
  BY SeqMonotonic DEF IsASequence
<1>2. t \in Seq(R) /\ Len(t) = Len(s) + 1 /\ t[Len(s) + 1] = e /\ \A i \in 1..Len(s) : t[i] = s[i]
  BY <1>1
<1>3. DOMAIN t = 1..Len(t) /\ Len(t) \in Nat
  BY <1>2
<1> HIDE DEF t
<1>4. \A i \in 1..Len(t) : t[i] \in Range(t)
  BY <1>3 DEF Range
<1>5. t \in Seq(Range(t))
  BY <1>2, <1>3, <1>4
<1> QED BY <1>2, <1>5 DEF IsASequence, t

------------------------------------------------------------------------------
(* The workers of a kind *)

Places == {"idle", "process", "sleep", "succeeded", "failed", "dead_letter", "dead"}

\* The workers at one of some places.
Those(f, places) == {w \in Workers : f[w] \in places}

LEMMA ThoseAreFinite ==
  ASSUME NEW f, NEW places
  PROVE  IsFiniteSet(Those(f, places)) /\ Cardinality(Those(f, places)) \in Nat
BY DeliveryAssumption, FS_Subset, FS_CardinalityType DEF Those

\* A worker that moves leaves one kind and joins another.
LEMMA OneMoves ==
  ASSUME NEW f \in [Workers -> Places], NEW w \in Workers, NEW x \in Places, NEW places
  PROVE  LET before == Cardinality(Those(f, places))
             after == Cardinality(Those([f EXCEPT ![w] = x], places)) IN
         /\ f[w] \in places /\ x \in places => after = before
         /\ f[w] \notin places /\ x \notin places => after = before
         /\ f[w] \notin places /\ x \in places => after = before + 1
         /\ f[w] \in places /\ x \notin places => before = after + 1
<1> DEFINE g == [f EXCEPT ![w] = x]
           A == Those(f, places)
           B == Those(g, places)
<1>1. \A v \in Workers : g[v] = IF v = w THEN x ELSE f[v]
  OBVIOUS
<1> HIDE DEF g
<1>2. IsFiniteSet(A) /\ IsFiniteSet(B)
  BY ThoseAreFinite
<1>3. CASE (f[w] \in places) <=> (x \in places)
  <2>1. A = B
    BY <1>1, <1>3 DEF Those
  <2> QED BY <1>3, <2>1 DEF g
<1>4. CASE f[w] \notin places /\ x \in places
  <2>1. B = A \cup {w} /\ w \notin A
    BY <1>1, <1>4 DEF Those
  <2> HIDE DEF A, B
  <2>2. Cardinality(B) = Cardinality(A) + 1
    BY <1>2, <2>1, FS_AddElement
  <2> QED BY <1>4, <2>2 DEF g, A, B
<1>5. CASE f[w] \in places /\ x \notin places
  <2>1. A = B \cup {w} /\ w \notin B
    BY <1>1, <1>5 DEF Those
  <2> HIDE DEF A, B
  <2>2. Cardinality(A) = Cardinality(B) + 1
    BY <1>2, <2>1, FS_AddElement
  <2> QED BY <1>5, <2>2 DEF g, A, B
<1> QED BY <1>3, <1>4, <1>5
------------------------------------------------------------------------------
(* The headers of a letter *)

OurNames == {"original.topic", "original.offset", "error.attempts"}
HasOurHeaders(headers, topic, offset) ==
  /\ Named(headers, <<"dlq", "original.topic">>) = {1}
  /\ Named(headers, <<"dlq", "original.offset">>) = {2}
  /\ Named(headers, <<"dlq", "error.attempts">>) = {3}
  /\ headers[1] = Header(<<"dlq", "original.topic">>, topic)
  /\ headers[2] = Header(<<"dlq", "original.offset">>, offset)

\* Each of our headers is in a letter once, and the first two say where its message is.
LEMMA OurHeaders ==
  ASSUME NEW topic, NEW offset, NEW original, IsASequence(original.headers), NEW n
  PROVE  LET headers == CreateDlqHeaders(topic, offset, original, n) IN
         IsASequence(headers) /\ HasOurHeaders(headers, topic, offset)
<1> DEFINE kept == {i \in DOMAIN original.headers : Head(original.headers[i].key) # "dlq"}
           k == Cardinality(kept)
           header(j) == original.headers[InOrder(kept)[j]]
           copy(j) == Header(<<"dlq", "original.header", header(j).key>>, header(j).value)
           c == [j \in 1..k |-> copy(j)]
           o == <<Header(<<"dlq", "original.topic">>, topic), Header(<<"dlq", "original.offset">>, offset),
                  Header(<<"dlq", "error.attempts">>, n)>>
           h == o \o c
<1>0. CreateDlqHeaders(topic, offset, original, n) = h
  BY DEF CreateDlqHeaders
<1>1. k \in Nat
  <2>1. IsFiniteSet(DOMAIN original.headers)
    <3>1. PICK len \in Nat : DOMAIN original.headers = 1..len
      BY SequenceIsAFunction
    <3> QED BY <3>1, FS_Interval
  <2> QED BY <2>1, FS_Subset, FS_CardinalityType
<1> HIDE DEF kept, k
<1>2. c \in Seq(Range(o) \cup Range(c)) /\ Len(c) = k /\ DOMAIN c = 1..k
  <2>1. c \in [1..k -> Range(o) \cup Range(c)]
    BY DEF Range
  <2> HIDE DEF c
  <2> QED BY <1>1, <2>1
<1>3. o \in Seq(Range(o) \cup Range(c)) /\ Len(o) = 3
  <2>1. o \in [1..3 -> Range(o) \cup Range(c)]
    BY DEF Range
  <2>2. Len(o) = 3
    OBVIOUS
  <2>3. [1..3 -> Range(o) \cup Range(c)] \in {[1..l -> Range(o) \cup Range(c)] : l \in Nat}
    OBVIOUS
  <2> HIDE DEF o, c
  <2> QED BY <2>1, <2>2, <2>3, SeqDef
<1>4. \A j \in 1..k : c[j].key = <<"dlq", "original.header", header(j).key>>
  BY DEF Header
<1>5. /\ o[1] = Header(<<"dlq", "original.topic">>, topic)
      /\ o[2] = Header(<<"dlq", "original.offset">>, offset)
      /\ o[3] = Header(<<"dlq", "error.attempts">>, n)
  OBVIOUS
<1> HIDE DEF c, o
<1>6. /\ h \in Seq(Range(o) \cup Range(c)) /\ Len(h) = k + 3
      /\ \A i \in 1..3 : h[i] = o[i]
      /\ \A i \in 4..(k + 3) : h[i] = c[i - 3] /\ i - 3 \in 1..k
  <2>1. /\ h \in Seq(Range(o) \cup Range(c)) /\ Len(h) = Len(o) + Len(c)
        /\ \A i \in 1..(Len(o) + Len(c)) : h[i] = IF i <= Len(o) THEN o[i] ELSE c[i - Len(o)]
    BY <1>2, <1>3, ConcatProperties
  <2> HIDE DEF h
  <2> QED BY <1>1, <1>2, <1>3, <2>1
<1> HIDE DEF h
<1>7. IsASequence(h)
  BY <1>6, SMTT(60) DEF IsASequence, Range
<1>8. \A i \in 4..(k + 3) : h[i].key \notin {<<"dlq", name>> : name \in OurNames}
  <2> TAKE i \in 4..(k + 3)
  <2>1. h[i].key[2] = "original.header"
    BY <1>4, <1>6
  <2>2. \A name \in OurNames : <<"dlq", name>>[2] = name /\ name # "original.header"
    BY DEF OurNames
  <2> QED BY <2>1, <2>2
<1>9. /\ h[1].key = <<"dlq", "original.topic">> /\ h[2].key = <<"dlq", "original.offset">>
      /\ h[3].key = <<"dlq", "error.attempts">>
  BY <1>5, <1>6 DEF Header
<1>10. DOMAIN h = 1..(k + 3)
  BY <1>6
<1>11. \A i \in 1..(k + 3) : i \in {1, 2, 3} \/ i \in 4..(k + 3)
  BY <1>1
<1>12. <<"dlq", "original.topic">> # <<"dlq", "original.offset">>
       /\ <<"dlq", "original.topic">> # <<"dlq", "error.attempts">>
       /\ <<"dlq", "original.offset">> # <<"dlq", "error.attempts">>
  OBVIOUS
<1>13. {1, 2, 3} \subseteq DOMAIN h
  BY <1>1, <1>10
<1>14. /\ Named(h, <<"dlq", "original.topic">>) = {1}
       /\ Named(h, <<"dlq", "original.offset">>) = {2}
       /\ Named(h, <<"dlq", "error.attempts">>) = {3}
  BY <1>8, <1>9, <1>10, <1>11, <1>12, <1>13 DEF Named, OurNames
<1>15. h[1] = Header(<<"dlq", "original.topic">>, topic) /\ h[2] = Header(<<"dlq", "original.offset">>, offset)
  BY <1>5, <1>6
<1>16. HasOurHeaders(h, topic, offset)
  BY <1>14, <1>15 DEF HasOurHeaders
<1> QED BY <1>0, <1>7, <1>16
------------------------------------------------------------------------------
(* The invariant *)

Topics == {"main", "dlq"}

DeliveryTypes ==
  /\ policy \in Policies /\ dlq_after_retries \in Nat /\ dlq_after_retries <= policy.max_retries
  /\ dlq_producer \in BOOLEAN /\ wrapped \in BOOLEAN
  /\ pc \in [Workers -> Places] /\ message \in [Workers -> Topics \X Nat]
  /\ attempt \in [Workers -> Nat] /\ tries \in [Workers -> Nat]
  /\ position \in [Topics -> Nat]
  /\ messages_consumed \in Nat /\ messages_processed \in Nat /\ messages_failed \in Nat
  /\ messages_dlq \in Nat /\ dlq_failures \in Nat

\* Every message of a letter was there before the letter, and is what the letter says.
IsLetterOf(letter, i, ts) ==
  \E topic \in Topics : \E offset \in 1..Len(ts[topic]), n \in Nat :
    /\ topic = "dlq" => offset < i
    /\ letter = DlqRecord(topic, offset, ts[topic][offset], n)

TopicsOK(ts) ==
  /\ ts = [main |-> ts.main, dlq |-> ts.dlq]
  /\ \A topic \in Topics :
       IsASequence(ts[topic]) /\ \A i \in 1..Len(ts[topic]) : IsASequence(ts[topic][i].headers)
  /\ \A i \in 1..Len(ts.dlq) : IsLetterOf(ts.dlq[i], i, ts)

\* The counters of the executor, and what a failure that is final has met.
WorkerOK(w) ==
  /\ pc[w] # "idle" => message[w][2] \in 1..Len(topics[message[w][1]])
  /\ pc[w] # "idle" => attempt[w] <= policy.max_retries
  /\ pc[w] \in {"process", "sleep"} => tries[w] = attempt[w]
  /\ pc[w] \in {"succeeded", "failed", "dead_letter"} => tries[w] = attempt[w] + 1
  /\ pc[w] = "failed" /\ wrapped => attempt[w] >= policy.max_retries

HasLetter(s, letters) ==
  \E i \in 1..Len(letters) :
    /\ Header(<<"dlq", "original.topic">>, s.topic) \in Range(letters[i].headers)
    /\ Header(<<"dlq", "original.offset">>, s.offset) \in Range(letters[i].headers)

SettledOK(s) ==
  /\ s.tries = s.attempts + 1 /\ s.attempts \in Nat /\ s.attempts <= policy.max_retries
  /\ s.how = "dropped" => ~dlq_producer \/ (s.attempts < dlq_after_retries /\ ~wrapped)
  /\ s.how = "dead" => HasLetter(s, topics.dlq)

\* What was counted and is with no worker was read, and nothing was read that is not there.
ReadingOK ==
  /\ queued \subseteq Topics \X Nat /\ lost \subseteq Topics \X Nat /\ queued \cap lost = {}
  /\ IsFiniteSet(queued) /\ IsFiniteSet(lost)
  /\ \A m \in queued \cup lost : m[2] >= 1 /\ m[2] <= position[m[1]]
  /\ \A topic \in Topics : position[topic] <= Len(topics[topic])

AtWork == Places \ {"idle", "dead_letter"}
Sending == {"dead_letter"}
CountersOK ==
  /\ messages_consumed = messages_processed + messages_failed + Cardinality(Those(pc, AtWork))
                          + Cardinality(queued) + Cardinality(lost)
  /\ messages_dlq + dlq_failures + Cardinality(Those(pc, Sending)) <= messages_failed

DeliveryInv ==
  /\ DeliveryTypes /\ TopicsOK(topics) /\ ReadingOK /\ CountersOK
  /\ \A w \in Workers : WorkerOK(w)
  /\ \A s \in settled : SettledOK(s)

\* A policy's numbers.
LEMMA PolicyNumbers == ASSUME DeliveryTypes PROVE policy.max_retries \in Nat
BY DeliveryAssumption DEF DeliveryTypes

LEMMA DeliveryInvInitially == DeliveryInit => DeliveryInv
<1> SUFFICES ASSUME DeliveryInit PROVE DeliveryInv
  OBVIOUS
<1>1. DeliveryTypes
  BY DeliveryAssumption DEF DeliveryInit, DeliveryTypes, Topics, Places
<1>2. TopicsOK(topics)
  <2>1. IsASequence(<<>>) /\ Len(<<>>) = 0
    BY DEF IsASequence, Range
  <2>2. topics.main = Published /\ topics.dlq = <<>>
    BY DEF DeliveryInit
  <2>3. \A i \in 1..Len(Published) : i \in DOMAIN Published
    BY DeliveryAssumption DEF IsASequence
  <2>4. topics["main"] = Published /\ topics["dlq"] = <<>> /\ topics = [main |-> topics.main, dlq |-> topics.dlq]
    BY DEF DeliveryInit
  <2> QED BY <2>1, <2>2, <2>3, <2>4, DeliveryAssumption DEF TopicsOK, Topics
<1>3. CountersOK
  <2>1. Those(pc, AtWork) = {} /\ Those(pc, Sending) = {}
    BY DEF DeliveryInit, Those, AtWork, Sending
  <2>2. queued = {} /\ lost = {}
    BY DEF DeliveryInit
  <2>3. /\ Cardinality(Those(pc, AtWork)) = 0 /\ Cardinality(Those(pc, Sending)) = 0
        /\ Cardinality(queued) = 0 /\ Cardinality(lost) = 0
    BY <2>1, <2>2, FS_EmptySet
  <2>4. /\ messages_consumed = 0 /\ messages_processed = 0 /\ messages_failed = 0
        /\ messages_dlq = 0 /\ dlq_failures = 0
    BY DEF DeliveryInit
  <2> QED BY <2>3, <2>4 DEF CountersOK
<1>4. \A w \in Workers : WorkerOK(w)
  BY DEF DeliveryInit, WorkerOK
<1>5. ReadingOK
  <2>1. /\ queued = {} /\ lost = {} /\ position = [main |-> 0, dlq |-> 0]
        /\ topics.main = Published /\ topics.dlq = <<>> /\ Len(Published) \in Nat
    BY DeliveryAssumption, SequenceIsAFunction DEF DeliveryInit
  <2>2. \A topic \in Topics : position[topic] <= Len(topics[topic])
    <3>1. topics["main"] = Published /\ topics["dlq"] = <<>>
      BY DEF DeliveryInit
    <3> QED BY <2>1, <3>1 DEF Topics
  <2> QED BY <2>1, <2>2, FS_EmptySet DEF ReadingOK
<1> QED BY <1>1, <1>2, <1>3, <1>4, <1>5 DEF DeliveryInit, DeliveryInv

------------------------------------------------------------------------------
(* What a letter more changes *)

Longer(ts, letter) == [ts EXCEPT !.dlq = Append(@, letter)]

LEMMA OneLetterMore ==
  ASSUME NEW ts, TopicsOK(ts), NEW topic \in Topics, NEW offset \in 1..Len(ts[topic]), NEW n \in Nat
  PROVE  LET letter == DlqRecord(topic, offset, ts[topic][offset], n)
             us == Longer(ts, letter) IN
         /\ TopicsOK(us) /\ Len(us.dlq) = Len(ts.dlq) + 1 /\ us.main = ts.main
         /\ us.dlq[Len(ts.dlq) + 1] = letter /\ \A i \in 1..Len(ts.dlq) : us.dlq[i] = ts.dlq[i]
<1> DEFINE letter == DlqRecord(topic, offset, ts[topic][offset], n)
           us == Longer(ts, letter)
           k == Len(ts.dlq)
<1>1. /\ ts = [main |-> ts.main, dlq |-> ts.dlq] /\ ts["main"] = ts.main /\ ts["dlq"] = ts.dlq
      /\ IsASequence(ts.main) /\ IsASequence(ts.dlq) /\ IsASequence(ts[topic][offset].headers)
      /\ k \in Nat /\ Len(ts.main) \in Nat
  <2>1. /\ ts = [main |-> ts.main, dlq |-> ts.dlq] /\ IsASequence(ts["main"]) /\ IsASequence(ts["dlq"])
        /\ IsASequence(ts[topic][offset].headers)
    BY DEF TopicsOK, Topics
  <2>2. ts["main"] = ts.main /\ ts["dlq"] = ts.dlq
    OBVIOUS
  <2> QED BY <2>1, <2>2, SequenceIsAFunction
<1>2. IsASequence(letter.headers)
  BY <1>1, OurHeaders DEF DlqRecord
<1> HIDE DEF letter
<1>3. us = [main |-> ts.main, dlq |-> Append(ts.dlq, letter)]
  <2>1. \A a, b, c : [[main |-> a, dlq |-> b] EXCEPT !.dlq = c] = [main |-> a, dlq |-> c]
    OBVIOUS
  <2>2. us = [ts EXCEPT !.dlq = Append(ts.dlq, letter)]
    BY DEF Longer
  <2>3. PICK a, b : a = ts.main /\ b = ts.dlq /\ ts = [main |-> a, dlq |-> b]
    BY <1>1
  <2> QED BY <2>1, <2>2, <2>3
<1>4. /\ us.main = ts.main /\ us.dlq = Append(ts.dlq, letter) /\ us["main"] = us.main /\ us["dlq"] = us.dlq
      /\ us = [main |-> us.main, dlq |-> us.dlq]
  BY <1>3
<1>5. /\ IsASequence(us.dlq) /\ Len(us.dlq) = k + 1 /\ us.dlq[k + 1] = letter
      /\ \A i \in 1..k : us.dlq[i] = ts.dlq[i]
  BY <1>1, <1>4, AppendToSequence
<1> HIDE DEF us
<1>6. \A i \in 1..(k + 1) : i \in 1..k \/ i = k + 1
  BY <1>1
<1>7. \A t \in Topics : \A o \in 1..Len(ts[t]) : o \in 1..Len(us[t]) /\ us[t][o] = ts[t][o]
  BY <1>1, <1>4, <1>5 DEF Topics
<1>8. \A t \in Topics : IsASequence(us[t]) /\ \A i \in 1..Len(us[t]) : IsASequence(us[t][i].headers)
  <2>1. /\ \A i \in 1..Len(ts.main) : IsASequence(ts.main[i].headers)
        /\ \A i \in 1..k : IsASequence(ts.dlq[i].headers)
    BY <1>1 DEF TopicsOK, Topics
  <2>2. \A i \in 1..(k + 1) : IsASequence(us.dlq[i].headers)
    BY <1>2, <1>5, <1>6, <2>1
  <2> QED BY <1>1, <1>4, <1>5, <2>1, <2>2 DEF Topics
<1>9. \A i \in 1..k : IsLetterOf(us.dlq[i], i, us)
  <2> TAKE i \in 1..k
  <2>1. IsLetterOf(ts.dlq[i], i, ts)
    BY DEF TopicsOK
  <2>2. PICK t \in Topics : \E o \in 1..Len(ts[t]), m \in Nat :
          (t = "dlq" => o < i) /\ ts.dlq[i] = DlqRecord(t, o, ts[t][o], m)
    BY <2>1 DEF IsLetterOf
  <2>3. PICK o \in 1..Len(ts[t]), m \in Nat :
          (t = "dlq" => o < i) /\ ts.dlq[i] = DlqRecord(t, o, ts[t][o], m)
    BY <2>2
  <2>4. o \in 1..Len(us[t]) /\ us[t][o] = ts[t][o] /\ us.dlq[i] = ts.dlq[i]
    BY <1>5, <1>7
  <2> QED BY <2>3, <2>4 DEF IsLetterOf
<1>10. IsLetterOf(us.dlq[k + 1], k + 1, us)
  <2>1. offset \in 1..Len(us[topic]) /\ us[topic][offset] = ts[topic][offset]
    BY <1>7
  <2>2. topic = "dlq" => offset < k + 1
    BY <1>1
  <2>3. us.dlq[k + 1] = DlqRecord(topic, offset, us[topic][offset], n)
    BY <1>5, <2>1 DEF letter
  <2> QED BY <2>1, <2>2, <2>3 DEF IsLetterOf
<1>11. TopicsOK(us)
  BY <1>4, <1>5, <1>6, <1>8, <1>9, <1>10 DEF TopicsOK
<1> QED BY <1>4, <1>5, <1>11 DEF us, letter
------------------------------------------------------------------------------
(* The steps *)

\* The topics of a step hold what they held.
Grows(ts, us) ==
  /\ us.main = ts.main /\ Len(ts.dlq) <= Len(us.dlq)
  /\ \A i \in 1..Len(ts.dlq) : us.dlq[i] = ts.dlq[i]

LEMMA TopicLengths ==
  ASSUME NEW ts, TopicsOK(ts)
  PROVE  Len(ts.dlq) \in Nat /\ Len(ts.main) \in Nat /\ ts["main"] = ts.main /\ ts["dlq"] = ts.dlq
<1>1. ts["main"] = ts.main /\ ts["dlq"] = ts.dlq
  OBVIOUS
<1>2. IsASequence(ts["main"]) /\ IsASequence(ts["dlq"])
  BY DEF TopicsOK, Topics
<1> QED BY <1>1, <1>2, SequenceIsAFunction

\* A letter that was found is found.
LEMMA LetterStays ==
  ASSUME NEW ts, NEW us, TopicsOK(ts), TopicsOK(us), Grows(ts, us), NEW s, HasLetter(s, ts.dlq)
  PROVE  HasLetter(s, us.dlq)
<1>1. Len(ts.dlq) \in Nat /\ Len(us.dlq) \in Nat
  BY TopicLengths
<1>2. \A i \in 1..Len(ts.dlq) : i \in 1..Len(us.dlq) /\ us.dlq[i] = ts.dlq[i]
  BY <1>1 DEF Grows
<1> QED BY <1>2 DEF HasLetter

\* The message of a worker is in its topic.
LEMMA MessageStays ==
  ASSUME NEW ts, NEW us, TopicsOK(ts), TopicsOK(us), Grows(ts, us), NEW topic \in Topics,
         NEW offset \in 1..Len(ts[topic])
  PROVE  offset \in 1..Len(us[topic]) /\ us[topic][offset] = ts[topic][offset]
BY TopicLengths DEF Grows, Topics

\* What the topics are when the letter of a worker's message was written, some times.
After(ts, letter, copies) ==
  CASE copies = 0 -> ts [] copies = 1 -> Longer(ts, letter) [] copies = 2 -> Longer(Longer(ts, letter), letter)

LEMMA WrittenIsAfter ==
  ASSUME TopicsOK(topics), NEW letter, NEW copies \in 0..2, Written(letter, copies)
  PROVE  topics' = After(topics, letter, copies)
<1>1. PICK a, b : topics = [main |-> a, dlq |-> b]
  BY DEF TopicsOK
<1>2. \A x : [topics EXCEPT !.dlq = x] = [main |-> a, dlq |-> x]
  BY <1>1
<1>3. topics.dlq = b
  BY <1>1
<1>4. Longer(topics, letter) = [main |-> a, dlq |-> Append(b, letter)]
  BY <1>2, <1>3 DEF Longer
<1>5. Longer(Longer(topics, letter), letter) = [main |-> a, dlq |-> Append(Append(b, letter), letter)]
  <2>1. PICK once : once = Append(b, letter)
    OBVIOUS
  <2>2. \A x, y : [[main |-> a, dlq |-> x] EXCEPT !.dlq = y] = [main |-> a, dlq |-> y]
    OBVIOUS
  <2>3. Longer([main |-> a, dlq |-> once], letter) = [main |-> a, dlq |-> Append(once, letter)]
    BY <2>2 DEF Longer
  <2> QED BY <1>4, <2>1, <2>3
<1>6. Sent(letter) = [main |-> a, dlq |-> Append(b, letter)]
  BY <1>2, <1>3 DEF Sent
<1>7. SentAgain(letter) = [main |-> a, dlq |-> Append(Append(b, letter), letter)]
  BY <1>2, <1>3 DEF SentAgain
<1>8. copies \in {0, 1, 2}
  OBVIOUS
<1> QED BY <1>4, <1>5, <1>6, <1>7, <1>8 DEF Written, After

LEMMA LettersMore ==
  ASSUME NEW ts, TopicsOK(ts), NEW topic \in Topics, NEW offset \in 1..Len(ts[topic]), NEW n \in Nat,
         NEW copies \in 0..2
  PROVE  LET letter == DlqRecord(topic, offset, ts[topic][offset], n)
             us == After(ts, letter, copies) IN
         /\ TopicsOK(us) /\ Len(us.dlq) = Len(ts.dlq) + copies /\ Grows(ts, us)
         /\ \A i \in 1..Len(us.dlq) : i > Len(ts.dlq) => us.dlq[i] = letter
<1> DEFINE letter == DlqRecord(topic, offset, ts[topic][offset], n)
           us == Longer(ts, letter)
           vs == Longer(us, letter)
<1>1. /\ TopicsOK(us) /\ Len(us.dlq) = Len(ts.dlq) + 1 /\ us.main = ts.main
      /\ us.dlq[Len(ts.dlq) + 1] = letter /\ \A i \in 1..Len(ts.dlq) : us.dlq[i] = ts.dlq[i]
  BY OneLetterMore
<1>2. Len(ts.dlq) \in Nat
  BY TopicLengths
<1>3. Grows(ts, us)
  BY <1>1, <1>2 DEF Grows
<1>4. offset \in 1..Len(us[topic]) /\ us[topic][offset] = ts[topic][offset]
  <2> HIDE DEF us
  <2> QED BY <1>1, <1>3, MessageStays
<1>5. letter = DlqRecord(topic, offset, us[topic][offset], n)
  BY <1>4
<1>6. /\ TopicsOK(vs) /\ Len(vs.dlq) = Len(us.dlq) + 1 /\ vs.main = us.main
      /\ vs.dlq[Len(us.dlq) + 1] = letter /\ \A i \in 1..Len(us.dlq) : vs.dlq[i] = us.dlq[i]
  <2> HIDE DEF us
  <2>1. PICK l : l = letter
    OBVIOUS
  <2>2. /\ TopicsOK(Longer(us, l)) /\ Len(Longer(us, l).dlq) = Len(us.dlq) + 1 /\ Longer(us, l).main = us.main
        /\ Longer(us, l).dlq[Len(us.dlq) + 1] = l /\ \A i \in 1..Len(us.dlq) : Longer(us, l).dlq[i] = us.dlq[i]
    <3>1. l = DlqRecord(topic, offset, us[topic][offset], n)
      BY <1>5, <2>1
    <3> QED BY <1>1, <1>4, <3>1, OneLetterMore
  <2> QED BY <2>1, <2>2
<1>7. /\ After(ts, letter, 0) = ts /\ After(ts, letter, 1) = us /\ After(ts, letter, 2) = vs
  BY DEF After
<1> HIDE DEF letter, us, vs
<1>8. CASE copies = 0
  <2>1. TopicsOK(ts) /\ Grows(ts, ts) /\ \A i \in 1..Len(ts.dlq) : ~(i > Len(ts.dlq))
    BY <1>2 DEF Grows
  <2> QED BY <1>2, <1>7, <1>8, <2>1 DEF letter
<1>9. CASE copies = 1
  <2>1. \A i \in 1..(Len(ts.dlq) + 1) : i > Len(ts.dlq) => i = Len(ts.dlq) + 1
    BY <1>2
  <2> QED BY <1>1, <1>3, <1>7, <1>9, <2>1 DEF letter
<1>10. CASE copies = 2
  <2>1. PICK k \in Nat : k = Len(ts.dlq)
    BY <1>2
  <2>2. Len(us.dlq) = k + 1 /\ Len(vs.dlq) = k + 2
    BY <1>1, <1>6, <2>1
  <2>3. \A i \in 1..(k + 2) : i > k => i = k + 1 \/ i = k + 2
    OBVIOUS
  <2>4. vs.dlq[k + 2] = letter /\ us.dlq[k + 1] = letter /\ \A i \in 1..(k + 1) : vs.dlq[i] = us.dlq[i]
    <3>1. Len(us.dlq) + 1 = k + 2
      BY <2>2
    <3> QED BY <1>1, <1>6, <2>1, <2>2, <3>1
  <2>5. \A i \in 1..Len(vs.dlq) : i > Len(ts.dlq) => vs.dlq[i] = letter
    BY <2>1, <2>2, <2>3, <2>4
  <2>6. Grows(ts, vs)
    BY <1>1, <1>6, <2>1, <2>2 DEF Grows
  <2>7. Len(vs.dlq) = Len(ts.dlq) + 2
    BY <2>1, <2>2
  <2> QED BY <1>6, <1>7, <1>10, <2>5, <2>6, <2>7 DEF letter
<1> QED BY <1>8, <1>9, <1>10

\* The letter that a worker sends.
LEMMA LetterOfMessage ==
  ASSUME DeliveryInv, NEW w \in Workers, pc[w] = "dead_letter",
         NEW copies \in 0..2, Written(Dead(w), copies)
  PROVE  /\ TopicsOK(topics') /\ Grows(topics, topics') /\ Len(topics'.dlq) = Len(topics.dlq) + copies
         /\ \A i \in 1..Len(topics'.dlq) : i > Len(topics.dlq) => topics'.dlq[i] = Dead(w)
         /\ HasOurHeaders(Dead(w).headers, message[w][1], message[w][2])
         /\ copies > 0 => \A s : s.topic = message[w][1] /\ s.offset = message[w][2] => HasLetter(s, topics'.dlq)
<1>0. PICK topic, offset, n, original :
       /\ topic = message[w][1] /\ offset = message[w][2] /\ n = attempt[w]
       /\ original = topics[topic][offset]
  OBVIOUS
<1> DEFINE headers == CreateDlqHeaders(topic, offset, original, n)
<1>1. topic \in Topics /\ offset \in 1..Len(topics[topic]) /\ n \in Nat /\ TopicsOK(topics)
  BY <1>0 DEF DeliveryInv, DeliveryTypes, WorkerOK
<1>2. Dead(w) = DlqRecord(topic, offset, topics[topic][offset], n)
  BY <1>0 DEF Dead, Original
<1>3. PICK us : us = topics' /\ us = After(topics, Dead(w), copies)
  BY <1>1, WrittenIsAfter
<1>4. /\ TopicsOK(us) /\ Len(us.dlq) = Len(topics.dlq) + copies /\ Grows(topics, us)
      /\ \A i \in 1..Len(us.dlq) : i > Len(topics.dlq) => us.dlq[i] = Dead(w)
  <2>1. PICK letter : letter = Dead(w) /\ letter = DlqRecord(topic, offset, topics[topic][offset], n)
    BY <1>2
  <2>2. us = After(topics, letter, copies)
    BY <1>3, <2>1
  <2>3. LET sent == DlqRecord(topic, offset, topics[topic][offset], n)
            vs == After(topics, sent, copies) IN
        /\ TopicsOK(vs) /\ Len(vs.dlq) = Len(topics.dlq) + copies /\ Grows(topics, vs)
        /\ \A i \in 1..Len(vs.dlq) : i > Len(topics.dlq) => vs.dlq[i] = sent
    BY <1>1, LettersMore
  <2>4. /\ TopicsOK(us) /\ Len(us.dlq) = Len(topics.dlq) + copies /\ Grows(topics, us)
        /\ \A i \in 1..Len(us.dlq) : i > Len(topics.dlq) => us.dlq[i] = letter
    BY <2>1, <2>2, <2>3
  <2> QED BY <2>1, <2>4
<1>5. IsASequence(original.headers)
  BY <1>0, <1>1 DEF TopicsOK
<1>6. /\ HasOurHeaders(headers, topic, offset)
      /\ 1 \in DOMAIN headers /\ headers[1] = Header(<<"dlq", "original.topic">>, topic)
      /\ 2 \in DOMAIN headers /\ headers[2] = Header(<<"dlq", "original.offset">>, offset)
  <2>1. HasOurHeaders(headers, topic, offset)
    BY <1>5, OurHeaders
  <2> HIDE DEF headers
  <2>2. 1 \in Named(headers, <<"dlq", "original.topic">>) /\ 2 \in Named(headers, <<"dlq", "original.offset">>)
    BY <2>1 DEF HasOurHeaders
  <2> QED BY <2>1, <2>2 DEF Named, HasOurHeaders
<1>7. Dead(w).headers = headers
  BY <1>0, <1>2 DEF DlqRecord
<1> HIDE DEF headers
<1>8. /\ Header(<<"dlq", "original.topic">>, topic) \in Range(Dead(w).headers)
      /\ Header(<<"dlq", "original.offset">>, offset) \in Range(Dead(w).headers)
  BY <1>6, <1>7 DEF Range
<1>9. ASSUME copies > 0
      PROVE  \A s : s.topic = message[w][1] /\ s.offset = message[w][2] => HasLetter(s, us.dlq)
  <2>1. Len(topics.dlq) \in Nat
    BY <1>1, TopicLengths
  <2>2. Len(us.dlq) \in 1..Len(us.dlq) /\ Len(us.dlq) > Len(topics.dlq)
    BY <1>4, <1>9, <2>1
  <2>3. us.dlq[Len(us.dlq)] = Dead(w)
    BY <1>4, <2>2
  <2> QED BY <1>0, <1>8, <2>2, <2>3 DEF HasLetter
<1> QED BY <1>0, <1>3, <1>4, <1>6, <1>7, <1>9

LEMMA TopicsStep ==
  ASSUME DeliveryInv, NEW w \in Workers, Work(w) \/ \E m \in queued : Take(w, m)
  PROVE  TopicsOK(topics') /\ Grows(topics, topics') /\ UNCHANGED config
<1>1. TopicsOK(topics) /\ Grows(topics, topics)
  BY TopicLengths DEF DeliveryInv, Grows
<1>2. CASE \E copies \in 0..2, reported \in BOOLEAN : SendMessage(w, copies, reported)
  <2>1. PICK copies \in 0..2, reported \in BOOLEAN : SendMessage(w, copies, reported)
    BY <1>2
  <2>2. pc[w] = "dead_letter" /\ UNCHANGED config /\ Written(Dead(w), copies)
    BY <2>1 DEF SendMessage, At
  <2> QED BY <2>2, LetterOfMessage
<1>3. CASE ~\E copies \in 0..2, reported \in BOOLEAN : SendMessage(w, copies, reported)
  <2>1. topics' = topics /\ UNCHANGED config
    BY <1>3 DEF Work, Take, Succeed, Wake, OnSuccess, OnFailure, Retry, RetryPanics, Fail, Try
  <2> QED BY <1>1, <2>1
<1> QED BY <1>2, <1>3

\* What is read and on its way changes only when a worker takes it.
LEMMA ReadingStep ==
  ASSUME DeliveryInv, NEW w \in Workers, Work(w) \/ \E m \in queued : Take(w, m)
  PROVE  ReadingOK'
<1>1. /\ TopicsOK(topics) /\ TopicsOK(topics') /\ Grows(topics, topics') /\ ReadingOK
      /\ position \in [Topics -> Nat]
  BY TopicsStep DEF DeliveryInv, DeliveryTypes
<1>2. position' = position /\ lost' = lost /\ queued' \subseteq queued
  BY DEF Work, Take, Succeed, Wake, OnSuccess, OnFailure, Retry, RetryPanics, Fail, Try, SendMessage, reading
<1>3. \A topic \in Topics : position'[topic] <= Len(topics'[topic])
  <2> TAKE topic \in Topics
  <2>1. /\ Len(topics[topic]) \in Nat /\ Len(topics'[topic]) \in Nat
        /\ Len(topics[topic]) <= Len(topics'[topic])
    BY <1>1, TopicLengths DEF Grows, Topics
  <2> QED BY <1>1, <1>2, <2>1 DEF ReadingOK
<1>4. IsFiniteSet(queued')
  BY <1>1, <1>2, FS_Subset DEF ReadingOK
<1> QED BY <1>1, <1>2, <1>3, <1>4 DEF ReadingOK

\* What a step does to the worker that takes it.
LEMMA TypesStep ==
  ASSUME DeliveryInv, NEW w \in Workers, Work(w) \/ \E m \in queued : Take(w, m)
  PROVE  /\ DeliveryTypes' /\ pc' = [pc EXCEPT ![w] = pc'[w]] /\ pc'[w] \in Places
         /\ \A v \in Workers \ {w} : /\ pc'[v] = pc[v] /\ message'[v] = message[v]
                                     /\ attempt'[v] = attempt[v] /\ tries'[v] = tries[v]
<1> DEFINE Others == \A v \in Workers \ {w} : /\ message'[v] = message[v]
                                              /\ attempt'[v] = attempt[v] /\ tries'[v] = tries[v]
           Moved == \E x \in Places : pc' = [pc EXCEPT ![w] = x]
           Rest == /\ message' \in [Workers -> Topics \X Nat] /\ attempt' \in [Workers -> Nat]
                   /\ tries' \in [Workers -> Nat] /\ position' \in [Topics -> Nat]
                   /\ messages_consumed' \in Nat /\ messages_processed' \in Nat /\ messages_failed' \in Nat
                   /\ messages_dlq' \in Nat /\ dlq_failures' \in Nat
<1>1. /\ pc \in [Workers -> Places] /\ message \in [Workers -> Topics \X Nat]
      /\ attempt \in [Workers -> Nat] /\ tries \in [Workers -> Nat] /\ position \in [Topics -> Nat]
      /\ messages_consumed \in Nat /\ messages_processed \in Nat /\ messages_failed \in Nat
      /\ messages_dlq \in Nat /\ dlq_failures \in Nat
  BY DEF DeliveryInv, DeliveryTypes
<1>2. ASSUME \E m \in queued : Take(w, m) PROVE Moved /\ Rest /\ Others
  <2>1. PICK m \in queued : Take(w, m)
    BY <1>2
  <2>2. /\ pc' = [pc EXCEPT ![w] = "process"] /\ position' = position
        /\ message' = [message EXCEPT ![w] = m]
        /\ attempt' = [attempt EXCEPT ![w] = 0] /\ tries' = [tries EXCEPT ![w] = 0]
        /\ UNCHANGED <<messages_consumed, messages_processed, messages_failed, messages_dlq, dlq_failures>>
    BY <2>1 DEF Take, At, Set, counters
  <2>3. m \in Topics \X Nat
    BY DEF DeliveryInv, ReadingOK
  <2>4. Rest
    BY <1>1, <2>2, <2>3
  <2>5. Others /\ Moved
    BY <1>1, <2>2 DEF Places
  <2> QED BY <2>4, <2>5
<1>3. ASSUME \/ Succeed(w)
             \/ \E error \in Errors : Retry(w, error) \/ RetryPanics(w, error) \/ Fail(w, error)
      PROVE  Moved /\ Rest /\ Others
  <2>1. /\ Moved /\ (attempt' = attempt \/ attempt' = [attempt EXCEPT ![w] = @ + 1])
        /\ tries' = [tries EXCEPT ![w] = @ + 1] /\ message' = message /\ position' = position
        /\ UNCHANGED counters
    BY <1>1, <1>3 DEF Succeed, Retry, RetryPanics, Fail, Try, Set, Places, reading
  <2>2. Rest /\ Others
    BY <1>1, <2>1 DEF counters
  <2> QED BY <2>1, <2>2
<1>4. ASSUME \/ Wake(w) \/ OnSuccess(w) \/ OnFailure(w)
             \/ \E copies \in 0..2, reported \in BOOLEAN : SendMessage(w, copies, reported)
      PROVE  Moved /\ Rest /\ Others
  <2>1. /\ Moved /\ UNCHANGED <<attempt, tries, message, position, messages_consumed>>
        /\ messages_processed' \in {messages_processed, messages_processed + 1}
        /\ messages_failed' \in {messages_failed, messages_failed + 1}
        /\ messages_dlq' \in {messages_dlq, messages_dlq + 1}
        /\ dlq_failures' \in {dlq_failures, dlq_failures + 1}
    <3>1. CASE Wake(w)
      BY <3>1 DEF Wake, At, Set, Places, counters, reading
    <3>2. CASE OnSuccess(w) \/ OnFailure(w)
      BY <3>2 DEF OnSuccess, OnFailure, At, Set, Places, reading
    <3>3. CASE \E copies \in 0..2, reported \in BOOLEAN : SendMessage(w, copies, reported)
      BY <3>3 DEF SendMessage, At, Set, Places, reading
    <3> QED BY <1>4, <3>1, <3>2, <3>3
  <2>2. Rest /\ Others
    BY <1>1, <2>1
  <2> QED BY <2>1, <2>2
<1>5. Moved /\ Rest /\ Others
  <2> HIDE DEF Moved, Rest, Others
  <2> QED BY <1>2, <1>3, <1>4 DEF Work
<1>6. PICK x \in Places : pc' = [pc EXCEPT ![w] = x]
  BY <1>5
<1>7. pc' \in [Workers -> Places] /\ pc'[w] = x /\ \A v \in Workers \ {w} : pc'[v] = pc[v]
  BY <1>1, <1>6
<1>8. UNCHANGED config
  BY TopicsStep
<1>9. DeliveryTypes'
  BY <1>5, <1>7, <1>8 DEF DeliveryTypes, DeliveryInv, config
<1> QED BY <1>5, <1>6, <1>7, <1>9
LEMMA WorkersStep ==
  ASSUME DeliveryInv, NEW w \in Workers, Work(w) \/ \E m \in queued : Take(w, m)
  PROVE  \A v \in Workers : WorkerOK(v)'
<1>1. /\ TopicsOK(topics) /\ TopicsOK(topics') /\ Grows(topics, topics')
      /\ policy' = policy /\ wrapped' = wrapped /\ policy.max_retries \in Nat
  BY TopicsStep, PolicyNumbers DEF config, DeliveryInv
<1>2. /\ pc \in [Workers -> Places] /\ message \in [Workers -> Topics \X Nat]
      /\ attempt \in [Workers -> Nat] /\ tries \in [Workers -> Nat] /\ position \in [Topics -> Nat]
  BY DEF DeliveryInv, DeliveryTypes
<1>3. /\ pc' = [pc EXCEPT ![w] = pc'[w]] /\ pc' \in [Workers -> Places]
      /\ message' \in [Workers -> Topics \X Nat] /\ tries' \in [Workers -> Nat] /\ attempt' \in [Workers -> Nat]
      /\ \A v \in Workers \ {w} : /\ pc'[v] = pc[v] /\ message'[v] = message[v]
                                  /\ attempt'[v] = attempt[v] /\ tries'[v] = tries[v]
  BY TypesStep DEF DeliveryTypes
<1>4. \A v \in Workers : WorkerOK(v)
  BY DEF DeliveryInv
<1>5. \A v \in Workers : message[v][2] \in 1..Len(topics[message[v][1]]) =>
                         message[v][2] \in 1..Len(topics'[message[v][1]])
  <2> TAKE v \in Workers
  <2>1. message[v][1] \in Topics
    BY <1>2
  <2> QED BY <1>1, <2>1, MessageStays
<1>6. ASSUME NEW v \in Workers \ {w} PROVE WorkerOK(v)'
  BY <1>1, <1>3, <1>4, <1>5, <1>6 DEF WorkerOK
<1>7. ASSUME \E m \in queued : Take(w, m) PROVE WorkerOK(w)'
  <2>1. PICK m \in queued : Take(w, m)
    BY <1>7
  <2>2. /\ pc'[w] = "process" /\ message'[w] = m /\ topics' = topics
        /\ attempt'[w] = 0 /\ tries'[w] = 0
    BY <1>2, <2>1 DEF Take, At, Set
  <2>3. m[1] \in Topics /\ m[2] \in Nat /\ m[2] >= 1 /\ m[2] <= position[m[1]] /\ position[m[1]] <= Len(topics[m[1]])
    BY DEF DeliveryInv, ReadingOK
  <2>4. position[m[1]] \in Nat /\ Len(topics[m[1]]) \in Nat
    BY <1>1, <1>2, <2>3, TopicLengths DEF Topics
  <2>5. m[2] \in 1..Len(topics[m[1]])
    BY <2>3, <2>4
  <2> QED BY <1>1, <2>2, <2>5 DEF WorkerOK
<1>8. ASSUME Work(w) PROVE WorkerOK(w)'
  <2>1. message' = message /\ pc[w] # "idle" /\ attempt'[w] \in Nat
    BY <1>3, <1>8 DEF Work, Succeed, Wake, OnSuccess, OnFailure, Retry, RetryPanics, Fail, Try, SendMessage, At
  <2>2. message'[w][2] \in 1..Len(topics'[message'[w][1]])
    BY <1>4, <1>5, <2>1 DEF WorkerOK
  <2>3. ASSUME Succeed(w) \/ \E error \in Errors : Retry(w, error) \/ RetryPanics(w, error) \/ Fail(w, error)
        PROVE  WorkerOK(w)'
    <3>1. /\ pc[w] = "process" /\ tries'[w] = tries[w] + 1 /\ tries[w] = attempt[w]
          /\ attempt[w] <= policy.max_retries
      BY <1>2, <1>4, <2>3 DEF Succeed, Retry, RetryPanics, Fail, Try, WorkerOK
    <3>2. \/ pc'[w] \in {"succeeded", "dead"} /\ attempt'[w] = attempt[w]
          \/ pc'[w] = "failed" /\ attempt'[w] = attempt[w] /\ (wrapped => ~(attempt[w] < policy.max_retries))
          \/ pc'[w] = "sleep" /\ attempt'[w] = attempt[w] + 1 /\ attempt[w] < policy.max_retries
      BY <1>2, <2>3 DEF Succeed, Retry, RetryPanics, Fail, Try, Set, ShouldRetry, IsRetryable
    <3> QED BY <1>1, <1>2, <2>1, <2>2, <3>1, <3>2, SMTT(60) DEF WorkerOK
  <2>4. ASSUME \/ Wake(w) \/ OnSuccess(w) \/ OnFailure(w)
               \/ \E copies \in 0..2, reported \in BOOLEAN : SendMessage(w, copies, reported)
        PROVE  WorkerOK(w)'
    <3>1. /\ attempt' = attempt /\ tries' = tries
          /\ \/ pc[w] = "sleep" /\ pc'[w] = "process"
             \/ pc[w] = "failed" /\ pc'[w] = "dead_letter"
             \/ pc'[w] = "idle"
      BY <1>2, <2>4 DEF Wake, OnSuccess, OnFailure, SendMessage, At, Set
    <3> QED BY <1>1, <1>2, <1>4, <2>1, <2>2, <3>1 DEF WorkerOK
  <2> QED BY <1>8, <2>3, <2>4 DEF Work
<1> QED BY <1>6, <1>7, <1>8

\* Every step of a worker moves it, and the counters with it.
LEMMA CountersStep ==
  ASSUME DeliveryInv, NEW w \in Workers, Work(w) \/ \E m \in queued : Take(w, m)
  PROVE  CountersOK'
<1> DEFINE m == Cardinality(Those(pc, AtWork))
           n == Cardinality(Those(pc, Sending))
           o == Cardinality(Those(pc', AtWork))
           p == Cardinality(Those(pc', Sending))
           k == Cardinality(queued)
           l == Cardinality(queued')
           gone == Cardinality(lost)
<1>1. /\ messages_consumed \in Nat /\ messages_processed \in Nat /\ messages_failed \in Nat
      /\ messages_dlq \in Nat /\ dlq_failures \in Nat /\ pc \in [Workers -> Places]
      /\ CountersOK /\ IsFiniteSet(queued) /\ IsFiniteSet(lost)
  BY DEF DeliveryInv, DeliveryTypes, ReadingOK
<1>2. pc' = [pc EXCEPT ![w] = pc'[w]] /\ pc'[w] \in Places
  BY TypesStep
<1>3. m \in Nat /\ n \in Nat /\ k \in Nat /\ gone \in Nat
  BY <1>1, ThoseAreFinite, FS_CardinalityType
<1>4. /\ pc[w] \in AtWork /\ pc'[w] \in AtWork => o = m
      /\ pc[w] \notin AtWork /\ pc'[w] \notin AtWork => o = m
      /\ pc[w] \notin AtWork /\ pc'[w] \in AtWork => o = m + 1
      /\ pc[w] \in AtWork /\ pc'[w] \notin AtWork => m = o + 1
  BY <1>1, <1>2, OneMoves
<1>5. /\ pc[w] \in Sending /\ pc'[w] \in Sending => p = n
      /\ pc[w] \notin Sending /\ pc'[w] \notin Sending => p = n
      /\ pc[w] \notin Sending /\ pc'[w] \in Sending => p = n + 1
      /\ pc[w] \in Sending /\ pc'[w] \notin Sending => n = p + 1
  BY <1>1, <1>2, OneMoves
<1>6. o \in Nat /\ p \in Nat
  BY ThoseAreFinite
<1>7. /\ messages_consumed = messages_processed + messages_failed + m + k + gone
      /\ messages_dlq + dlq_failures + n <= messages_failed
  BY <1>1 DEF CountersOK
<1> DEFINE Goal == /\ messages_consumed' = messages_processed' + messages_failed' + o + l + Cardinality(lost')
                   /\ messages_dlq' + dlq_failures' + p <= messages_failed'
<1> HIDE DEF m, n, o, p, k, gone
<1>8. ASSUME NEW x \in queued, Take(w, x) PROVE Goal
  <2>1. /\ pc[w] = "idle" /\ pc'[w] = "process" /\ queued' = queued \ {x} /\ lost' = lost
        /\ UNCHANGED <<messages_consumed, messages_processed, messages_failed, messages_dlq, dlq_failures>>
    BY <1>1, <1>8 DEF Take, At, Set, counters
  <2>2. o = m + 1 /\ p = n
    BY <1>4, <1>5, <2>1 DEF AtWork, Sending, Places
  <2>3. l = k - 1
    BY <1>1, <2>1, FS_RemoveElement DEF k
  <2>4. Cardinality(lost') = gone
    BY <2>1 DEF gone
  <2> HIDE DEF l
  <2> QED BY <1>1, <1>3, <1>7, <2>1, <2>2, <2>3, <2>4
<1>9. ASSUME Work(w) PROVE l = k /\ Cardinality(lost') = gone
  BY <1>9 DEF Work, Succeed, Wake, OnSuccess, OnFailure, Retry, RetryPanics, Fail, Try, SendMessage, reading,
              k, gone
<1>10. ASSUME \/ Succeed(w) \/ Wake(w)
              \/ \E error \in Errors : Retry(w, error) \/ RetryPanics(w, error) \/ Fail(w, error)
       PROVE  Goal
  <2>1. /\ pc[w] \in {"process", "sleep"}
        /\ pc'[w] \in {"process", "succeeded", "sleep", "dead", "failed"}
        /\ UNCHANGED <<messages_consumed, messages_processed, messages_failed, messages_dlq, dlq_failures>>
    BY <1>1, <1>10 DEF Succeed, Wake, Retry, RetryPanics, Fail, Try, At, Set, counters
  <2>2. o = m /\ p = n
    BY <1>4, <1>5, <2>1 DEF AtWork, Sending, Places
  <2>3. l = k /\ Cardinality(lost') = gone
    BY <1>9, <1>10 DEF Work
  <2> HIDE DEF l
  <2> QED BY <1>1, <1>3, <1>7, <2>1, <2>2, <2>3
<1>11. ASSUME OnSuccess(w) PROVE Goal
  <2>1. /\ pc[w] = "succeeded" /\ pc'[w] = "idle" /\ messages_processed' = messages_processed + 1
        /\ UNCHANGED <<messages_consumed, messages_failed, messages_dlq, dlq_failures>>
    BY <1>1, <1>11 DEF OnSuccess, At, Set
  <2>2. m = o + 1 /\ p = n
    BY <1>4, <1>5, <2>1 DEF AtWork, Sending, Places
  <2>3. l = k /\ Cardinality(lost') = gone
    BY <1>9, <1>11 DEF Work
  <2> HIDE DEF l
  <2> QED BY <1>1, <1>3, <1>6, <1>7, <2>1, <2>2, <2>3
<1>12. ASSUME OnFailure(w) PROVE Goal
  <2>1. /\ pc[w] = "failed" /\ pc'[w] \in {"idle", "dead_letter"} /\ messages_failed' = messages_failed + 1
        /\ UNCHANGED <<messages_consumed, messages_processed, messages_dlq, dlq_failures>>
    BY <1>1, <1>12 DEF OnFailure, At, Set
  <2>2. m = o + 1 /\ p \in {n, n + 1}
    BY <1>4, <1>5, <2>1 DEF AtWork, Sending, Places
  <2>3. l = k /\ Cardinality(lost') = gone
    BY <1>9, <1>12 DEF Work
  <2> HIDE DEF l
  <2> QED BY <1>1, <1>3, <1>6, <1>7, <2>1, <2>2, <2>3
<1>13. ASSUME NEW copies \in 0..2, NEW reported \in BOOLEAN, SendMessage(w, copies, reported)
       PROVE  Goal
  <2>1. /\ pc[w] = "dead_letter" /\ pc'[w] = "idle"
        /\ IF reported THEN messages_dlq' = messages_dlq + 1 /\ dlq_failures' = dlq_failures
           ELSE dlq_failures' = dlq_failures + 1 /\ messages_dlq' = messages_dlq
        /\ UNCHANGED <<messages_consumed, messages_processed, messages_failed>>
    BY <1>1, <1>13 DEF SendMessage, At, Set
  <2>2. m = o /\ n = p + 1
    BY <1>4, <1>5, <2>1 DEF AtWork, Sending, Places
  <2>3. l = k /\ Cardinality(lost') = gone
    BY <1>9, <1>13 DEF Work
  <2> HIDE DEF l
  <2> QED BY <1>1, <1>3, <1>6, <1>7, <2>1, <2>2, <2>3
<1>14. Goal
  <2> HIDE DEF Goal
  <2> QED BY <1>8, <1>10, <1>11, <1>12, <1>13 DEF Work
<1> QED BY <1>14 DEF CountersOK, o, p

\* What is settled in a step is in order, and what was settled stays so.
LEMMA SettledStep ==
  ASSUME DeliveryInv, NEW w \in Workers, Work(w) \/ \E m \in queued : Take(w, m)
  PROVE  \A s \in settled' : SettledOK(s)'
<1>1. /\ TopicsOK(topics) /\ TopicsOK(topics') /\ Grows(topics, topics') /\ policy' = policy
      /\ wrapped' = wrapped /\ dlq_producer' = dlq_producer /\ dlq_after_retries' = dlq_after_retries
      /\ policy.max_retries \in Nat /\ dlq_after_retries \in Nat /\ dlq_after_retries <= policy.max_retries
  BY TopicsStep, PolicyNumbers DEF config, DeliveryInv, DeliveryTypes
<1>2. \A s \in settled : SettledOK(s)'
  <2> TAKE s \in settled
  <2>1. SettledOK(s)
    BY DEF DeliveryInv
  <2>2. HasLetter(s, topics.dlq) => HasLetter(s, topics'.dlq)
    BY <1>1, LetterStays
  <2> QED BY <1>1, <2>1, <2>2 DEF SettledOK
<1> DEFINE new(how) == [topic |-> message[w][1], offset |-> message[w][2], how |-> how,
                        attempts |-> attempt[w], tries |-> tries[w]]
<1>3. /\ pc \in [Workers -> Places] /\ attempt \in [Workers -> Nat] /\ tries \in [Workers -> Nat]
      /\ WorkerOK(w)
  BY DEF DeliveryInv, DeliveryTypes
<1>4. ASSUME OnSuccess(w) PROVE \A s \in settled' : SettledOK(s)'
  <2>1. settled' = settled \cup {new("processed")} /\ pc[w] = "succeeded"
    BY <1>4 DEF OnSuccess, Settle, At
  <2>2. PICK x : x = new("processed")
    OBVIOUS
  <2>3. SettledOK(x)'
    BY <1>1, <1>3, <2>1, <2>2 DEF SettledOK, WorkerOK
  <2> HIDE DEF new
  <2> QED BY <1>2, <2>1, <2>2, <2>3
<1>5. ASSUME OnFailure(w) PROVE \A s \in settled' : SettledOK(s)'
  <2>1. CASE ToDlq(w)
    <3>1. settled' = settled
      BY <1>5, <2>1 DEF OnFailure
    <3> QED BY <1>2, <3>1
  <2>2. CASE ~ToDlq(w)
    <3>1. settled' = settled \cup {new("dropped")} /\ pc[w] = "failed"
      BY <1>5, <2>2 DEF OnFailure, Settle, At
    <3>2. ~dlq_producer \/ attempt[w] < dlq_after_retries
      BY <1>1, <1>3, <2>2 DEF ToDlq
    <3>3. dlq_producer => ~wrapped
      BY <1>1, <1>3, <3>1, <3>2 DEF WorkerOK
    <3>4. PICK x : x = new("dropped")
      OBVIOUS
    <3>5. SettledOK(x)'
      BY <1>1, <1>3, <3>1, <3>2, <3>3, <3>4 DEF SettledOK, WorkerOK
    <3> HIDE DEF new
    <3> QED BY <1>2, <3>1, <3>4, <3>5
  <2> QED BY <2>1, <2>2
<1>6. ASSUME NEW copies \in 0..2, NEW reported \in BOOLEAN, SendMessage(w, copies, reported)
      PROVE  \A s \in settled' : SettledOK(s)'
  <2>1. /\ pc[w] = "dead_letter" /\ (reported => copies > 0) /\ Written(Dead(w), copies)
        /\ settled' = settled \cup {new(IF reported THEN "dead" ELSE "dead?")}
    BY <1>6 DEF SendMessage, At, Settle
  <2>2. PICK x : x = new(IF reported THEN "dead" ELSE "dead?")
    OBVIOUS
  <2>3. /\ x.topic = message[w][1] /\ x.offset = message[w][2] /\ x.how = IF reported THEN "dead" ELSE "dead?"
        /\ x.tries = tries[w] /\ x.attempts = attempt[w]
    BY <2>2
  <2>4. reported => HasLetter(x, topics'.dlq)
    BY <2>1, <2>3, LetterOfMessage
  <2>5. SettledOK(x)'
    BY <1>1, <1>3, <2>1, <2>3, <2>4 DEF SettledOK, WorkerOK
  <2> HIDE DEF new
  <2> QED BY <1>2, <2>1, <2>2, <2>5
<1>7. CASE \/ OnSuccess(w) \/ OnFailure(w)
           \/ \E copies \in 0..2, reported \in BOOLEAN : SendMessage(w, copies, reported)
  BY <1>4, <1>5, <1>6, <1>7
<1>8. CASE \/ Succeed(w) \/ Wake(w) \/ \E m \in queued : Take(w, m)
           \/ \E error \in Errors : Retry(w, error) \/ RetryPanics(w, error) \/ Fail(w, error)
  <2>1. settled' = settled
    BY <1>8 DEF Succeed, Wake, Take, Retry, RetryPanics, Fail, Try
  <2> QED BY <1>2, <2>1
<1> QED BY <1>7, <1>8 DEF Work

\* Counting a message, and losing one.
Reads ==
  \/ \E topic \in Topics, paused \in BOOLEAN : Count(topic, paused)
  \/ \E m \in queued : Lose(m)

LEMMA ReadsStep == ASSUME DeliveryInv, Reads PROVE DeliveryInv'
<1>1. /\ UNCHANGED <<config, topics, work, messages_processed, messages_failed, messages_dlq, dlq_failures,
                      wrapper, settled>>
      /\ UNCHANGED <<pc, message, attempt, tries, policy, wrapped, dlq_producer, dlq_after_retries>>
  BY DEF Reads, Count, Lose, counters, work, config
<1>2. /\ ReadingOK /\ position \in [Topics -> Nat] /\ TopicsOK(topics) /\ messages_consumed \in Nat
      /\ IsFiniteSet(queued) /\ IsFiniteSet(lost)
  BY DEF DeliveryInv, DeliveryTypes, ReadingOK
<1> DEFINE m == Cardinality(Those(pc, AtWork))
           k == Cardinality(queued)
           l == Cardinality(lost)
<1>3. m \in Nat /\ k \in Nat /\ l \in Nat /\ messages_processed \in Nat /\ messages_failed \in Nat
  BY <1>2, ThoseAreFinite, FS_CardinalityType DEF DeliveryInv, DeliveryTypes
<1>4. messages_consumed = messages_processed + messages_failed + m + k + l
  BY DEF DeliveryInv, CountersOK
<1> DEFINE Goal == /\ ReadingOK' /\ position' \in [Topics -> Nat] /\ messages_consumed' \in Nat
                   /\ messages_consumed' = messages_processed + messages_failed + m
                                             + Cardinality(queued') + Cardinality(lost')
<1> HIDE DEF m
<1>5. ASSUME NEW topic \in Topics, NEW paused \in BOOLEAN, Count(topic, paused) PROVE Goal
  <2> DEFINE next == <<topic, position[topic] + 1>>
  <2>1. /\ position[topic] < Len(topics[topic]) /\ position' = [position EXCEPT ![topic] = @ + 1]
        /\ messages_consumed' = messages_consumed + 1 /\ topics' = topics
        /\ IF paused THEN lost' = lost \cup {next} /\ queued' = queued
           ELSE queued' = queued \cup {next} /\ lost' = lost
    BY <1>5 DEF Count
  <2>2. next \in Topics \X Nat /\ next[1] = topic /\ next[2] = position[topic] + 1
    BY <1>2
  <2> HIDE DEF next
  <2>3. /\ position' \in [Topics -> Nat] /\ position'[topic] = position[topic] + 1
        /\ \A t \in Topics : position'[t] >= position[t] /\ (t # topic => position'[t] = position[t])
    BY <1>2, <2>1
  <2>4. next \notin queued /\ next \notin lost
    BY <1>2, <2>2 DEF ReadingOK
  <2>5. \A t \in Topics : position'[t] <= Len(topics'[t])
    <3>1. Len(topics[topic]) \in Nat
      BY <1>2, TopicLengths DEF Topics
    <3> QED BY <1>2, <2>1, <2>3, <3>1 DEF ReadingOK
  <2>6. \A x \in queued' \cup lost' : x \in Topics \X Nat /\ x[2] >= 1 /\ x[2] <= position'[x[1]]
    <3> TAKE x \in queued' \cup lost'
    <3>1. CASE x = next
      BY <1>2, <2>2, <2>3, <3>1
    <3>2. CASE x # next
      <4>1. x \in queued \cup lost
        BY <2>1, <3>2
      <4>2. x \in Topics \X Nat /\ x[2] >= 1 /\ x[2] <= position[x[1]]
        BY <4>1 DEF DeliveryInv, ReadingOK
      <4> QED BY <1>2, <2>3, <4>2
    <3> QED BY <3>1, <3>2
  <2>7. queued' \cap lost' = {}
    BY <1>2, <2>1, <2>4 DEF ReadingOK
  <2>8. /\ IsFiniteSet(queued') /\ IsFiniteSet(lost')
        /\ Cardinality(queued') + Cardinality(lost') = k + l + 1
    <3>1. IsFiniteSet(queued \cup {next}) /\ Cardinality(queued \cup {next}) = k + 1
      BY <1>2, <2>4, FS_AddElement
    <3>2. IsFiniteSet(lost \cup {next}) /\ Cardinality(lost \cup {next}) = l + 1
      BY <1>2, <2>4, FS_AddElement
    <3>3. \/ queued' = queued \cup {next} /\ lost' = lost
          \/ queued' = queued /\ lost' = lost \cup {next}
      BY <2>1
    <3>4. Cardinality(queued) = k /\ Cardinality(lost) = l
      OBVIOUS
    <3> HIDE DEF k, l
    <3>5. CASE queued' = queued \cup {next} /\ lost' = lost
      <4>1. IsFiniteSet(queued') /\ IsFiniteSet(lost') /\ Cardinality(queued') = k + 1 /\ Cardinality(lost') = l
        BY <1>2, <3>1, <3>4, <3>5
      <4> QED BY <1>3, <4>1
    <3>6. CASE queued' = queued /\ lost' = lost \cup {next}
      <4>1. IsFiniteSet(queued') /\ IsFiniteSet(lost') /\ Cardinality(queued') = k /\ Cardinality(lost') = l + 1
        BY <1>2, <3>2, <3>4, <3>6
      <4> QED BY <1>3, <4>1
    <3> QED BY <3>3, <3>5, <3>6
  <2>9. messages_consumed' = messages_processed + messages_failed + m + Cardinality(queued') + Cardinality(lost')
    <3>1. PICK a, b : a = Cardinality(queued') /\ b = Cardinality(lost') /\ a \in Nat /\ b \in Nat
      BY <2>8, FS_CardinalityType
    <3> HIDE DEF k, l
    <3>2. a + b = k + l + 1
      BY <2>8, <3>1
    <3>3. messages_consumed' = messages_processed + messages_failed + m + a + b
      BY <1>3, <1>4, <2>1, <3>1, <3>2
    <3> QED BY <3>1, <3>3
  <2>10. messages_consumed' \in Nat
    BY <1>2, <2>1
  <2>11. ReadingOK'
    BY <2>5, <2>6, <2>7, <2>8 DEF ReadingOK
  <2> QED BY <2>3, <2>9, <2>10, <2>11
<1>6. ASSUME NEW x \in queued, Lose(x) PROVE Goal
  <2>1. /\ queued' = queued \ {x} /\ lost' = lost \cup {x} /\ topics' = topics /\ position' = position
        /\ messages_consumed' = messages_consumed
    BY <1>6 DEF Lose, counters
  <2>2. x \notin lost
    BY <1>2 DEF ReadingOK
  <2>3. IsFiniteSet(queued') /\ Cardinality(queued') = k - 1
    BY <1>2, <2>1, FS_RemoveElement
  <2>4. IsFiniteSet(lost') /\ Cardinality(lost') = l + 1
    BY <1>2, <2>1, <2>2, FS_AddElement
  <2>5. ReadingOK'
    BY <1>2, <2>1, <2>3, <2>4 DEF ReadingOK
  <2> HIDE DEF k, l
  <2>6. messages_consumed' = messages_processed + messages_failed + m + (k - 1) + (l + 1)
    BY <1>3, <1>4, <2>1
  <2> QED BY <1>2, <2>1, <2>3, <2>4, <2>5, <2>6
<1>7. Goal
  <2> HIDE DEF Goal
  <2> QED BY <1>5, <1>6 DEF Reads
<1>8. DeliveryTypes'
  BY <1>1, <1>7 DEF DeliveryInv, DeliveryTypes
<1>9. CountersOK'
  BY <1>1, <1>7 DEF DeliveryInv, CountersOK, m
<1>10. TopicsOK(topics')
  BY <1>1 DEF DeliveryInv
<1>11. \A w \in Workers : WorkerOK(w)'
  BY <1>1 DEF DeliveryInv, WorkerOK
<1>12. \A s \in settled' : SettledOK(s)'
  BY <1>1 DEF DeliveryInv, SettledOK
<1> QED BY <1>7, <1>8, <1>9, <1>10, <1>11, <1>12 DEF DeliveryInv

\* Every step counts or loses a message, or moves a worker.
LEMMA AnyStep ==
  ASSUME DeliveryNext
  PROVE  Reads \/ \E w \in Workers : Work(w) \/ \E m \in queued : Take(w, m)
BY DEF DeliveryNext, Reads, Topics, Refuse, Strand

LEMMA DeliveryInvariant == DeliverySpec => []DeliveryInv
<1>1. DeliveryInv /\ [DeliveryNext]_delivery => DeliveryInv'
  <2> SUFFICES ASSUME DeliveryInv, [DeliveryNext]_delivery PROVE DeliveryInv'
    OBVIOUS
  <2>1. CASE DeliveryNext
    <3>1. CASE Reads
      BY <3>1, ReadsStep
    <3>2. ASSUME NEW w \in Workers, Work(w) \/ \E m \in queued : Take(w, m) PROVE DeliveryInv'
      BY <3>2, TypesStep, TopicsStep, ReadingStep, WorkersStep, CountersStep, SettledStep DEF DeliveryInv
    <3> QED BY <2>1, <3>1, <3>2, AnyStep
  <2>2. CASE UNCHANGED delivery
    BY <2>2 DEF delivery, config, reading, work, counters, wrapper, DeliveryInv, ReadingOK, DeliveryTypes, CountersOK,
       WorkerOK, SettledOK
  <2> QED BY <2>1, <2>2
<1> QED BY <1>1, DeliveryInvInitially, PTL DEF DeliverySpec

------------------------------------------------------------------------------
(* Theorems *)

\* A message that failed for good has a letter, or its letter failed, or it was not to have
\* one: behind a wrapper because there is no dead letter topic, and else also because an
\* error that is not retried came before the threshold.
THEOREM FailedAreDead == DeliverySpec => []FailedIsDead
<1>1. DeliveryInv => FailedIsDead
  <2> SUFFICES ASSUME DeliveryInv, NEW s \in settled
               PROVE  /\ s.how = "dropped" => ~dlq_producer \/ (s.attempts < dlq_after_retries /\ ~wrapped)
                      /\ s.how = "dead" => \E i \in DOMAIN topics.dlq :
                           /\ Header(<<"dlq", "original.topic">>, s.topic) \in Range(topics.dlq[i].headers)
                           /\ Header(<<"dlq", "original.offset">>, s.offset) \in Range(topics.dlq[i].headers)
    BY DEF FailedIsDead
  <2>1. SettledOK(s) /\ TopicsOK(topics)
    BY DEF DeliveryInv
  <2>2. DOMAIN topics.dlq = 1..Len(topics.dlq)
    <3>1. IsASequence(topics["dlq"])
      BY <2>1 DEF TopicsOK, Topics
    <3> QED BY <2>1, <3>1, TopicLengths, SequenceIsAFunction
  <2> QED BY <2>1, <2>2 DEF SettledOK, HasLetter
<1> QED BY <1>1, DeliveryInvariant, PTL

------------------------------------------------------------------------------
(* The waits *)

\* The powers up to the n-th, given as a function.
PowersUpTo(m, n, f) == f = [i \in 0..n |-> IF i = 0 THEN 1 ELSE m * f[i - 1]]

LEMMA PowersAreThere ==
  ASSUME NEW m \in Nat
  PROVE  \A n \in Nat : \E f : PowersUpTo(m, n, f)
<1> DEFINE S == {n \in Nat : \E f : PowersUpTo(m, n, f)}
<1>1. 0 \in S
  <2> DEFINE f == [i \in 0..0 |-> 1]
  <2>1. PowersUpTo(m, 0, f)
    BY DEF PowersUpTo
  <2> QED BY <2>1
<1>2. ASSUME NEW n \in Nat, n \in S PROVE n + 1 \in S
  <2>1. PICK f : PowersUpTo(m, n, f)
    BY <1>2
  <2> DEFINE last == m * f[n]
             g == [i \in 0..(n + 1) |-> IF i = n + 1 THEN last ELSE f[i]]
  <2>2. \A i \in 0..(n + 1) : g[i] = IF i = 0 THEN 1 ELSE m * g[i - 1]
    <3> SUFFICES ASSUME NEW i \in 0..(n + 1) PROVE g[i] = IF i = 0 THEN 1 ELSE m * g[i - 1]
      OBVIOUS
    <3>1. CASE i = n + 1
      <4>1. i - 1 = n /\ n \in 0..(n + 1) /\ n # n + 1 /\ i # 0
        BY <3>1
      <4>2. g[i - 1] = f[n] /\ g[i] = last
        BY <3>1, <4>1
      <4> QED BY <4>1, <4>2
    <3>2. CASE i # n + 1
      <4>1. i \in 0..n /\ g[i] = f[i]
        BY <3>2
      <4>2. i # 0 => i - 1 \in 0..n /\ i - 1 # n + 1 /\ g[i - 1] = f[i - 1]
        BY <4>1
      <4>3. f[i] = IF i = 0 THEN 1 ELSE m * f[i - 1]
        BY <2>1, <4>1 DEF PowersUpTo
      <4> HIDE DEF g
      <4> QED BY <4>1, <4>2, <4>3
    <3> QED BY <3>1, <3>2
  <2>3. g = [i \in 0..(n + 1) |-> g[i]]
    OBVIOUS
  <2> HIDE DEF g
  <2>4. PowersUpTo(m, n + 1, g)
    BY <2>2, <2>3 DEF PowersUpTo
  <2> QED BY <2>4
<1> HIDE DEF S
<1>3. \A n \in Nat : n \in S
  BY <1>1, <1>2, Induction
<1> QED BY <1>3 DEF S

LEMMA PowersOf ==
  ASSUME NEW m \in Nat, NEW n \in Nat
  PROVE  /\ Powers(m, n)[0] = 1
         /\ \A i \in 0..n : i + 1 <= n => Powers(m, n)[i + 1] = m * Powers(m, n)[i]
<1> DEFINE f == CHOOSE g : PowersUpTo(m, n, g)
<1>1. PowersUpTo(m, n, f)
  BY PowersAreThere
<1>2. Powers(m, n) = f
  BY DEF Powers, PowersUpTo
<1> HIDE DEF f
<1>3. \A i \in 0..n : f[i] = IF i = 0 THEN 1 ELSE m * f[i - 1]
  BY <1>1 DEF PowersUpTo
<1>4. 0 \in 0..n /\ \A i \in 0..n : i + 1 <= n => i + 1 \in 0..n /\ i + 1 # 0 /\ (i + 1) - 1 = i
  OBVIOUS
<1> QED BY <1>2, <1>3, <1>4

\* A power does not depend on how many are computed.
LEMMA PowerIsThePower ==
  ASSUME NEW m \in Nat, NEW n \in Nat
  PROVE  \A i \in Nat : i <= n => Powers(m, n)[i] = Power(m, i)
<1> DEFINE Same(i) == \A k \in Nat : i <= k => Powers(m, k)[i] = Power(m, i)
           S == {i \in Nat : Same(i)}
<1>1. 0 \in S
  BY PowersOf DEF Power
<1>2. ASSUME NEW i \in Nat, i \in S PROVE i + 1 \in S
  <2> SUFFICES ASSUME NEW k \in Nat, i + 1 <= k PROVE Powers(m, k)[i + 1] = Powers(m, i + 1)[i + 1]
    BY <1>2 DEF Power
  <2>1. Powers(m, k)[i + 1] = m * Powers(m, k)[i]
    BY <1>2, PowersOf
  <2>2. Powers(m, i + 1)[i + 1] = m * Powers(m, i + 1)[i]
    BY <1>2, PowersOf
  <2>3. Powers(m, k)[i] = Power(m, i) /\ Powers(m, i + 1)[i] = Power(m, i)
    BY <1>2
  <2> QED BY <2>1, <2>2, <2>3
<1> HIDE DEF S
<1>3. \A i \in Nat : i \in S
  BY <1>1, <1>2, Induction
<1> QED BY <1>3 DEF S

LEMMA PowersGrow ==
  ASSUME NEW m \in Nat
  PROVE  /\ Power(m, 0) = 1
         /\ \A n \in Nat : Power(m, n + 1) = m * Power(m, n) /\ Power(m, n) \in Nat
         /\ m >= 1 => \A n \in Nat, k \in Nat : k <= n => Power(m, k) <= Power(m, n)
<1>1. Power(m, 0) = 1
  BY PowersOf DEF Power
<1>2. ASSUME NEW n \in Nat PROVE Power(m, n + 1) = m * Power(m, n)
  <2>1. Powers(m, n + 1)[n + 1] = m * Powers(m, n + 1)[n]
    BY PowersOf
  <2>2. Powers(m, n + 1)[n] = Power(m, n)
    BY PowerIsThePower
  <2> QED BY <2>1, <2>2 DEF Power
<1> DEFINE N == {n \in Nat : Power(m, n) \in Nat}
<1>3. \A n \in Nat : n \in N
  <2>1. 0 \in N
    BY <1>1
  <2>2. ASSUME NEW n \in Nat, n \in N PROVE n + 1 \in N
    <3>1. m * Power(m, n) \in Nat
      <4>1. PICK x \in Nat : x = Power(m, n)
        BY <2>2
      <4> QED BY <4>1
    <3> QED BY <1>2, <3>1
  <2> HIDE DEF N
  <2> QED BY <2>1, <2>2, Induction
<1>4. \A n \in Nat : Power(m, n) \in Nat
  BY <1>3
<1> DEFINE G == {n \in Nat : \A k \in Nat : k <= n => Power(m, k) <= Power(m, n)}
<1>5. ASSUME m >= 1 PROVE \A n \in Nat : n \in G
  <2>1. 0 \in G
    BY <1>1
  <2>2. ASSUME NEW n \in Nat, n \in G PROVE n + 1 \in G
    <3> SUFFICES ASSUME NEW k \in Nat, k <= n + 1 PROVE Power(m, k) <= Power(m, n + 1)
      OBVIOUS
    <3>1. PICK x \in Nat : x = Power(m, n)
      BY <1>4
    <3>2. x <= m * x
      BY <1>5, <3>1
    <3>3. Power(m, n) <= Power(m, n + 1)
      BY <1>2, <3>1, <3>2
    <3>4. CASE k = n + 1
      <4>1. Power(m, n + 1) \in Int
        BY <1>4
      <4> QED BY <3>4, <4>1
    <3>5. CASE k <= n
      <4>1. Power(m, k) <= Power(m, n)
        BY <2>2, <3>5
      <4>2. Power(m, k) \in Int /\ Power(m, n) \in Int /\ Power(m, n + 1) \in Int
        BY <1>4
      <4> QED BY <3>3, <4>1, <4>2
    <3> QED BY <3>4, <3>5
  <2> HIDE DEF G
  <2> QED BY <2>1, <2>2, Induction
<1> HIDE DEF N
<1> QED BY <1>1, <1>2, <1>4, <1>5

\* What a wait is taken from, and that it never shrinks where the multiplier is 1 or more.
Capped(p, n) == Least(BaseBackoff(p, n), p.max_backoff)

LEMMA PolicyIsNumbers ==
  ASSUME NEW p \in Policies
  PROVE  /\ p.initial_backoff \in Nat /\ p.max_backoff \in Nat /\ p.backoff_multiplier \in Nat
         /\ p.jitter_percent \in Nat /\ p.exponential \in BOOLEAN
BY DeliveryAssumption

LEMMA BackoffIsANumber ==
  ASSUME NEW p \in Policies, NEW n \in Nat, n >= 1
  PROVE  BaseBackoff(p, n) \in Nat /\ Capped(p, n) \in Nat /\ Capped(p, n) <= p.max_backoff
<1>1. n - 1 \in Nat
  OBVIOUS
<1>2. PICK x \in Nat : x = Power(p.backoff_multiplier, n - 1)
  BY <1>1, PolicyIsNumbers, PowersGrow
<1>3. PICK i \in Nat, l \in Nat : i = p.initial_backoff /\ l = p.max_backoff
  BY PolicyIsNumbers
<1>4. i * x \in Nat
  OBVIOUS
<1>5. BaseBackoff(p, n) \in {i, l, i * x}
  BY <1>2, <1>3 DEF BaseBackoff
<1> QED BY <1>3, <1>4, <1>5 DEF Capped, Least

LEMMA BackoffGrows ==
  ASSUME NEW p \in Policies, p.backoff_multiplier >= 1, NEW n \in Nat, NEW k \in 1..n
  PROVE  Capped(p, k) <= Capped(p, n)
<1> DEFINE Top(j) == j > 30 \/ Power(p.backoff_multiplier, j - 1) >= 1000000
<1>0. k \in Nat /\ k >= 1 /\ n >= 1 /\ k - 1 \in Nat /\ n - 1 \in Nat /\ k - 1 <= n - 1
  OBVIOUS
<1>1. PICK x, y : x = Power(p.backoff_multiplier, k - 1) /\ y = Power(p.backoff_multiplier, n - 1)
  OBVIOUS
<1>2. x \in Nat /\ y \in Nat /\ x <= y
  BY <1>0, <1>1, PolicyIsNumbers, PowersGrow
<1>3. PICK i \in Nat, l \in Nat : i = p.initial_backoff /\ l = p.max_backoff
  BY PolicyIsNumbers
<1>4. CASE ~p.exponential
  <2>1. BaseBackoff(p, k) = BaseBackoff(p, n)
    BY <1>4 DEF BaseBackoff
  <2> QED BY <1>0, <2>1, BackoffIsANumber DEF Capped
<1>5. CASE p.exponential /\ Top(n)
  <2>1. BaseBackoff(p, n) = l
    BY <1>3, <1>5 DEF BaseBackoff
  <2>2. Capped(p, n) = l
    BY <1>3, <2>1 DEF Capped, Least
  <2> QED BY <1>0, <1>3, <2>2, BackoffIsANumber
<1>6. CASE p.exponential /\ ~Top(n)
  <2>1. ~Top(k)
    BY <1>1, <1>2, <1>6
  <2>2. BaseBackoff(p, n) = i * y /\ BaseBackoff(p, k) = i * x
    BY <1>1, <1>3, <1>6, <2>1 DEF BaseBackoff
  <2>3. i * x \in Nat /\ i * y \in Nat /\ i * x <= i * y
    <3>1. i * y = i * x + i * (y - x) /\ y - x \in Nat
      BY <1>2
    <3>2. i * (y - x) \in Nat
      BY <3>1
    <3> QED BY <1>2, <3>1, <3>2
  <2> HIDE DEF Top
  <2> QED BY <1>3, <2>2, <2>3 DEF Capped, Least
<1> QED BY <1>4, <1>5, <1>6

\* A wait is one that next_backoff() may answer.
LEMMA WaitIsBetween ==
  ASSUME NEW p \in Policies, NEW n \in Nat, n >= 1, NEW d \in NextBackoff(p, n)
  PROVE  d \in Nat /\ Capped(p, n) <= d /\ d * 100 <= p.max_backoff * (100 + p.jitter_percent)
<1>1. PICK c \in Nat, l \in Nat, j \in Nat : c = Capped(p, n) /\ l = p.max_backoff /\ j = p.jitter_percent
  BY BackoffIsANumber, PolicyIsNumbers
<1>2. PICK z \in Nat : z = c * j
  OBVIOUS
<1>3. d \in c..(c + z \div 100) /\ c <= l
  BY <1>1, <1>2, BackoffIsANumber DEF NextBackoff, Capped
<1>4. (z \div 100) * 100 <= z /\ z \div 100 \in Nat
  OBVIOUS
<1>5. d \in Nat /\ c <= d /\ d * 100 <= c * 100 + z
  BY <1>3, <1>4
<1>6. c * 100 + z <= l * (100 + j)
  <2>1. l * (100 + j) = l * 100 + l * j
    OBVIOUS
  <2>2. l * j = c * j + (l - c) * j /\ l - c \in Nat
    BY <1>3
  <2>3. (l - c) * j \in Nat
    BY <2>2
  <2>4. l * j \in Nat
    OBVIOUS
  <2>5. z <= l * j
    BY <1>2, <2>2, <2>3, <2>4
  <2> QED BY <1>3, <2>1, <2>4, <2>5
<1>7. l * (100 + j) \in Nat
  OBVIOUS
<1> QED BY <1>1, <1>5, <1>6, <1>7

\* Each worker that sleeps does so for a wait that its attempt allows.
WaitsInv ==
  /\ duration \in [Workers -> Nat]
  /\ \A w \in Workers : pc[w] = "sleep" => attempt[w] >= 1 /\ duration[w] \in NextBackoff(policy, attempt[w])

LEMMA WaitsInitially == DeliveryInit => WaitsInv
BY DEF DeliveryInit, WaitsInv

LEMMA WaitsStep == DeliveryInv /\ WaitsInv /\ [DeliveryNext]_delivery => WaitsInv'
<1> SUFFICES ASSUME DeliveryInv, WaitsInv, [DeliveryNext]_delivery PROVE WaitsInv'
  OBVIOUS
<1>1. /\ pc \in [Workers -> Places] /\ attempt \in [Workers -> Nat] /\ policy \in Policies
      /\ duration \in [Workers -> Nat]
      /\ \A w \in Workers : pc[w] = "sleep" => attempt[w] >= 1 /\ duration[w] \in NextBackoff(policy, attempt[w])
  BY DEF DeliveryInv, DeliveryTypes, WaitsInv
<1>2. ASSUME NEW w \in Workers, NEW error \in Errors, Retry(w, error) PROVE WaitsInv'
  <2>1. /\ pc' = [pc EXCEPT ![w] = "sleep"] /\ attempt' = [attempt EXCEPT ![w] = @ + 1] /\ policy' = policy
        /\ \E d \in NextBackoff(policy, attempt[w] + 1) : duration' = [duration EXCEPT ![w] = d]
    BY <1>2 DEF Retry, Try, Set, config
  <2>2. PICK d \in NextBackoff(policy, attempt[w] + 1) : duration' = [duration EXCEPT ![w] = d]
    BY <2>1
  <2>3. attempt[w] + 1 \in Nat /\ attempt[w] + 1 >= 1
    BY <1>1
  <2>4. d \in Nat
    BY <1>1, <2>3, WaitIsBetween
  <2>5. duration' \in [Workers -> Nat]
    BY <1>1, <2>2, <2>4
  <2>6. attempt'[w] = attempt[w] + 1 /\ duration'[w] = d
    BY <1>1, <2>1, <2>2
  <2>7. \A v \in Workers \ {w} : pc'[v] = pc[v] /\ attempt'[v] = attempt[v] /\ duration'[v] = duration[v]
    BY <1>1, <2>1, <2>2
  <2> QED BY <1>1, <2>1, <2>3, <2>5, <2>6, <2>7 DEF WaitsInv
<1>3. ASSUME NEW w \in Workers, NEW x \in Places, x # "sleep", pc' = [pc EXCEPT ![w] = x], policy' = policy,
             \/ attempt' = attempt
             \/ attempt' = [attempt EXCEPT ![w] = 0],
             \/ duration' = duration
             \/ duration' = [duration EXCEPT ![w] = 0]
      PROVE  WaitsInv'
  <2>1. duration' \in [Workers -> Nat] /\ pc'[w] = x
    BY <1>1, <1>3
  <2>2. \A v \in Workers \ {w} : pc'[v] = pc[v] /\ attempt'[v] = attempt[v] /\ duration'[v] = duration[v]
    BY <1>1, <1>3
  <2> QED BY <1>1, <1>3, <2>1, <2>2 DEF WaitsInv
<1>4. ASSUME NEW w \in Workers, NEW m \in queued, Take(w, m) PROVE WaitsInv'
  <2>1. pc' = [pc EXCEPT ![w] = "process"] /\ policy' = policy /\ duration' = duration
        /\ attempt' = [attempt EXCEPT ![w] = 0]
    BY <1>4 DEF Take, At, Set, config
  <2> QED BY <1>3, <2>1 DEF Places
<1>5. ASSUME NEW w \in Workers, Work(w), ~\E error \in Errors : Retry(w, error) PROVE WaitsInv'
  <2>1. /\ policy' = policy /\ attempt' = attempt
        /\ duration' = duration \/ duration' = [duration EXCEPT ![w] = 0]
    BY <1>5 DEF Work, Succeed, Wake, OnSuccess, OnFailure, RetryPanics, Fail, Try, SendMessage, Set, config
  <2>2. \E x \in Places : x # "sleep" /\ pc' = [pc EXCEPT ![w] = x]
    BY <1>5 DEF Work, Succeed, Wake, OnSuccess, OnFailure, RetryPanics, Fail, SendMessage, At, Set, Places
  <2> QED BY <1>3, <2>1, <2>2
<1>6. CASE UNCHANGED delivery \/ Reads
  <2>1. UNCHANGED <<work, config>>
    BY <1>6 DEF delivery, Reads, Count, Lose
  <2> QED BY <2>1 DEF WaitsInv, work, config
<1> QED BY <1>2, <1>4, <1>5, <1>6, AnyStep

LEMMA WaitsInvariant == DeliverySpec => []WaitsInv
BY WaitsInitially, WaitsStep, DeliveryInvariant, PTL DEF DeliverySpec

LEMMA WaitsBounded == DeliveryInv /\ WaitsInv => WaitsAreBounded
<1> SUFFICES ASSUME DeliveryInv, WaitsInv, NEW w \in Workers, pc[w] = "sleep"
             PROVE  /\ duration[w] * 100 <= policy.max_backoff * (100 + policy.jitter_percent)
                    /\ policy.backoff_multiplier >= 1 =>
                         \A n \in 1..attempt[w] : duration[w] >= Least(BaseBackoff(policy, n), policy.max_backoff)
  BY DEF WaitsAreBounded
<1>1. policy \in Policies /\ attempt[w] \in Nat /\ attempt[w] >= 1 /\ duration[w] \in NextBackoff(policy, attempt[w])
  BY DEF DeliveryInv, DeliveryTypes, WaitsInv
<1>2. /\ duration[w] \in Nat /\ Capped(policy, attempt[w]) <= duration[w]
      /\ duration[w] * 100 <= policy.max_backoff * (100 + policy.jitter_percent)
  BY <1>1, WaitIsBetween
<1>3. ASSUME policy.backoff_multiplier >= 1, NEW n \in 1..attempt[w]
      PROVE  duration[w] >= Least(BaseBackoff(policy, n), policy.max_backoff)
  <2>1. Capped(policy, n) <= Capped(policy, attempt[w])
    BY <1>1, <1>3, BackoffGrows
  <2>2. Capped(policy, n) \in Nat /\ Capped(policy, attempt[w]) \in Nat
    BY <1>1, <1>3, BackoffIsANumber
  <2>3. duration[w] >= Capped(policy, n)
    BY <1>2, <2>1, <2>2
  <2> QED BY <2>3 DEF Capped
<1> QED BY <1>2, <1>3

------------------------------------------------------------------------------
(* What the wrapper counts *)

\* The calls made for the messages that are done and for those of busy workers.
CallsIn(done, busy, ms, ts) ==
  (UNION {CallsOf(<<s.topic, s.offset>>, s.tries) : s \in done})
    \cup (UNION {CallsOf(ms[w], ts[w]) : w \in busy})
Busy == {w \in Workers : pc[w] # "idle"}

LEMMA InCallsIn ==
  ASSUME NEW done, NEW busy, NEW ms, NEW ts, NEW c
  PROVE  c \in CallsIn(done, busy, ms, ts) <=>
           \/ \E s \in done : \E k \in 1..s.tries : c = <<<<s.topic, s.offset>>, k>>
           \/ \E w \in busy : \E k \in 1..ts[w] : c = <<ms[w], k>>
<1> DEFINE settledCalls == UNION {CallsOf(<<s.topic, s.offset>>, s.tries) : s \in done}
           busyCalls == UNION {CallsOf(ms[w], ts[w]) : w \in busy}
<1>1. c \in settledCalls <=> \E s \in done : \E k \in 1..s.tries : c = <<<<s.topic, s.offset>>, k>>
  BY DEF CallsOf
<1>2. c \in busyCalls <=> \E w \in busy : \E k \in 1..ts[w] : c = <<ms[w], k>>
  BY DEF CallsOf
<1>3. CallsIn(done, busy, ms, ts) = settledCalls \cup busyCalls
  BY DEF CallsIn
<1> HIDE DEF settledCalls, busyCalls
<1> QED BY <1>1, <1>2, <1>3

\* A message was taken once: it is on its way, with one worker or settled.
Apart ==
  /\ \A w \in Busy : message[w][2] <= position[message[w][1]] /\ message[w] \notin queued
  /\ \A v, w \in Busy : v # w => message[v] # message[w]
  /\ \A s \in settled : s.topic \in Topics /\ s.offset \in Nat /\ s.offset <= position[s.topic]
  /\ \A s \in settled : <<s.topic, s.offset>> \notin queued
  /\ \A w \in Busy : \A s \in settled : message[w] # <<s.topic, s.offset>>
CallsInv ==
  /\ Apart /\ wrapper_processed \in Nat /\ wrapper_failed \in Nat
  /\ IsFiniteSet(Calls)
  /\ wrapped => wrapper_processed + wrapper_failed = Cardinality(Calls)

LEMMA CallsInitially == DeliveryInit => CallsInv
<1> SUFFICES ASSUME DeliveryInit PROVE CallsInv
  OBVIOUS
<1>1. settled = {} /\ Busy = {} /\ queued = {} /\ wrapper_processed = 0 /\ wrapper_failed = 0
  BY DEF DeliveryInit, Busy
<1>2. Calls = {}
  BY <1>1, Zenon DEF Calls, Busy
<1>3. IsFiniteSet(Calls) /\ Cardinality(Calls) = 0
  BY <1>2, FS_EmptySet
<1> QED BY <1>1, <1>3 DEF CallsInv, Apart

\* A message that is counted is new, and one that is lost leaves the others where they are.
LEMMA ReadsKeepCalls ==
  ASSUME DeliveryInv, CallsInv, Reads
  PROVE  CallsInv'
<1>0. UNCHANGED settled
  BY DEF Reads, Count, Lose
<1>1. /\ UNCHANGED <<pc, message, tries, settled, wrapper, config>> /\ Apart
      /\ position \in [Topics -> Nat] /\ message \in [Workers -> Topics \X Nat]
  BY DEF Reads, Count, Lose, work, DeliveryInv, DeliveryTypes, CallsInv
<1>2. /\ \A t \in Topics : position'[t] \in Nat /\ position'[t] >= position[t]
      /\ \A m \in queued' : m \in queued \/ (m[1] \in Topics /\ m[2] > position[m[1]])
  <2>1. ASSUME NEW topic \in Topics, NEW paused \in BOOLEAN, Count(topic, paused)
        PROVE  /\ \A t \in Topics : position'[t] \in Nat /\ position'[t] >= position[t]
               /\ \A m \in queued' : m \in queued \/ (m[1] \in Topics /\ m[2] > position[m[1]])
    <3> DEFINE next == <<topic, position[topic] + 1>>
    <3>1. next[1] = topic /\ next[2] = position[topic] + 1 /\ next[2] > position[topic]
      BY <1>1
    <3>2. position' = [position EXCEPT ![topic] = @ + 1] /\ queued' \subseteq queued \cup {next}
      BY <2>1 DEF Count
    <3> HIDE DEF next
    <3>3. \A t \in Topics : position'[t] \in Nat /\ position'[t] >= position[t]
      BY <1>1, <3>2
    <3> QED BY <3>1, <3>2, <3>3
  <2>2. ASSUME NEW m \in queued, Lose(m)
        PROVE  position' = position /\ queued' \subseteq queued
    BY <2>2 DEF Lose
  <2> QED BY <1>1, <2>1, <2>2 DEF Reads
<1>3. Busy' = Busy /\ Calls' = Calls
  BY <1>1 DEF Busy, Calls
<1>4. \A v \in Busy : /\ message[v] \in Topics \X Nat /\ message[v][1] \in Topics /\ message[v][2] \in Nat
                      /\ message[v][2] <= position[message[v][1]] /\ message[v] \notin queued
  BY <1>1 DEF Apart, Busy
<1>5. \A v \in Busy' : message'[v][2] <= position'[message'[v][1]] /\ message'[v] \notin queued'
  BY <1>1, <1>2, <1>3, <1>4
<1>6. \A s \in settled' : /\ s.topic \in Topics /\ s.offset \in Nat /\ s.offset <= position'[s.topic]
                          /\ <<s.topic, s.offset>> \notin queued'
  <2> SUFFICES ASSUME NEW s \in settled
               PROVE  s.topic \in Topics /\ s.offset \in Nat /\ s.offset <= position'[s.topic]
                      /\ <<s.topic, s.offset>> \notin queued'
    BY <1>0, Zenon
  <2>1. /\ s.topic \in Topics /\ s.offset \in Nat /\ s.offset <= position[s.topic]
        /\ <<s.topic, s.offset>> \notin queued
    BY <1>1, Zenon DEF Apart
  <2>2. PICK topic, offset : topic = s.topic /\ offset = s.offset
    OBVIOUS
  <2>3. topic \in Topics /\ offset \in Nat /\ offset <= position[topic] /\ <<topic, offset>> \notin queued
    BY <2>1, <2>2
  <2>4. offset <= position'[topic] /\ ~(offset > position[topic])
    BY <1>1, <1>2, <2>3
  <2>5. <<topic, offset>> \notin queued'
    BY <1>2, <2>3, <2>4
  <2> QED BY <2>2, <2>3, <2>4, <2>5
<1>7. Apart'
  BY <1>1, <1>3, <1>5, <1>6 DEF Apart
<1> QED BY <1>1, <1>3, <1>7 DEF CallsInv, wrapper, config

\* A message that is taken had not been: no call was made for it.
LEMMA TakeKeepsCalls ==
  ASSUME DeliveryInv, CallsInv, NEW w \in Workers, NEW m \in queued, Take(w, m)
  PROVE  CallsInv'
<1>1. /\ pc \in [Workers -> Places] /\ message \in [Workers -> Topics \X Nat] /\ position \in [Topics -> Nat]
      /\ attempt \in [Workers -> Nat] /\ tries \in [Workers -> Nat] /\ Apart /\ ReadingOK
  BY DEF DeliveryInv, DeliveryTypes, CallsInv
<1>2. /\ pc[w] = "idle" /\ pc' = [pc EXCEPT ![w] = "process"]
      /\ position' = position /\ queued' = queued \ {m}
      /\ message' = [message EXCEPT ![w] = m] /\ tries' = [tries EXCEPT ![w] = 0]
      /\ settled' = settled /\ UNCHANGED wrapper /\ UNCHANGED config
  BY DEF Take, At, Set
<1>3. /\ Busy' = Busy \cup {w} /\ w \notin Busy
      /\ \A v \in Busy : v # w /\ message'[v] = message[v] /\ tries'[v] = tries[v]
      /\ message'[w] = m /\ tries'[w] = 0
  BY <1>1, <1>2 DEF Busy
<1>4. m \in Topics \X Nat /\ m[2] <= position[m[1]] /\ m \notin queued'
  BY <1>1, <1>2 DEF ReadingOK
<1>5. \A v \in Busy : message[v] # m
  BY <1>1 DEF Apart
<1>6. \A s \in settled : m # <<s.topic, s.offset>>
  BY <1>1 DEF Apart
<1>9. Apart'
  <2>1. \A v \in Busy' : message'[v][2] <= position'[message'[v][1]] /\ message'[v] \notin queued'
    BY <1>1, <1>2, <1>3, <1>4 DEF Apart
  <2>2. \A v, x \in Busy' : v # x => message'[v] # message'[x]
    BY <1>1, <1>3, <1>5 DEF Apart
  <2>3. \A s \in settled' : /\ s.topic \in Topics /\ s.offset \in Nat /\ s.offset <= position'[s.topic]
                            /\ <<s.topic, s.offset>> \notin queued'
    <3>1. settled' = settled /\ position' = position /\ \A x : x \in queued' => x \in queued
      BY <1>2
    <3> QED BY <1>1, <3>1, Zenon DEF Apart
  <2>4. \A v \in Busy' : \A s \in settled' : message'[v] # <<s.topic, s.offset>>
    BY <1>1, <1>2, <1>3, <1>6, SMTT(60) DEF Apart
  <2> QED BY <2>1, <2>2, <2>3, <2>4 DEF Apart
<1>10. Calls' = Calls
  <2>1. Calls = CallsIn(settled, Busy, message, tries) /\ Calls' = CallsIn(settled', Busy', message', tries')
    BY DEF Calls, CallsIn, Busy
  <2>2. \A c : c \in CallsIn(settled', Busy', message', tries') <=> c \in CallsIn(settled, Busy, message, tries)
    <3> TAKE c
    <3>1. c \in CallsIn(settled, Busy, message, tries) <=>
            \/ \E s \in settled : \E k \in 1..s.tries : c = <<<<s.topic, s.offset>>, k>>
            \/ \E v \in Busy : \E k \in 1..tries[v] : c = <<message[v], k>>
      BY InCallsIn
    <3>2. c \in CallsIn(settled', Busy', message', tries') <=>
            \/ \E s \in settled' : \E k \in 1..s.tries : c = <<<<s.topic, s.offset>>, k>>
            \/ \E v \in Busy' : \E k \in 1..tries'[v] : c = <<message'[v], k>>
      BY InCallsIn
    <3>3. 1..0 = {}
      OBVIOUS
    <3> QED BY <1>2, <1>3, <3>1, <3>2, <3>3
  <2> QED BY <2>1, <2>2
<1> QED BY <1>2, <1>9, <1>10 DEF CallsInv, wrapper, config

\* A call more is one that was not made before, and is counted by a wrapper.
LEMMA TryCountsACall ==
  ASSUME DeliveryInv, CallsInv, NEW w \in Workers,
         Succeed(w) \/ \E error \in Errors : Retry(w, error) \/ RetryPanics(w, error) \/ Fail(w, error)
  PROVE  CallsInv'
<1>1. /\ pc \in [Workers -> Places] /\ message \in [Workers -> Topics \X Nat] /\ position \in [Topics -> Nat]
      /\ tries \in [Workers -> Nat] /\ Apart /\ wrapped \in BOOLEAN
      /\ wrapper_processed \in Nat /\ wrapper_failed \in Nat /\ IsFiniteSet(Calls)
      /\ wrapped => wrapper_processed + wrapper_failed = Cardinality(Calls)
  BY DEF DeliveryInv, DeliveryTypes, CallsInv
<1>2. /\ pc[w] = "process" /\ tries' = [tries EXCEPT ![w] = @ + 1]
      /\ UNCHANGED <<config, position, queued, message, settled>>
      /\ \E x \in Places : x # "idle" /\ pc' = [pc EXCEPT ![w] = x]
      /\ \E n, m \in {0, 1} : n + m = 1 /\ Wrapped(n, m)
  BY DEF Succeed, Retry, RetryPanics, Fail, Try, Set, Places, reading
<1>3. /\ wrapped' = wrapped /\ wrapper_processed' \in Nat /\ wrapper_failed' \in Nat
      /\ wrapped => wrapper_processed' + wrapper_failed' = wrapper_processed + wrapper_failed + 1
  BY <1>1, <1>2 DEF Wrapped, config
<1>4. Busy' = Busy /\ w \in Busy
  BY <1>1, <1>2 DEF Busy
<1>5. Apart'
  BY <1>1, <1>2, <1>4 DEF Apart
<1> DEFINE new == <<message[w], tries[w] + 1>>
<1>6. Calls = CallsIn(settled, Busy, message, tries) /\ Calls' = CallsIn(settled', Busy', message', tries')
  BY DEF Calls, CallsIn, Busy
<1>7. tries[w] \in Nat /\ tries'[w] = tries[w] + 1 /\ \A v \in Busy : v # w => tries'[v] = tries[v]
  BY <1>1, <1>2 DEF Busy
<1>8. \A k : k \in 1..(tries[w] + 1) <=> k \in 1..tries[w] \/ k = tries[w] + 1
  BY <1>7
<1>9. \A c : c \in CallsIn(settled', Busy', message', tries') <=> c \in CallsIn(settled, Busy, message, tries) \/ c = new
  <2> TAKE c
  <2>1. c \in CallsIn(settled, Busy, message, tries) <=>
          \/ \E s \in settled : \E k \in 1..s.tries : c = <<<<s.topic, s.offset>>, k>>
          \/ \E v \in Busy : \E k \in 1..tries[v] : c = <<message[v], k>>
    BY InCallsIn
  <2>2. c \in CallsIn(settled', Busy', message', tries') <=>
          \/ \E s \in settled' : \E k \in 1..s.tries : c = <<<<s.topic, s.offset>>, k>>
          \/ \E v \in Busy' : \E k \in 1..tries'[v] : c = <<message'[v], k>>
    BY InCallsIn
  <2>3. (\E v \in Busy : \E k \in 1..tries'[v] : c = <<message[v], k>>)
          <=> (\E v \in Busy : \E k \in 1..tries[v] : c = <<message[v], k>>) \/ c = new
    BY <1>4, <1>7, <1>8
  <2> QED BY <1>2, <1>4, <2>1, <2>2, <2>3
<1>10. new \notin CallsIn(settled, Busy, message, tries)
  <2>1. \A s \in settled : \A k \in 1..s.tries : new # <<<<s.topic, s.offset>>, k>>
    <3> TAKE s \in settled
    <3> TAKE k \in 1..s.tries
    <3>1. message[w] # <<s.topic, s.offset>>
      BY <1>1, <1>4 DEF Apart
    <3> QED BY <3>1
  <2>2. \A v \in Busy : \A k \in 1..tries[v] : new # <<message[v], k>>
    <3> TAKE v \in Busy
    <3> TAKE k \in 1..tries[v]
    <3>1. CASE v = w
      <4>1. k # tries[w] + 1
        BY <1>7, <3>1
      <4> QED BY <4>1
    <3>2. CASE v # w
      <4>1. message[v] # message[w]
        BY <1>1, <1>4, <3>2 DEF Apart
      <4> QED BY <4>1
    <3> QED BY <3>1, <3>2
  <2> HIDE DEF new
  <2> QED BY <2>1, <2>2, InCallsIn
<1> HIDE DEF new
<1>11. Calls' = Calls \cup {new} /\ new \notin Calls
  BY <1>6, <1>9, <1>10
<1>12. IsFiniteSet(Calls') /\ Cardinality(Calls') = Cardinality(Calls) + 1
  BY <1>1, <1>11, FS_AddElement
<1> QED BY <1>1, <1>3, <1>5, <1>12 DEF CallsInv

\* A message that is settled passes from its worker to the history with its calls.
LEMMA SettleKeepsCalls ==
  ASSUME DeliveryInv, CallsInv, NEW w \in Workers, NEW how, Settle(w, how),
         pc[w] # "idle", pc' = [pc EXCEPT ![w] = "idle"],
         UNCHANGED <<config, position, queued, message, tries, wrapper>>
  PROVE  CallsInv'
<1>1. /\ pc \in [Workers -> Places] /\ message \in [Workers -> Topics \X Nat] /\ position \in [Topics -> Nat]
      /\ tries \in [Workers -> Nat] /\ Apart
  BY DEF DeliveryInv, DeliveryTypes, CallsInv
<1>2. PICK x : x = [topic |-> message[w][1], offset |-> message[w][2], how |-> how,
                    attempts |-> attempt[w], tries |-> tries[w]]
  OBVIOUS
<1>3. settled' = settled \cup {x}
  BY <1>2 DEF Settle
<1>4. <<x.topic, x.offset>> = message[w] /\ x.tries = tries[w] /\ x.topic = message[w][1] /\ x.offset = message[w][2]
  BY <1>1, <1>2
<1>5. Busy = Busy' \cup {w} /\ w \notin Busy' /\ w \in Busy
  BY <1>1 DEF Busy
<1>6. Apart'
  <2>1. \A v \in Busy' : message'[v][2] <= position'[message'[v][1]] /\ message'[v] \notin queued'
    BY <1>1, <1>5 DEF Apart
  <2>2. \A v, y \in Busy' : v # y => message'[v] # message'[y]
    BY <1>1, <1>5 DEF Apart
  <2>3. \A s \in settled' : /\ s.topic \in Topics /\ s.offset \in Nat /\ s.offset <= position'[s.topic]
                            /\ <<s.topic, s.offset>> \notin queued'
    <3>1. /\ x.topic \in Topics /\ x.offset \in Nat /\ x.offset <= position[x.topic]
          /\ <<x.topic, x.offset>> \notin queued
      BY <1>1, <1>4, <1>5 DEF Apart
    <3>2. position' = position /\ queued' = queued
      OBVIOUS
    <3>3. \A s \in settled : /\ s.topic \in Topics /\ s.offset \in Nat /\ s.offset <= position[s.topic]
                             /\ <<s.topic, s.offset>> \notin queued
      BY <1>1, Zenon DEF Apart
    <3>4. \A s \in settled' : s \in settled \/ s = x
      BY <1>3
    <3> QED BY <3>1, <3>2, <3>3, <3>4, Zenon
  <2>4. \A v \in Busy' : \A s \in settled' : message'[v] # <<s.topic, s.offset>>
    BY <1>1, <1>3, <1>4, <1>5 DEF Apart
  <2> QED BY <2>1, <2>2, <2>3, <2>4 DEF Apart
<1>7. Calls' = Calls
  <2>1. Calls = CallsIn(settled, Busy, message, tries) /\ Calls' = CallsIn(settled', Busy', message', tries')
    BY DEF Calls, CallsIn, Busy
  <2>2. \A c : c \in CallsIn(settled', Busy', message', tries') <=> c \in CallsIn(settled, Busy, message, tries)
    <3> TAKE c
    <3>1. c \in CallsIn(settled, Busy, message, tries) <=>
            \/ \E s \in settled : \E k \in 1..s.tries : c = <<<<s.topic, s.offset>>, k>>
            \/ \E v \in Busy : \E k \in 1..tries[v] : c = <<message[v], k>>
      BY InCallsIn
    <3>2. c \in CallsIn(settled', Busy', message', tries') <=>
            \/ \E s \in settled' : \E k \in 1..s.tries : c = <<<<s.topic, s.offset>>, k>>
            \/ \E v \in Busy' : \E k \in 1..tries'[v] : c = <<message'[v], k>>
      BY InCallsIn
    <3> QED BY <1>3, <1>4, <1>5, <3>1, <3>2
  <2> QED BY <2>1, <2>2
<1> QED BY <1>6, <1>7 DEF CallsInv, wrapper, config

LEMMA CallsStep == DeliveryInv /\ CallsInv /\ [DeliveryNext]_delivery => CallsInv'
<1> SUFFICES ASSUME DeliveryInv, CallsInv, [DeliveryNext]_delivery PROVE CallsInv'
  OBVIOUS
<1>0. pc \in [Workers -> Places]
  BY DEF DeliveryInv, DeliveryTypes
<1>1. ASSUME NEW w \in Workers, Wake(w) \/ (OnFailure(w) /\ ToDlq(w)) PROVE CallsInv'
  <2>1. /\ UNCHANGED <<config, position, queued, message, tries, wrapper, settled>>
        /\ pc[w] # "idle" /\ \E x \in Places : x # "idle" /\ pc' = [pc EXCEPT ![w] = x]
    BY <1>1 DEF Wake, OnFailure, At, Set, Places, reading
  <2>2. Busy' = Busy
    BY <1>0, <2>1 DEF Busy
  <2>3. Calls' = Calls
    BY <2>1, <2>2 DEF Calls, Busy
  <2> QED BY <2>1, <2>2, <2>3 DEF CallsInv, Apart, wrapper, config
<1>2. ASSUME NEW w \in Workers,
             \/ OnSuccess(w) \/ (OnFailure(w) /\ ~ToDlq(w))
             \/ \E copies \in 0..2, reported \in BOOLEAN : SendMessage(w, copies, reported)
      PROVE  CallsInv'
  <2>1. /\ UNCHANGED <<config, position, queued, message, tries, wrapper>>
        /\ pc[w] # "idle" /\ pc' = [pc EXCEPT ![w] = "idle"] /\ \E how : Settle(w, how)
    BY <1>2 DEF OnSuccess, OnFailure, SendMessage, At, Set, reading
  <2> QED BY <2>1, SettleKeepsCalls
<1>3. CASE UNCHANGED delivery
  <2>1. UNCHANGED <<pc, message, tries, position, queued, settled, wrapper, config>>
    BY <1>3 DEF delivery, work, reading
  <2>2. Busy' = Busy /\ Calls' = Calls
    BY <2>1 DEF Busy, Calls
  <2> QED BY <2>1, <2>2 DEF CallsInv, Apart, wrapper, config
<1>4. ASSUME NEW w \in Workers, Work(w) PROVE CallsInv'
  BY <1>1, <1>2, <1>4, TryCountsACall DEF Work
<1> QED BY <1>3, <1>4, AnyStep, ReadsKeepCalls, TakeKeepsCalls

LEMMA CallsInvariant == DeliverySpec => []CallsInv
BY CallsInitially, CallsStep, DeliveryInvariant, PTL DEF DeliverySpec

\* process() is called once more than it is retried and never more often than the policy
\* says, a wrapper counts each call of each message once, and every wait is as long as the
\* policy asks: no longer than the maximum with its jitter, no shorter than an earlier one.
THEOREM RetriesAlwaysBounded == DeliverySpec => []RetriesAreBounded
<1>1. DeliveryInv => CallsAreBounded
  BY PolicyNumbers DEF DeliveryInv, CallsAreBounded, SettledOK
<1>2. DeliveryInv /\ WaitsInv /\ CallsInv => RetriesAreBounded
  BY <1>1, WaitsBounded DEF RetriesAreBounded, CallsInv
<1> QED BY <1>2, DeliveryInvariant, WaitsInvariant, CallsInvariant, PTL

------------------------------------------------------------------------------
(* The letters *)

\* What the headers of a letter tell is what they were given.
LEMMA ToldByHeaders ==
  ASSUME NEW i, NEW topic, NEW offset, HasOurHeaders(topics.dlq[i].headers, topic, offset)
  PROVE  Told(i, "original.topic") = topic /\ Told(i, "original.offset") = offset
<1>1. PICK headers : headers = topics.dlq[i].headers
  OBVIOUS
<1>2. HasOurHeaders(headers, topic, offset)
  BY <1>1
<1>3. (CHOOSE j \in {1} : TRUE) = 1 /\ (CHOOSE j \in {2} : TRUE) = 2
  OBVIOUS
<1>4. /\ (CHOOSE j \in Named(headers, <<"dlq", "original.topic">>) : TRUE) = 1
      /\ (CHOOSE j \in Named(headers, <<"dlq", "original.offset">>) : TRUE) = 2
  BY <1>2, <1>3 DEF HasOurHeaders
<1> QED BY <1>1, <1>2, <1>4 DEF Told, Header, HasOurHeaders

LEMMA LettersAreLetters ==
  ASSUME TopicsOK(topics), NEW i \in 1..Len(topics.dlq)
  PROVE  \E topic \in Topics : \E offset \in 1..Len(topics[topic]) :
           /\ topic = "dlq" => offset < i
           /\ HasOurHeaders(topics.dlq[i].headers, topic, offset)
           /\ topics.dlq[i].payload = topics[topic][offset].payload
<1>1. PICK topic, offset, n :
        /\ topic \in Topics /\ offset \in 1..Len(topics[topic]) /\ (topic = "dlq" => offset < i)
        /\ topics.dlq[i] = DlqRecord(topic, offset, topics[topic][offset], n)
  <2>1. IsLetterOf(topics.dlq[i], i, topics)
    BY DEF TopicsOK
  <2> QED BY <2>1 DEF IsLetterOf
<1>2. PICK original : original = topics[topic][offset]
  OBVIOUS
<1>3. IsASequence(original.headers)
  BY <1>1, <1>2 DEF TopicsOK
<1> DEFINE headers == CreateDlqHeaders(topic, offset, original, n)
<1>4. HasOurHeaders(headers, topic, offset)
  BY <1>3, OurHeaders
<1>5. topics.dlq[i].headers = headers /\ topics.dlq[i].payload = original.payload
  BY <1>1, <1>2 DEF DlqRecord
<1> HIDE DEF headers
<1> QED BY <1>1, <1>2, <1>4, <1>5

LEMMA DomainOfLetters == ASSUME TopicsOK(topics) PROVE DOMAIN topics.dlq = 1..Len(topics.dlq)
<1>1. IsASequence(topics["dlq"])
  BY DEF TopicsOK, Topics
<1> QED BY <1>1, TopicLengths, SequenceIsAFunction

\* A letter has each of our headers once, and they name the message it was made from, which
\* was there before it: letters of letters lead back to what was published.
THEOREM OriginsAreKept == DeliverySpec => []OriginIsKept
<1>1. DeliveryInv => OriginIsKept
  <2> SUFFICES ASSUME DeliveryInv, NEW i \in DOMAIN topics.dlq
               PROVE  /\ \A name \in {"original.topic", "original.offset", "error.attempts"} :
                           Cardinality(Named(topics.dlq[i].headers, <<"dlq", name>>)) = 1
                      /\ Told(i, "original.topic") = "dlq" => Told(i, "original.offset") < i
                      /\ topics[Told(i, "original.topic")][Told(i, "original.offset")].payload
                           = topics.dlq[i].payload
    BY Zenon DEF OriginIsKept
  <2>1. TopicsOK(topics) /\ i \in 1..Len(topics.dlq)
    BY DomainOfLetters DEF DeliveryInv
  <2>2. PICK topic, offset :
          /\ topic = "dlq" => offset < i
          /\ HasOurHeaders(topics.dlq[i].headers, topic, offset)
          /\ topics.dlq[i].payload = topics[topic][offset].payload
    BY <2>1, LettersAreLetters
  <2>3. Told(i, "original.topic") = topic /\ Told(i, "original.offset") = offset
    BY <2>2, ToldByHeaders
  <2>4. \A name \in {"original.topic", "original.offset", "error.attempts"} :
           Cardinality(Named(topics.dlq[i].headers, <<"dlq", name>>)) = 1
    BY <2>2, FS_Singleton DEF HasOurHeaders
  <2> QED BY <2>2, <2>3, <2>4
<1> QED BY <1>1, DeliveryInvariant, PTL

------------------------------------------------------------------------------
(* What is counted *)

\* The messages that have letters are settled, those counted as sent among them.
Done == {<<s.topic, s.offset>> : s \in settled}
OriginsInv ==
  /\ IsFiniteSet(Origins) /\ Origins \subseteq Done
  /\ messages_dlq <= Cardinality(Origins) /\ Cardinality(Origins) <= messages_dlq + dlq_failures

LEMMA OriginsInitially == DeliveryInit => OriginsInv
<1> SUFFICES ASSUME DeliveryInit PROVE OriginsInv
  OBVIOUS
<1>1. topics.dlq = <<>> /\ messages_dlq = 0 /\ dlq_failures = 0
  BY DEF DeliveryInit
<1>2. DOMAIN topics.dlq = {}
  BY <1>1
<1>3. Origins = {}
  BY <1>2 DEF Origins
<1> QED BY <1>1, <1>3, FS_EmptySet DEF OriginsInv

\* A send adds the message of its worker to those that have letters, or nothing.
LEMMA OriginsAfterSend ==
  ASSUME DeliveryInv, NEW w \in Workers, NEW copies \in 0..2, pc[w] = "dead_letter", Written(Dead(w), copies)
  PROVE  Origins' = (IF copies > 0 THEN Origins \cup {message[w]} ELSE Origins)
<1> DEFINE k == Len(topics.dlq)
<1>1. /\ TopicsOK(topics) /\ TopicsOK(topics') /\ Len(topics'.dlq) = k + copies /\ k \in Nat
      /\ \A i \in 1..k : topics'.dlq[i] = topics.dlq[i]
      /\ \A i \in 1..Len(topics'.dlq) : i > k => topics'.dlq[i] = Dead(w)
      /\ HasOurHeaders(Dead(w).headers, message[w][1], message[w][2])
      /\ message[w] \in Topics \X Nat
  BY LetterOfMessage, TopicLengths DEF Grows, DeliveryInv, DeliveryTypes
<1>2. DOMAIN topics.dlq = 1..k /\ DOMAIN topics'.dlq = 1..(k + copies)
  <2>1. (DOMAIN topics.dlq = 1..Len(topics.dlq))'
    BY <1>1, DomainOfLetters
  <2> QED BY <1>1, <2>1, DomainOfLetters
<1> HIDE DEF k
<1>3. \A i \in 1..k : /\ i \in 1..(k + copies)
                      /\ Told(i, "original.topic")' = Told(i, "original.topic")
                      /\ Told(i, "original.offset")' = Told(i, "original.offset")
  <2> TAKE i \in 1..k
  <2>1. topics'.dlq[i] = topics.dlq[i]
    BY <1>1
  <2>2. i \in 1..(k + copies)
    BY <1>1
  <2> QED BY <2>1, <2>2, Zenon DEF Told
<1>4. \A i \in 1..(k + copies) : i > k =>
        Told(i, "original.topic")' = message[w][1] /\ Told(i, "original.offset")' = message[w][2]
  <2> SUFFICES ASSUME NEW i \in 1..(k + copies), i > k
               PROVE  Told(i, "original.topic")' = message[w][1] /\ Told(i, "original.offset")' = message[w][2]
    OBVIOUS
  <2>1. PICK headers, topic, offset : headers = Dead(w).headers /\ topic = message[w][1] /\ offset = message[w][2]
    OBVIOUS
  <2>2. topics'.dlq[i].headers = headers /\ HasOurHeaders(headers, topic, offset)
    BY <1>1, <2>1
  <2>3. HasOurHeaders(topics'.dlq[i].headers, topic, offset)
    BY <2>2
  <2>4. (CHOOSE j \in {1} : TRUE) = 1 /\ (CHOOSE j \in {2} : TRUE) = 2
    OBVIOUS
  <2>5. /\ (CHOOSE j \in Named(headers, <<"dlq", "original.topic">>) : TRUE) = 1
        /\ (CHOOSE j \in Named(headers, <<"dlq", "original.offset">>) : TRUE) = 2
    BY <2>2, <2>4 DEF HasOurHeaders
  <2>6. Told(i, "original.topic")' = topic /\ Told(i, "original.offset")' = offset
    BY <2>2, <2>5 DEF Told, Header, HasOurHeaders
  <2> QED BY <2>1, <2>6
<1>5. message[w] = <<message[w][1], message[w][2]>>
  BY <1>1
<1>6. Origins = {<<Told(i, "original.topic"), Told(i, "original.offset")>> : i \in 1..k}
  BY <1>2 DEF Origins
<1>7. Origins' = {<<Told(i, "original.topic")', Told(i, "original.offset")'>> : i \in 1..(k + copies)}
  BY <1>2 DEF Origins
<1>8. \A i \in 1..(k + copies) : i \in 1..k \/ i > k
  BY <1>1
<1>9. CASE copies > 0
  <2>1. k + copies \in 1..(k + copies) /\ k + copies > k
    BY <1>1, <1>9
  <2> DEFINE was(i) == <<Told(i, "original.topic"), Told(i, "original.offset")>>
             is(i) == <<Told(i, "original.topic")', Told(i, "original.offset")'>>
  <2>2. Origins = {was(i) : i \in 1..k} /\ Origins' = {is(i) : i \in 1..(k + copies)}
    BY <1>6, <1>7
  <2>3. \A i \in 1..k : i \in 1..(k + copies) /\ is(i) = was(i)
    BY <1>3
  <2>4. \A i \in 1..(k + copies) : i > k => is(i) = message[w]
    BY <1>4, <1>5
  <2> HIDE DEF was, is
  <2>5. Origins' = Origins \cup {message[w]}
    BY <1>8, <2>1, <2>2, <2>3, <2>4
  <2> QED BY <1>9, <2>5
<1>10. CASE ~(copies > 0)
  <2>1. k + copies = k
    BY <1>1, <1>10
  <2> QED BY <1>3, <1>6, <1>7, <1>10, <2>1
<1> QED BY <1>9, <1>10

LEMMA OriginsStep == DeliveryInv /\ CallsInv /\ OriginsInv /\ [DeliveryNext]_delivery => OriginsInv'
<1> SUFFICES ASSUME DeliveryInv, CallsInv, OriginsInv, [DeliveryNext]_delivery PROVE OriginsInv'
  OBVIOUS
<1>1. /\ IsFiniteSet(Origins) /\ Origins \subseteq Done /\ Cardinality(Origins) \in Nat
      /\ messages_dlq <= Cardinality(Origins) /\ Cardinality(Origins) <= messages_dlq + dlq_failures
      /\ messages_dlq \in Nat /\ dlq_failures \in Nat /\ message \in [Workers -> Topics \X Nat]
  BY FS_CardinalityType DEF OriginsInv, DeliveryInv, DeliveryTypes
<1>2. ASSUME UNCHANGED <<topics, messages_dlq, dlq_failures>>, settled \subseteq settled' PROVE OriginsInv'
  <2>1. Origins' = Origins
    BY <1>2 DEF Origins, Told
  <2>2. Done \subseteq Done'
    BY <1>2 DEF Done
  <2> QED BY <1>1, <1>2, <2>1, <2>2 DEF OriginsInv
<1>3. ASSUME NEW w \in Workers, NEW copies \in 0..2, NEW reported \in BOOLEAN, SendMessage(w, copies, reported)
      PROVE  OriginsInv'
  <2>1. /\ pc[w] = "dead_letter" /\ (reported => copies > 0) /\ Written(Dead(w), copies)
        /\ IF reported THEN messages_dlq' = messages_dlq + 1 /\ dlq_failures' = dlq_failures
           ELSE dlq_failures' = dlq_failures + 1 /\ messages_dlq' = messages_dlq
    BY <1>3 DEF SendMessage, At
  <2>2. Done' = Done \cup {message[w]}
    <3>1. PICK x : /\ x.topic = message[w][1] /\ x.offset = message[w][2] /\ settled' = settled \cup {x}
      <4>1. PICK how : Settle(w, how)
        BY <1>3 DEF SendMessage
      <4>2. PICK x : x = [topic |-> message[w][1], offset |-> message[w][2], how |-> how,
                          attempts |-> attempt[w], tries |-> tries[w]]
        OBVIOUS
      <4> QED BY <4>1, <4>2 DEF Settle
    <3>2. <<x.topic, x.offset>> = message[w]
      BY <1>1, <3>1
    <3> QED BY <3>1, <3>2 DEF Done
  <2>3. message[w] \notin Origins
    BY <1>1, <2>1 DEF Done, CallsInv, Apart, Busy
  <2>4. CASE copies > 0
    <3>1. Origins' = Origins \cup {message[w]}
      BY <2>1, <2>4, OriginsAfterSend
    <3>2. IsFiniteSet(Origins') /\ Cardinality(Origins') = Cardinality(Origins) + 1
      BY <1>1, <2>3, <3>1, FS_AddElement
    <3>3. PICK n, m : n = Cardinality(Origins) /\ m = Cardinality(Origins') /\ n \in Nat /\ m = n + 1
      BY <1>1, <3>2
    <3>4. messages_dlq' <= m /\ m <= messages_dlq' + dlq_failures'
      BY <1>1, <2>1, <3>3
    <3> QED BY <1>1, <2>2, <3>1, <3>2, <3>3, <3>4 DEF OriginsInv
  <2>5. CASE ~(copies > 0)
    <3>1. Origins' = Origins
      BY <2>1, <2>5, OriginsAfterSend
    <3>2. messages_dlq' = messages_dlq /\ dlq_failures' = dlq_failures + 1
      BY <2>1, <2>5
    <3>3. Origins' \subseteq Done'
      BY <1>1, <2>2, <3>1
    <3> QED BY <1>1, <3>1, <3>2, <3>3 DEF OriginsInv
  <2> QED BY <2>4, <2>5
<1>4. CASE UNCHANGED delivery \/ Reads \/ \E w \in Workers : \E m \in queued : Take(w, m)
  BY <1>2, <1>4 DEF delivery, counters, Reads, Count, Lose, Take
<1>5. ASSUME NEW w \in Workers, Work(w), ~\E copies \in 0..2, reported \in BOOLEAN : SendMessage(w, copies, reported)
      PROVE  OriginsInv'
  <2>1. UNCHANGED <<topics, messages_dlq, dlq_failures>> /\ settled \subseteq settled'
    BY <1>5 DEF Work, Succeed, Wake, OnSuccess, OnFailure, Retry, RetryPanics, Fail, Try, Settle, counters
  <2> QED BY <1>2, <2>1
<1> QED BY <1>3, <1>4, <1>5, AnyStep

LEMMA OriginsInvariant == DeliverySpec => []OriginsInv
BY OriginsInitially, OriginsStep, DeliveryInvariant, CallsInvariant, PTL DEF DeliverySpec

\* The counters of the consumer agree with each other, with the messages on their way, lost and
\* with the workers, and with the messages that have letters in the dead letter topic.
THEOREM CountersAlwaysAgree == DeliverySpec => []CountersAgree
<1>1. DeliveryInv /\ OriginsInv => CountersAgree
  <2> SUFFICES ASSUME DeliveryInv, OriginsInv PROVE CountersAgree
    OBVIOUS
  <2>1. {w \in Workers : pc[w] \notin {"idle", "dead_letter"}} = Those(pc, AtWork)
    BY DEF DeliveryInv, DeliveryTypes, Those, AtWork
  <2>2. /\ Cardinality(Those(pc, Sending)) \in Nat
        /\ messages_failed \in Nat /\ messages_dlq \in Nat /\ dlq_failures \in Nat
    BY ThoseAreFinite DEF DeliveryInv, DeliveryTypes
  <2>3. /\ messages_consumed = messages_processed + messages_failed + Cardinality(Those(pc, AtWork))
                               + Cardinality(queued) + Cardinality(lost)
        /\ messages_dlq + dlq_failures <= messages_failed
    BY <2>2 DEF DeliveryInv, CountersOK
  <2> QED BY <2>1, <2>3 DEF CountersAgree, OriginsInv
<1> QED BY <1>1, DeliveryInvariant, OriginsInvariant, PTL

------------------------------------------------------------------------------
(* The locks of the metrics *)

PlacesOf(t) ==
  {"idle", "done"}
  \cup {place \in {"set_offset", "set_mark", "marked", "known"} : t \in Updaters}
  \cup {place \in {"lag", "offset"} : t \in Exporters}
  \cup {place \in {"reset_lag", "reset_offset", "reset_mark"} : t \in Resetters}

\* The maps that a thread at a place has locked to read, and may have locked to write.
ReadsOf(t, place) ==
  {m \in Maps :
     \/ t \in Exporters /\ \/ m = "partition_lag" /\ place \in {"lag", "offset", "done"}
                           \/ m = "last_offset" /\ place \in {"offset", "done"}
                           \/ m = "high_water_mark" /\ place = "done"
     \/ t \in Updaters /\ m = "last_offset" /\ place \in {"known", "done"}}
WritesOf(t, place) ==
  {m \in Maps :
     \/ m = "partition_lag" /\ place \in {"known", "reset_lag"}
     \/ m = "last_offset" /\ place \in {"set_offset", "reset_offset"}
     \/ m = "high_water_mark" /\ place \in {"set_mark", "reset_mark"}
     \/ m = "high_water_mark" /\ t \in Updaters /\ place \in {"marked", "known", "done"}}

\* A thread has the locks of its place.  A writer that only waits has its claim; one that set
\* the mark keeps its lock.
ThreadOK(t, place, rs, ws) ==
  /\ place \in PlacesOf(t)
  /\ \A m \in Maps : /\ t \in rs[m] <=> m \in ReadsOf(t, place)
                     /\ t \in ws[m] => m \in WritesOf(t, place)
  /\ t \in Updaters /\ place \in {"marked", "known", "done"} => t \in ws["high_water_mark"]

OfMaps(f) == f = [m \in Maps |-> f[m]]

LocksInv ==
  /\ thread_pc = [t \in Threads |-> thread_pc[t]]
  /\ readers \in [Maps -> SUBSET Threads] /\ writer \in [Maps -> SUBSET Threads]
  /\ OfMaps(map) /\ shown = [t \in Exporters |-> shown[t]] /\ \A t \in Exporters : OfMaps(shown[t])
  /\ \A t \in Threads : ThreadOK(t, thread_pc[t], readers, writer)
  /\ \A m \in Maps : \A s, t \in writer[m] : s = t
  /\ \A t \in Exporters, m \in Maps : t \in readers[m] => shown[t][m] = map[m]

LEMMA AskedFor ==
  /\ DOMAIN Asked = {"set_offset", "set_mark", "known", "reset_lag", "reset_offset", "reset_mark"}
  /\ Asked["known"] = "partition_lag" /\ Asked["reset_lag"] = "partition_lag"
  /\ Asked["set_offset"] = "last_offset" /\ Asked["reset_offset"] = "last_offset"
  /\ Asked["set_mark"] = "high_water_mark" /\ Asked["reset_mark"] = "high_water_mark"
BY DEF Asked

LEMMA LocksInitially == MetricsInit => LocksInv
<1> SUFFICES ASSUME MetricsInit PROVE LocksInv
  OBVIOUS
<1>1. /\ thread_pc = [t \in Threads |-> "idle"]
      /\ map = [m \in Maps |-> [p \in Partitions |-> None]] /\ shown = [t \in Exporters |-> map]
      /\ readers = [m \in Maps |-> {}] /\ writer = [m \in Maps |-> {}]
  BY DEF MetricsInit
<1>2. OfMaps(map) /\ \A t \in Exporters : OfMaps(shown[t])
  BY <1>1 DEF OfMaps
<1>3. \A t \in Threads : ThreadOK(t, "idle", readers, writer)
  BY <1>1 DEF ThreadOK, PlacesOf, ReadsOf, Maps
<1> QED BY <1>1, <1>2, <1>3 DEF LocksInv

\* A thread takes and leaves no locks but its own.
Mine(t) ==
  /\ readers' \in [Maps -> SUBSET Threads] /\ writer' \in [Maps -> SUBSET Threads]
  /\ \A m \in Maps : /\ readers'[m] \ {t} = readers[m] \ {t} /\ writer'[m] \ {t} = writer[m] \ {t}
                     /\ t \in writer'[m] /\ t \notin writer[m] => writer[m] = {}
  /\ \E place : thread_pc' = [thread_pc EXCEPT ![t] = place] /\ ThreadOK(t, place, readers', writer')

\* A map that someone reads stays as it is.
Looks(t) ==
  /\ OfMaps(map') /\ shown' = [e \in Exporters |-> shown'[e]] /\ \A e \in Exporters : OfMaps(shown'[e])
  /\ \A m \in Maps : map'[m] # map[m] => readers[m] = {} /\ readers'[m] = {}
  /\ \A e \in Exporters : e # t => shown'[e] = shown[e]
  /\ t \in Exporters => \A m \in Maps : t \in readers'[m] => shown'[t][m] = map[m]

LEMMA LocksStep ==
  ASSUME LocksInv, NEW t \in Threads, Mine(t), Looks(t)
  PROVE  LocksInv'
<1>1. PICK place : thread_pc' = [thread_pc EXCEPT ![t] = place] /\ ThreadOK(t, place, readers', writer')
  BY DEF Mine
<1>2. thread_pc' = [s \in Threads |-> IF s = t THEN place ELSE thread_pc[s]]
  BY <1>1 DEF LocksInv
<1>3. ASSUME NEW s \in Threads PROVE ThreadOK(s, thread_pc'[s], readers', writer')
  <2>1. CASE s = t
    BY <1>1, <1>2, <2>1
  <2>2. CASE s # t
    <3>1. ThreadOK(s, thread_pc[s], readers, writer) /\ thread_pc'[s] = thread_pc[s]
      BY <1>2, <2>2 DEF LocksInv
    <3>2. \A m \in Maps : (s \in readers'[m] <=> s \in readers[m]) /\ (s \in writer'[m] <=> s \in writer[m])
      BY <2>2 DEF Mine
    <3> QED BY <3>1, <3>2 DEF ThreadOK, Maps
  <2> QED BY <2>1, <2>2
<1>4. ASSUME NEW m \in Maps, NEW r \in writer'[m], NEW s \in writer'[m] PROVE r = s
  BY <1>4 DEF LocksInv, Mine
<1>5. ASSUME NEW e \in Exporters, NEW m \in Maps, e \in readers'[m] PROVE shown'[e][m] = map'[m]
  <2>1. map'[m] = map[m]
    BY <1>5 DEF Looks
  <2>2. CASE e = t
    BY <1>5, <2>1, <2>2 DEF Looks
  <2>3. CASE e # t
    BY <1>5, <2>1, <2>3 DEF Looks, Mine, LocksInv
  <2> QED BY <2>2, <2>3
<1>6. thread_pc' = [s \in Threads |-> thread_pc'[s]]
  BY <1>2
<1> QED BY <1>3, <1>4, <1>5, <1>6 DEF LocksInv, Mine, Looks
\* The parts of a step that only moves a thread, with or without locks.
LEMMA NoMapMoves ==
  ASSUME LocksInv, NEW t \in Threads, t \notin Exporters, map' = map, shown' = shown
  PROVE  Looks(t)
BY DEF Looks, LocksInv

\* A thread at a place knows what it has.
LEMMA Knows ==
  ASSUME LocksInv, NEW t \in Threads
  PROVE  /\ ThreadOK(t, thread_pc[t], readers, writer) /\ t \in Updaters \cup Exporters \cup Resetters
         /\ t \in Updaters => t \notin Exporters /\ t \notin Resetters
         /\ t \in Exporters => t \notin Resetters
BY MetricsAssumption DEF LocksInv, Threads

LEMMA MapsDiffer ==
  /\ "partition_lag" \in Maps /\ "last_offset" \in Maps /\ "high_water_mark" \in Maps
  /\ \A m \in Maps : m \in {"partition_lag", "last_offset", "high_water_mark"}
BY DEF Maps

\* Updaters, of which only those that write need the lock.
LEMMA UpdaterStep ==
  ASSUME LocksInv, NEW t \in Updaters,
         Update(t) \/ SetLastOffset(t) \/ SetHighWaterMark(t) \/ ReadLast(t) \/ SetLag(t)
  PROVE  Mine(t) /\ Looks(t)
<1>0. /\ t \in Threads /\ t \notin Exporters /\ t \notin Resetters
      /\ ThreadOK(t, thread_pc[t], readers, writer)
      /\ readers \in [Maps -> SUBSET Threads] /\ writer \in [Maps -> SUBSET Threads] /\ OfMaps(map)
      /\ shown = [e \in Exporters |-> shown[e]] /\ \A e \in Exporters : OfMaps(shown[e])
  BY Knows DEF LocksInv, Threads
<1>1. CASE Update(t)
  <2>1. /\ thread_pc[t] = "idle" /\ UNCHANGED <<map, shown, readers, writer>>
        /\ thread_pc' = [thread_pc EXCEPT ![t] = "set_offset"] \/ thread_pc' = [thread_pc EXCEPT ![t] = "set_mark"]
    BY <1>1 DEF Update, Begin, Go, locks
  <2>2. ThreadOK(t, "set_offset", readers, writer) /\ ThreadOK(t, "set_mark", readers, writer)
    BY <1>0, <2>1, MapsDiffer DEF ThreadOK, PlacesOf, ReadsOf, WritesOf
  <2>3. Mine(t)
    BY <1>0, <2>1, <2>2 DEF Mine
  <2> QED BY <1>0, <2>1, <2>3, NoMapMoves
<1>2. CASE SetLastOffset(t)
  <2>1. /\ thread_pc[t] = "set_offset" /\ thread_pc' = [thread_pc EXCEPT ![t] = "idle"]
        /\ readers["last_offset"] = {} /\ writer["last_offset"] \subseteq {t}
        /\ map' = [map EXCEPT !["last_offset"][arg[t][1]] = arg[t][2]]
        /\ writer' = [writer EXCEPT !["last_offset"] = @ \ {t}] /\ UNCHANGED <<readers, shown>>
    BY <1>2 DEF SetLastOffset, Go, CanWrite, Put, Unlock
  <2>2. ThreadOK(t, "idle", readers', writer')
    BY <1>0, <2>1, MapsDiffer DEF ThreadOK, PlacesOf, ReadsOf, WritesOf
  <2>3. Mine(t)
    BY <1>0, <2>1, <2>2 DEF Mine
  <2>4. Looks(t)
    BY <1>0, <2>1 DEF Looks, OfMaps
  <2> QED BY <2>3, <2>4
<1>3. CASE SetHighWaterMark(t)
  <2>1. /\ thread_pc[t] = "set_mark" /\ thread_pc' = [thread_pc EXCEPT ![t] = "marked"]
        /\ readers["high_water_mark"] = {} /\ writer["high_water_mark"] \subseteq {t}
        /\ map' = [map EXCEPT !["high_water_mark"][arg[t][1]] = arg[t][2]]
        /\ writer' = [writer EXCEPT !["high_water_mark"] = {t}] /\ UNCHANGED <<readers, shown>>
    BY <1>3 DEF SetHighWaterMark, Go, CanWrite, Put
  <2>2. ThreadOK(t, "marked", readers', writer')
    BY <1>0, <2>1, MapsDiffer DEF ThreadOK, PlacesOf, ReadsOf, WritesOf
  <2>3. Mine(t)
    <3>1. \A m \in Maps : writer'[m] = IF m = "high_water_mark" THEN {t} ELSE writer[m]
      BY <1>0, <2>1
    <3>2. writer["high_water_mark"] \ {t} = {t} \ {t}
      BY <2>1
    <3>3. t \notin writer["high_water_mark"] => writer["high_water_mark"] = {}
      BY <2>1
    <3>4. \A m \in Maps : /\ writer'[m] \ {t} = writer[m] \ {t}
                         /\ t \in writer'[m] /\ t \notin writer[m] => writer[m] = {}
      BY <3>1, <3>2, <3>3
    <3>5. writer' \in [Maps -> SUBSET Threads]
      BY <1>0, <2>1
    <3> QED BY <1>0, <2>1, <2>2, <3>4, <3>5 DEF Mine
  <2>4. Looks(t)
    BY <1>0, <2>1 DEF Looks, OfMaps
  <2> QED BY <2>3, <2>4
<1>4. CASE ReadLast(t)
  <2>1. /\ thread_pc[t] = "marked" /\ UNCHANGED <<map, writer, shown>>
        /\ \E place \in {"done", "known"} : thread_pc' = [thread_pc EXCEPT ![t] = place]
        /\ readers' = [readers EXCEPT !["last_offset"] = @ \cup {t}]
    BY <1>4 DEF ReadLast, Go
  <2>2. ThreadOK(t, "known", readers', writer') /\ ThreadOK(t, "done", readers', writer')
    BY <1>0, <2>1, MapsDiffer DEF ThreadOK, PlacesOf, ReadsOf, WritesOf
  <2>3. Mine(t)
    BY <1>0, <2>1, <2>2 DEF Mine
  <2> QED BY <1>0, <2>1, <2>3, NoMapMoves
<1>5. CASE SetLag(t)
  <2>1. /\ thread_pc[t] = "known" /\ thread_pc' = [thread_pc EXCEPT ![t] = "done"]
        /\ readers["partition_lag"] = {} /\ writer["partition_lag"] \subseteq {t}
        /\ map' = [map EXCEPT !["partition_lag"][arg[t][1]] = arg[t][2]]
        /\ writer' = [writer EXCEPT !["partition_lag"] = @ \ {t}] /\ UNCHANGED <<readers, shown>>
    BY <1>5 DEF SetLag, Go, CanWrite, Put, Unlock
  <2>2. ThreadOK(t, "done", readers', writer')
    BY <1>0, <2>1, MapsDiffer DEF ThreadOK, PlacesOf, ReadsOf, WritesOf
  <2>3. Mine(t)
    BY <1>0, <2>1, <2>2 DEF Mine
  <2>4. Looks(t)
    BY <1>0, <2>1 DEF Looks, OfMaps
  <2> QED BY <2>3, <2>4
<1> QED BY <1>1, <1>2, <1>3, <1>4, <1>5
LEMMA ExporterStep ==
  ASSUME LocksInv, NEW t \in Exporters,
         \/ Export(t, "partition_lag", "idle", "lag") \/ Export(t, "last_offset", "lag", "offset")
         \/ Export(t, "high_water_mark", "offset", "done")
  PROVE  Mine(t) /\ Looks(t)
<1>0. /\ t \in Threads /\ t \notin Updaters /\ t \notin Resetters
      /\ ThreadOK(t, thread_pc[t], readers, writer)
      /\ readers \in [Maps -> SUBSET Threads] /\ writer \in [Maps -> SUBSET Threads] /\ OfMaps(map)
      /\ shown = [e \in Exporters |-> shown[e]] /\ \A e \in Exporters : OfMaps(shown[e])
      /\ \A m \in Maps : t \in readers[m] => shown[t][m] = map[m]
  BY Knows DEF LocksInv, Threads
<1>1. PICK m \in Maps, from \in {"idle", "lag", "offset"}, to \in {"lag", "offset", "done"} :
        /\ Export(t, m, from, to)
        /\ \/ m = "partition_lag" /\ from = "idle" /\ to = "lag"
           \/ m = "last_offset" /\ from = "lag" /\ to = "offset"
           \/ m = "high_water_mark" /\ from = "offset" /\ to = "done"
  BY MapsDiffer
<1>2. /\ thread_pc[t] = from /\ thread_pc' = [thread_pc EXCEPT ![t] = to] /\ UNCHANGED <<map, writer>>
      /\ readers' = [readers EXCEPT ![m] = @ \cup {t}]
      /\ shown' = [shown EXCEPT ![t] = [n \in Maps |-> IF n = m \/ t \in readers[n] THEN map[n] ELSE shown[t][n]]]
  BY <1>0, <1>1 DEF Export, Begin, Go
<1>3. ThreadOK(t, to, readers', writer')
  BY <1>0, <1>1, <1>2, MapsDiffer DEF ThreadOK, PlacesOf, ReadsOf, WritesOf
<1>4. Mine(t)
  BY <1>0, <1>2, <1>3 DEF Mine
<1>5. Looks(t)
  <2>1. shown'[t] = [n \in Maps |-> IF n = m \/ t \in readers[n] THEN map[n] ELSE shown[t][n]]
    BY <1>0, <1>2
  <2>2. OfMaps(shown'[t]) /\ \A n \in Maps : t \in readers'[n] => shown'[t][n] = map[n]
    BY <1>0, <1>2, <2>1 DEF OfMaps
  <2>3. shown' = [e \in Exporters |-> shown'[e]] /\ \A e \in Exporters : e # t => shown'[e] = shown[e]
    BY <1>0, <1>2
  <2>4. \A e \in Exporters : OfMaps(shown'[e])
    BY <1>0, <2>2, <2>3
  <2> QED BY <1>0, <1>2, <2>2, <2>3, <2>4 DEF Looks
<1> QED BY <1>4, <1>5

LEMMA ResetterStep ==
  ASSUME LocksInv, NEW t \in Resetters,
         \/ ResetDurations(t) \/ ResetMap(t, "partition_lag", "reset_lag", "reset_offset")
         \/ ResetMap(t, "last_offset", "reset_offset", "reset_mark")
         \/ ResetMap(t, "high_water_mark", "reset_mark", "done")
  PROVE  Mine(t) /\ Looks(t)
<1>0. /\ t \in Threads /\ t \notin Updaters /\ t \notin Exporters
      /\ ThreadOK(t, thread_pc[t], readers, writer)
      /\ readers \in [Maps -> SUBSET Threads] /\ writer \in [Maps -> SUBSET Threads] /\ OfMaps(map)
      /\ shown = [e \in Exporters |-> shown[e]] /\ \A e \in Exporters : OfMaps(shown[e])
  BY Knows DEF LocksInv, Threads
<1>1. CASE ResetDurations(t)
  <2>1. /\ thread_pc[t] = "idle" /\ thread_pc' = [thread_pc EXCEPT ![t] = "reset_lag"]
        /\ UNCHANGED <<map, shown, readers, writer>>
    BY <1>1 DEF ResetDurations, Begin, Go, locks
  <2>2. ThreadOK(t, "reset_lag", readers, writer)
    BY <1>0, <2>1, MapsDiffer DEF ThreadOK, PlacesOf, ReadsOf, WritesOf
  <2>3. Mine(t)
    BY <1>0, <2>1, <2>2 DEF Mine
  <2> QED BY <1>0, <2>1, <2>3, NoMapMoves
<1>2. CASE ~ResetDurations(t)
  <2>1. PICK m \in Maps, from \in {"reset_lag", "reset_offset", "reset_mark"},
             to \in {"reset_offset", "reset_mark", "done"} :
          /\ ResetMap(t, m, from, to)
          /\ \/ m = "partition_lag" /\ from = "reset_lag" /\ to = "reset_offset"
             \/ m = "last_offset" /\ from = "reset_offset" /\ to = "reset_mark"
             \/ m = "high_water_mark" /\ from = "reset_mark" /\ to = "done"
    BY <1>2, MapsDiffer
  <2>2. /\ thread_pc[t] = from /\ thread_pc' = [thread_pc EXCEPT ![t] = to]
        /\ readers[m] = {} /\ writer[m] \subseteq {t}
        /\ map' = [map EXCEPT ![m] = [p \in Partitions |-> None]]
        /\ writer' = [writer EXCEPT ![m] = @ \ {t}] /\ UNCHANGED <<readers, shown>>
    BY <2>1 DEF ResetMap, Go, CanWrite, Unlock
  <2>3. ThreadOK(t, to, readers', writer')
    BY <1>0, <2>1, <2>2, MapsDiffer DEF ThreadOK, PlacesOf, ReadsOf, WritesOf
  <2>4. Mine(t)
    BY <1>0, <2>2, <2>3 DEF Mine
  <2>5. Looks(t)
    BY <1>0, <2>2 DEF Looks, OfMaps
  <2> QED BY <2>4, <2>5
<1> QED BY <1>1, <1>2

LEMMA AnyThreadStep ==
  ASSUME LocksInv, NEW t \in Threads, Claim(t) \/ ReleaseAll(t)
  PROVE  Mine(t) /\ Looks(t)
<1>0. /\ ThreadOK(t, thread_pc[t], readers, writer)
      /\ readers \in [Maps -> SUBSET Threads] /\ writer \in [Maps -> SUBSET Threads] /\ OfMaps(map)
      /\ shown = [e \in Exporters |-> shown[e]] /\ \A e \in Exporters : OfMaps(shown[e])
      /\ thread_pc = [s \in Threads |-> thread_pc[s]]
      /\ \A m \in Maps : t \in Exporters /\ t \in readers[m] => shown[t][m] = map[m]
  BY Knows DEF LocksInv
<1>1. CASE Claim(t)
  <2>1. PICK m \in Maps : m = Asked[thread_pc[t]] /\ m \in WritesOf(t, thread_pc[t])
    BY <1>1, AskedFor, MapsDiffer DEF Claim, WritesOf
  <2>2. /\ writer[m] = {} /\ writer' = [writer EXCEPT ![m] = {t}]
        /\ UNCHANGED <<map, shown, readers, thread_pc>>
    BY <1>1, <2>1 DEF Claim
  <2>3. ThreadOK(t, thread_pc[t], readers', writer')
    BY <1>0, <2>1, <2>2, MapsDiffer DEF ThreadOK
  <2>4. thread_pc' = [thread_pc EXCEPT ![t] = thread_pc[t]]
    BY <1>0, <2>2
  <2>5. \A n \in Maps : /\ writer'[n] \ {t} = writer[n] \ {t}
                        /\ t \in writer'[n] /\ t \notin writer[n] => writer[n] = {}
    <3>1. \A n \in Maps : writer'[n] = IF n = m THEN {t} ELSE writer[n]
      BY <1>0, <2>2
    <3>2. writer[m] \ {t} = {t} \ {t}
      BY <2>2
    <3> QED BY <2>2, <3>1, <3>2
  <2>6. Mine(t)
    BY <1>0, <2>2, <2>3, <2>4, <2>5 DEF Mine
  <2>7. Looks(t)
    BY <1>0, <2>2 DEF Looks
  <2> QED BY <2>6, <2>7
<1>2. CASE ReleaseAll(t)
  <2>1. /\ thread_pc[t] = "done" /\ thread_pc' = [thread_pc EXCEPT ![t] = "idle"]
        /\ readers' = [m \in Maps |-> readers[m] \ {t}] /\ writer' = [m \in Maps |-> writer[m] \ {t}]
        /\ UNCHANGED <<map, shown>>
    BY <1>2 DEF ReleaseAll, Go
  <2>2. ThreadOK(t, "idle", readers', writer')
    BY <1>0, <2>1, MapsDiffer DEF ThreadOK, PlacesOf, ReadsOf, WritesOf
  <2>3. Mine(t)
    BY <1>0, <2>1, <2>2 DEF Mine
  <2>4. Looks(t)
    BY <1>0, <2>1 DEF Looks
  <2> QED BY <2>3, <2>4
<1> QED BY <1>1, <1>2

LEMMA LocksInvariant == MetricsSpec => []LocksInv
<1>1. LocksInv /\ [MetricsNext]_metricsVars => LocksInv'
  <2> SUFFICES ASSUME LocksInv, [MetricsNext]_metricsVars PROVE LocksInv'
    OBVIOUS
  <2>1. CASE \E t \in Threads : Thread(t)
    <3>1. PICK t \in Threads : Thread(t)
      BY <2>1
    <3> QED BY <3>1, UpdaterStep, ExporterStep, ResetterStep, AnyThreadStep, LocksStep DEF Thread
  <2>2. CASE UNCHANGED metricsVars \/ \E d \in Durations : Push(d)
    <3>1. UNCHANGED <<map, readers, writer, thread_pc, shown>>
      BY <2>2 DEF metricsVars, locks, Push
    <3> QED BY <3>1 DEF LocksInv, OfMaps
  <2> QED BY <2>1, <2>2 DEF MetricsNext
<1> QED BY <1>1, LocksInitially, PTL DEF MetricsSpec
\* An export shows the three maps as they are at one moment: what it has locked cannot
\* change, and at its end it has locked all three.
THEOREM ExportsAreOneLook == MetricsSpec => []ExportIsOneLook
<1>1. LocksInv => ExportIsOneLook
  <2> SUFFICES ASSUME LocksInv, NEW t \in Exporters, thread_pc[t] = "done" PROVE shown[t] = map
    BY DEF ExportIsOneLook
  <2>1. t \in Threads /\ ThreadOK(t, "done", readers, writer)
    BY DEF LocksInv, Threads
  <2>2. \A m \in Maps : t \in readers[m]
    BY <2>1, MapsDiffer DEF ThreadOK, ReadsOf
  <2>3. OfMaps(map) /\ OfMaps(shown[t]) /\ \A m \in Maps : shown[t][m] = map[m]
    BY <2>2 DEF LocksInv
  <2> QED BY <2>3 DEF OfMaps
<1> QED BY <1>1, LocksInvariant, PTL

\* When all threads at work wait, an exporter has the lag and an updater the marks.
THEOREM OnlyOneDeadlock == MetricsSpec => []OnlyKnownDeadlock
<1>1. LocksInv => OnlyKnownDeadlock
  <2> SUFFICES ASSUME LocksInv, NEW s \in Threads, thread_pc[s] # "idle",
                      \A t \in Threads : thread_pc[t] # "idle" => Waits(t)
               PROVE  \E e \in Exporters, u \in Updaters :
                        /\ e \in readers.partition_lag /\ thread_pc[e] \in {"lag", "offset"}
                        /\ u \in writer.high_water_mark /\ thread_pc[u] \in {"marked", "known"}
    BY DEF OnlyKnownDeadlock
  <2>1. /\ readers \in [Maps -> SUBSET Threads] /\ writer \in [Maps -> SUBSET Threads]
        /\ \A t \in Threads : ThreadOK(t, thread_pc[t], readers, writer)
        /\ \A m \in Maps : \A t, v \in writer[m] : t = v
    BY DEF LocksInv
  <2>2. \A t \in Threads : thread_pc[t] # "done"
    BY AskedFor DEF Waits
  \* Those that hold a lock in a state where no one is done.
  <2>3. ASSUME NEW t \in readers["partition_lag"]
        PROVE  t \in Exporters /\ thread_pc[t] \in {"lag", "offset"}
    BY <2>1, <2>2, MapsDiffer DEF ThreadOK, ReadsOf
  <2>4. ASSUME NEW t \in readers["last_offset"]
        PROVE  \/ t \in Exporters /\ thread_pc[t] = "offset"
               \/ t \in Updaters /\ thread_pc[t] = "known"
    BY <2>1, <2>2, MapsDiffer DEF ThreadOK, ReadsOf
  <2>5. readers["high_water_mark"] = {}
    BY <2>1, <2>2, MapsDiffer DEF ThreadOK, ReadsOf
  <2>6. ASSUME NEW t \in Updaters, thread_pc[t] \in {"marked", "known"} PROVE t \in writer["high_water_mark"]
    BY <2>1, <2>6 DEF ThreadOK, Threads
  <2>7. ASSUME NEW t \in Exporters, thread_pc[t] \in {"lag", "offset"} PROVE t \in readers["partition_lag"]
    BY <2>1, <2>7, MapsDiffer DEF ThreadOK, Threads, ReadsOf
  \* A claim of a lock waits for a reader of it.
  <2>8. ASSUME NEW m \in Maps, NEW t \in writer[m], thread_pc[t] \in DOMAIN Asked, Asked[thread_pc[t]] = m
        PROVE  readers[m] # {}
    <3>1. t \in Threads /\ thread_pc[t] # "idle" /\ writer[m] \subseteq {t}
      BY <2>1, <2>8, AskedFor
    <3>2. Waits(t) /\ thread_pc[t] \notin {"marked", "lag", "offset"}
      BY <2>8, <3>1, AskedFor
    <3> QED BY <2>8, <3>1, <3>2 DEF Waits, CanWrite
  <2>9. writer["partition_lag"] # {} => readers["partition_lag"] # {}
    <3> SUFFICES ASSUME NEW t \in writer["partition_lag"] PROVE readers["partition_lag"] # {}
      OBVIOUS
    <3>1. "partition_lag" \in WritesOf(t, thread_pc[t])
      BY <2>1, MapsDiffer DEF ThreadOK
    <3> QED BY <2>8, <3>1, AskedFor, MapsDiffer DEF WritesOf
  <2>10. writer["last_offset"] # {} => readers["last_offset"] # {}
    <3> SUFFICES ASSUME NEW t \in writer["last_offset"] PROVE readers["last_offset"] # {}
      OBVIOUS
    <3>1. "last_offset" \in WritesOf(t, thread_pc[t])
      BY <2>1, MapsDiffer DEF ThreadOK
    <3> QED BY <2>8, <3>1, AskedFor, MapsDiffer DEF WritesOf
  <2>11. ASSUME NEW t \in writer["high_water_mark"]
         PROVE  t \in Updaters /\ thread_pc[t] \in {"marked", "known"}
    <3>1. "high_water_mark" \in WritesOf(t, thread_pc[t])
      BY <2>1, <2>11, MapsDiffer DEF ThreadOK
    <3>2. thread_pc[t] \notin {"set_mark", "reset_mark"}
      BY <2>5, <2>8, <2>11, AskedFor, MapsDiffer
    <3>3. t \in Threads
      BY <2>1, <2>11, MapsDiffer
    <3> QED BY <2>2, <3>1, <3>2, <3>3, MapsDiffer DEF WritesOf
  \* What each waits for leads to an exporter that has the offsets or an updater that knows.
  <2> DEFINE Ahead == \/ \E e \in Exporters : thread_pc[e] = "offset"
                      \/ \E u \in Updaters : thread_pc[u] = "known"
  <2>12. ASSUME NEW t \in Threads, thread_pc[t] \in {"set_offset", "reset_offset", "marked", "lag"} PROVE Ahead
    <3>1. Waits(t)
      BY <2>12
    <3>2. writer["last_offset"] # {} \/ readers["last_offset"] # {}
      BY <2>12, <3>1, AskedFor DEF Waits, CanWrite, CanRead
    <3>3. readers["last_offset"] # {}
      BY <2>10, <3>2
    <3> QED BY <2>4, <3>3
  <2>13. ASSUME NEW t \in Threads, thread_pc[t] \in {"known", "reset_lag"}
         PROVE  \E e \in Exporters : thread_pc[e] \in {"lag", "offset"}
    <3>1. Waits(t)
      BY <2>13
    <3>2. writer["partition_lag"] # {} \/ readers["partition_lag"] # {}
      BY <2>13, <3>1, AskedFor DEF Waits, CanWrite
    <3> QED BY <2>3, <2>9, <3>2
  <2>14. ASSUME NEW t \in Threads, thread_pc[t] \in {"set_mark", "reset_mark", "offset"}
         PROVE  \E u \in Updaters : thread_pc[u] \in {"marked", "known"}
    <3>1. Waits(t)
      BY <2>14
    <3>2. writer["high_water_mark"] # {}
      BY <2>5, <2>14, <3>1, AskedFor DEF Waits, CanWrite, CanRead
    <3> QED BY <2>11, <3>2
  <2>15. Ahead
    <3>1. thread_pc[s] \in PlacesOf(s) /\ thread_pc[s] # "done"
      BY <2>1, <2>2 DEF ThreadOK
    <3>2. thread_pc[s] \in {"set_offset", "reset_offset", "marked", "lag"} \cup {"known", "reset_lag"}
                           \cup {"set_mark", "reset_mark", "offset"}
      BY <3>1 DEF PlacesOf
    <3>3. CASE thread_pc[s] \in {"known", "reset_lag"}
      <4>1. PICK e \in Exporters : thread_pc[e] \in {"lag", "offset"}
        BY <2>13, <3>3
      <4> QED BY <2>12, <4>1 DEF Threads
    <3>4. CASE thread_pc[s] \in {"set_mark", "reset_mark", "offset"}
      <4>1. PICK u \in Updaters : thread_pc[u] \in {"marked", "known"}
        BY <2>14, <3>4
      <4> QED BY <2>12, <4>1 DEF Threads
    <3> QED BY <2>12, <3>2, <3>3, <3>4
  <2>16. /\ \E e \in Exporters : thread_pc[e] \in {"lag", "offset"}
         /\ \E u \in Updaters : thread_pc[u] \in {"marked", "known"}
    BY <2>13, <2>14, <2>15 DEF Threads
  <2> QED BY <2>6, <2>7, <2>16
<1> QED BY <1>1, LocksInvariant, PTL
------------------------------------------------------------------------------
(* The circular buffer *)

\* A place that is counted round the buffer.
Around(x) == x % Capacity

\* Where the k-th oldest sample is.
Slot(k) == IF size < Capacity THEN k - 1 ELSE Around(head + k - 1)

\* The samples are the last durations, in their order, from the head on; as long as there is
\* room the head is where they end.
BufferInv ==
  /\ buffer = [i \in 0..(Capacity - 1) |-> buffer[i]] /\ head \in 0..(Capacity - 1)
  /\ recent \in Seq(Durations)
  /\ size = (IF Len(recent) < Capacity THEN Len(recent) ELSE Capacity)
  /\ size < Capacity => head = size
  /\ \A k \in 1..size : buffer[Slot(k)] = recent[Len(recent) - size + k]

LEMMA Wraps ==
  ASSUME NEW x \in Int, 0 <= x, x < Capacity + Capacity
  PROVE  Around(x) = IF x < Capacity THEN x ELSE x - Capacity
<1>1. Capacity \in Nat \ {0}
  BY MetricsAssumption
<1>2. CASE x < Capacity
  BY <1>1, <1>2 DEF Around
<1>3. CASE x >= Capacity
  BY <1>1, <1>3 DEF Around
<1> QED BY <1>1, <1>2, <1>3

LEMMA BufferInitially == MetricsInit => BufferInv
<1> SUFFICES ASSUME MetricsInit PROVE BufferInv
  OBVIOUS
<1> QED BY MetricsAssumption DEF MetricsInit, BufferInv

\* push(): the new sample goes where the next is expected, or over the oldest.
LEMMA PushStep == ASSUME BufferInv, NEW d \in Durations, Push(d) PROVE BufferInv'
<1> DEFINE n == Len(recent)
<1>1. /\ buffer' = [buffer EXCEPT ![head] = d] /\ recent' = Append(recent, d)
      /\ size' = (IF size < Capacity THEN size + 1 ELSE size)
  BY DEF Push
<1>2. /\ Capacity \in Nat \ {0} /\ head \in 0..(Capacity - 1) /\ recent \in Seq(Durations)
      /\ buffer = [i \in 0..(Capacity - 1) |-> buffer[i]] /\ n \in Nat /\ size \in 0..Capacity
      /\ size = (IF n < Capacity THEN n ELSE Capacity) /\ (size < Capacity => head = size)
  BY MetricsAssumption DEF BufferInv
<1>3. /\ recent' \in Seq(Durations) /\ Len(recent') = n + 1 /\ recent'[n + 1] = d
      /\ \A j \in 1..n : recent'[j] = recent[j]
  BY <1>1, <1>2
<1>4. head' = IF head + 1 < Capacity THEN head + 1 ELSE 0
  <2>1. head' = Around(head + 1)
    BY DEF Push, Around
  <2>2. head + 1 \in Int /\ 0 <= head + 1 /\ head + 1 < Capacity + Capacity /\ head + 1 <= Capacity
    BY <1>2
  <2>3. Around(head + 1) = IF head + 1 < Capacity THEN head + 1 ELSE head + 1 - Capacity
    BY <1>2, <2>2, Wraps
  <2> QED BY <1>2, <2>1, <2>2, <2>3
<1>5. /\ buffer' = [i \in 0..(Capacity - 1) |-> buffer'[i]] /\ buffer'[head] = d
      /\ \A i \in 0..(Capacity - 1) : i # head => buffer'[i] = buffer[i]
  BY <1>1, <1>2
<1>6. size' = (IF n + 1 < Capacity THEN n + 1 ELSE Capacity) /\ (size' < Capacity => head' = size')
  BY <1>1, <1>2, <1>4
<1>7. ASSUME NEW k \in 1..size' PROVE buffer'[Slot(k)'] = recent'[n + 1 - size' + k]
  <2>1. CASE size < Capacity
    <3>1. Slot(k)' = k - 1
      <4>1. CASE size' < Capacity
        BY <4>1 DEF Slot
      <4>2. CASE size' = Capacity
        <5>1. head' = 0
          BY <1>1, <1>2, <1>4, <2>1, <4>2
        <5>2. 0 + k - 1 \in Int /\ 0 <= 0 + k - 1 /\ 0 + k - 1 < Capacity
          BY <1>2, <4>2
        <5>3. Around(0 + k - 1) = k - 1
          BY <1>2, <5>2, Wraps
        <5> QED BY <4>2, <5>1, <5>3, <1>2 DEF Slot
      <4> QED BY <1>1, <1>2, <2>1, <4>1, <4>2
    <3>2. n + 1 - size' + k = k
      BY <1>1, <1>2, <2>1
    <3>3. CASE k = size + 1
      BY <1>2, <1>3, <1>5, <2>1, <3>1, <3>2, <3>3
    <3>4. CASE k \in 1..size
      <4>1. Slot(k) = k - 1 /\ n - size + k = k
        BY <1>2, <2>1 DEF Slot
      <4>2. buffer[k - 1] = recent[k]
        BY <3>4, <4>1 DEF BufferInv
      <4> QED BY <1>2, <1>3, <1>5, <2>1, <3>1, <3>2, <3>4, <4>2
    <3> QED BY <1>1, <1>2, <2>1, <3>3, <3>4
  <2>2. CASE size = Capacity
    <3>1. Slot(k)' = Around(head' + k - 1) /\ k \in 1..Capacity /\ size' = Capacity
      BY <1>1, <1>2, <2>2 DEF Slot
    <3>0. /\ Capacity \in Nat \ {0} /\ head \in 0..(Capacity - 1) /\ n \in Nat /\ Capacity <= n
      BY <1>2, <2>2
    <3> HIDE DEF n
    <3>2. Slot(k)' = IF head' + k - 1 < Capacity THEN head' + k - 1 ELSE head' + k - 1 - Capacity
      <4>1. head' + k - 1 \in Int /\ 0 <= head' + k - 1 /\ head' + k - 1 < Capacity + Capacity
        BY <1>2, <1>4, <3>1, SMTT(60)
      <4> QED BY <1>2, <1>4, <3>1, <4>1, Wraps, SMTT(60)
    <3>3. CASE k = Capacity
      <4>1. Slot(k)' = head /\ n + 1 - size' + k = n + 1
        BY <1>4, <3>0, <3>1, <3>2, <3>3
      <4> QED BY <1>3, <1>5, <4>1 DEF n
    <3>4. CASE k < Capacity
      <4>1. Slot(k + 1) = Around(head + k)
        BY <1>2, <2>2, <3>1 DEF Slot
      <4>2. Slot(k + 1) = IF head + k < Capacity THEN head + k ELSE head + k - Capacity
        <5>1. head + k \in Int /\ 0 <= head + k /\ head + k < Capacity + Capacity
          BY <1>2, <3>1, <3>4
        <5> QED BY <1>2, <4>1, <5>1, Wraps
      <4>3. Slot(k)' = Slot(k + 1) /\ Slot(k + 1) # head /\ Slot(k + 1) \in 0..(Capacity - 1)
        BY <1>4, <3>0, <3>1, <3>2, <3>4, <4>2
      <4>4. n + 1 - size' + k = n - size + (k + 1) /\ n - size + (k + 1) \in 1..n /\ k + 1 \in 1..size
        BY <2>2, <3>0, <3>1, <3>4
      <4>5. buffer[Slot(k + 1)] = recent[n - size + (k + 1)]
        BY <4>4 DEF BufferInv, n
      <4> QED BY <1>3, <1>5, <4>3, <4>4, <4>5 DEF n
    <3> QED BY <3>0, <3>1, <3>3, <3>4 DEF n
  <2> QED BY <1>2, <2>1, <2>2
<1>8. \A k \in 1..size' : buffer'[Slot(k)'] = recent'[Len(recent') - size' + k]
  <2> SUFFICES ASSUME NEW k \in 1..size' PROVE buffer'[Slot(k)'] = recent'[Len(recent') - size' + k]
    OBVIOUS
  <2>1. Len(recent') = n + 1 /\ n \in Nat /\ size' \in Nat
    BY <1>2, <1>3, <1>6
  <2>2. buffer'[Slot(k)'] = recent'[n + 1 - size' + k]
    BY <1>7
  <2> QED BY <2>1, <2>2
<1>9. /\ size' = (IF Len(recent') < Capacity THEN Len(recent') ELSE Capacity)
      /\ size' < Capacity => head' = size'
  BY <1>3, <1>6
<1>10. head' \in 0..(Capacity - 1)
  BY <1>2, <1>4
<1> QED BY <1>3, <1>5, <1>8, <1>9, <1>10 DEF BufferInv

LEMMA ClearStep == ASSUME BufferInv, Clear PROVE BufferInv'
<1>1. head' = 0 /\ size' = 0 /\ recent' = <<>> /\ buffer' = buffer
  BY DEF Clear
<1> QED BY <1>1, MetricsAssumption DEF BufferInv

\* Of the threads, only reset() touches the buffer.
LEMMA BufferInvariant == MetricsSpec => []BufferInv
<1>1. BufferInv /\ [MetricsNext]_metricsVars => BufferInv'
  <2> SUFFICES ASSUME BufferInv, [MetricsNext]_metricsVars PROVE BufferInv'
    OBVIOUS
  <2>1. ASSUME UNCHANGED durations PROVE BufferInv'
    BY <2>1 DEF BufferInv, durations, Slot
  <2>2. ASSUME NEW t \in Threads, Thread(t) PROVE Clear \/ UNCHANGED durations
    BY <2>2 DEF Thread, Update, SetLastOffset, SetHighWaterMark, ReadLast, SetLag, Export, ResetDurations,
                ResetMap, Claim, ReleaseAll
  <2> QED BY <2>1, <2>2, PushStep, ClearStep DEF MetricsNext, metricsVars
<1> QED BY <1>1, BufferInitially, PTL DEF MetricsSpec

\* The buffer finds the last durations again, in their order, for any capacity and however
\* often it has been wrapped round or cleared.
THEOREM SamplesAlwaysRecent == MetricsSpec => []SamplesAreRecent
<1>1. BufferInv => SamplesAreRecent
  <2> SUFFICES ASSUME BufferInv PROVE SamplesAreRecent
    OBVIOUS
  <2> DEFINE n == Len(recent)
             last == SubSeq(recent, n - size + 1, n)
  <2>1. /\ Capacity \in Nat \ {0} /\ recent \in Seq(Durations) /\ n \in Nat /\ size \in 0..Capacity /\ size <= n
        /\ size = (IF n < Capacity THEN n ELSE Capacity)
    BY MetricsAssumption DEF BufferInv
  <2>2. size = Min({n, Capacity})
    BY <2>1 DEF Min
  <2>3. \A i \in (n - size + 1)..n : recent[i] \in Durations
    BY <2>1
  <2>4. last \in Seq(Durations) /\ Len(last) = size /\ \A i \in 1..size : last[i] = recent[n - size + i]
    <3> HIDE DEF n
    <3> QED BY <2>1, <2>3, SubSeqProperties
  <2>5. Items = [i \in 1..size |-> buffer[Slot(i)]]
    BY <2>1 DEF Items, Slot, Around
  <2>6. \A i \in 1..size : buffer[Slot(i)] = last[i]
    BY <2>4 DEF BufferInv
  <2>7. last = [i \in 1..size |-> last[i]]
    BY <2>4, SMTT(60)
  <2> HIDE DEF last, n
  <2>8. Items = last
    BY <2>5, <2>6, <2>7
  <2> QED BY <2>2, <2>8 DEF SamplesAreRecent, last, n
<1> QED BY <1>1, BufferInvariant, PTL

\* Of the items, at least k do not exceed x.
Reach(x, k) == Cardinality({i \in 1..size : Items[i] <= x}) >= k
Reaching(k) == {x \in Range(Items) : Reach(x, k)}

ItemsOK == size \in Nat /\ Items \in [1..size -> Nat]

LEMMA RangeOfItems ==
  ASSUME ItemsOK PROVE Range(Items) \subseteq Nat /\ \A i \in 1..size : Items[i] \in Range(Items)
BY DEF ItemsOK, Range

LEMMA HowMany == ASSUME NEW n \in Nat PROVE IsFiniteSet(1..n) /\ Cardinality(1..n) = n
BY FS_Interval

LEMMA CountsAreNumbers ==
  ASSUME ItemsOK, NEW x
  PROVE  /\ IsFiniteSet({i \in 1..size : Items[i] <= x})
         /\ Cardinality({i \in 1..size : Items[i] <= x}) \in Nat
         /\ Cardinality({i \in 1..size : Items[i] <= x}) <= size
<1>1. IsFiniteSet(1..size) /\ Cardinality(1..size) = size
  BY HowMany DEF ItemsOK
<1> DEFINE C == {i \in 1..size : Items[i] <= x}
<1>2. C \subseteq 1..size
  OBVIOUS
<1> HIDE DEF C
<1>3. IsFiniteSet(C) /\ Cardinality(C) <= size
  BY <1>1, <1>2, FS_Subset
<1>4. Cardinality(C) \in Nat
  BY <1>3, FS_CardinalityType
<1> QED BY <1>3, <1>4 DEF C

\* There is a greatest item, which all of them reach.
LEMMA GreatestIsThere ==
  ASSUME ItemsOK, size > 0
  PROVE  \E g \in Range(Items) : \A i \in 1..size : Items[i] <= g
<1> DEFINE S == {n \in Nat : n < size => \E m \in 1..(n + 1) : \A i \in 1..(n + 1) : Items[i] <= Items[m]}
<1>1. 0 \in S
  BY DEF ItemsOK
<1>2. ASSUME NEW n \in Nat, n \in S PROVE n + 1 \in S
  <2> SUFFICES ASSUME n + 1 < size
               PROVE  \E m \in 1..((n + 1) + 1) : \A i \in 1..((n + 1) + 1) : Items[i] <= Items[m]
    OBVIOUS
  <2>1. PICK m \in 1..(n + 1) : \A i \in 1..(n + 1) : Items[i] <= Items[m]
    BY <1>2 DEF ItemsOK
  <2>2. \A i \in 1..((n + 1) + 1) : i \in 1..(n + 1) \/ i = (n + 1) + 1
    OBVIOUS
  <2>3. \A i \in 1..((n + 1) + 1) : Items[i] \in Nat
    BY DEF ItemsOK
  <2>4. CASE Items[(n + 1) + 1] <= Items[m]
    BY <2>1, <2>2, <2>4
  <2>5. CASE ~ (Items[(n + 1) + 1] <= Items[m])
    BY <2>1, <2>2, <2>3, <2>5
  <2> QED BY <2>4, <2>5
<1> HIDE DEF S
<1>3. \A n \in Nat : n \in S
  BY <1>1, <1>2, Induction
<1>4. size - 1 < size /\ (size - 1) + 1 = size /\ size - 1 \in Nat
  BY DEF ItemsOK
<1>5. \E m \in 1..size : \A i \in 1..size : Items[i] <= Items[m]
  BY <1>3, <1>4 DEF S
<1> QED BY <1>5, RangeOfItems

LEMMA ReachedBySomething ==
  ASSUME ItemsOK, size > 0, NEW k \in 1..size
  PROVE  Reaching(k) \subseteq Nat /\ Reaching(k) # {}
<1>1. PICK g \in Range(Items) : \A i \in 1..size : Items[i] <= g
  BY GreatestIsThere
<1>2. {i \in 1..size : Items[i] <= g} = 1..size
  BY <1>1
<1>3. Reach(g, k) <=> Cardinality(1..size) >= k
  BY <1>2 DEF Reach
<1>4. Reach(g, k)
  BY <1>3, HowMany DEF ItemsOK
<1>5. g \in Reaching(k)
  BY <1>4 DEF Reaching
<1> QED BY <1>5, RangeOfItems DEF Reaching

LEMMA SortedAscends ==
  ASSUME ItemsOK, size > 0
  PROVE  /\ \A k \in 1..size : Sorted[k] \in Reaching(k) /\ Sorted[k] \in Nat
         /\ \A k \in 1..size, x \in Range(Items) : Reach(x, k) => Sorted[k] <= x
         /\ \A k, l \in 1..size : k <= l => Sorted[k] <= Sorted[l]
<1>1. Sorted = [k \in 1..size |-> Min(Reaching(k))]
  BY DEF Sorted, Reaching, Reach
<1>2. ASSUME NEW k \in 1..size
      PROVE  Sorted[k] \in Reaching(k) /\ Sorted[k] \in Nat /\ \A x \in Reaching(k) : Sorted[k] <= x
  <2>1. Min(Reaching(k)) \in Reaching(k) /\ \A x \in Reaching(k) : Min(Reaching(k)) <= x
    BY ReachedBySomething, MinIsThere
  <2> QED BY <1>1, <2>1, ReachedBySomething
<1>3. \A k, l \in 1..size : k <= l => Sorted[k] <= Sorted[l]
  <2> SUFFICES ASSUME NEW k \in 1..size, NEW l \in 1..size, k <= l PROVE Sorted[k] <= Sorted[l]
    OBVIOUS
  <2>1. Sorted[l] \in Range(Items) /\ Reach(Sorted[l], l)
    BY <1>2 DEF Reaching
  <2>2. PICK c : c = Cardinality({i \in 1..size : Items[i] <= Sorted[l]})
    OBVIOUS
  <2>3. c \in Nat /\ c >= l
    BY <2>1, <2>2, CountsAreNumbers DEF Reach
  <2>4. Reach(Sorted[l], k)
    BY <2>2, <2>3 DEF Reach
  <2>5. Sorted[l] \in Reaching(k)
    BY <2>1, <2>4 DEF Reaching
  <2> QED BY <1>2, <2>5
<1> QED BY <1>2, <1>3 DEF Reaching

\* The places in the sorted list from which the statistics are read.
LEMMA PlacesOfPercentiles ==
  ASSUME NEW n \in Nat, n > 0
  PROVE  /\ (n \div 2) + 1 \in 1..n /\ ((n - 1) * 95) \div 100 + 1 \in 1..n /\ ((n - 1) * 99) \div 100 + 1 \in 1..n
         /\ n # 2 => (n \div 2) + 1 <= ((n - 1) * 95) \div 100 + 1
         /\ ((n - 1) * 95) \div 100 + 1 <= ((n - 1) * 99) \div 100 + 1
         /\ n \div 2 \in Nat /\ (n * 95) \div 100 \in Nat /\ (n * 99) \div 100 \in Nat
         /\ n \div 2 <= (n * 95) \div 100 /\ (n * 95) \div 100 <= (n * 99) \div 100 /\ (n * 99) \div 100 <= n
OBVIOUS

LEMMA PercentilesInOrder ==
  ASSUME ItemsOK, size > 0
  PROVE  /\ Median \in Nat /\ Percentile(95) \in Nat /\ Percentile(99) \in Nat
         /\ size # 2 => Median <= Percentile(95)
         /\ Percentile(95) <= Percentile(99)
BY SortedAscends, PlacesOfPercentiles DEF Median, Percentile, ItemsOK

\* With two samples the median is the larger, since the index is rounded up, and the other
\* percentiles are the smaller.
LEMMA TwoSamples ==
  ASSUME ItemsOK, size = 2
  PROVE  Median = Max(Range(Items)) /\ Percentile(99) = Min(Range(Items))
<1>1. PICK a \in Nat, b \in Nat : a = Items[1] /\ b = Items[2]
  BY DEF ItemsOK
<1>2. Range(Items) = {a, b} /\ 1..size = {1, 2}
  BY <1>1 DEF ItemsOK, Range
<1>3. Median = Sorted[2] /\ Percentile(99) = Sorted[1]
  <2>1. (size \div 2) + 1 = 2 /\ ((size - 1) * 99) \div 100 + 1 = 1
    OBVIOUS
  <2> QED BY <2>1 DEF Median, Percentile
<1>4. /\ Sorted[1] \in {a, b} /\ Sorted[2] \in {a, b} /\ Sorted[1] <= Sorted[2]
      /\ Reach(Sorted[2], 2) /\ \A x \in {a, b} : Reach(x, 1) => Sorted[1] <= x
  BY <1>2, SortedAscends DEF Reaching
<1>5. \A x \in {a, b} : Reach(x, 1)
  <2> SUFFICES ASSUME NEW x \in {a, b} PROVE Reach(x, 1)
    OBVIOUS
  <2>1. \E i \in 1..size : i \in {j \in 1..size : Items[j] <= x}
    BY <1>1, <1>2
  <2> DEFINE C == {j \in 1..size : Items[j] <= x}
  <2>2. IsFiniteSet(C) /\ Cardinality(C) \in Nat
    BY CountsAreNumbers
  <2>3. C # {}
    BY <2>1
  <2>4. Cardinality(C) # 0
    BY <2>2, <2>3, FS_EmptySet
  <2> QED BY <2>2, <2>4 DEF Reach
<1>6. a <= Sorted[2] /\ b <= Sorted[2]
  <2> DEFINE C == {j \in 1..size : Items[j] <= Sorted[2]}
  <2>1. IsFiniteSet(1..size) /\ Cardinality(1..size) = 2
    BY HowMany DEF ItemsOK
  <2>2. C \subseteq 1..size /\ Cardinality(C) >= 2 /\ Cardinality(C) \in Nat
    BY <1>4, CountsAreNumbers DEF Reach
  <2> HIDE DEF C
  <2>3. C = 1..size
    <3>1. Cardinality(C) <= Cardinality(1..size)
      BY <2>1, <2>2, FS_Subset
    <3>2. Cardinality(C) = Cardinality(1..size)
      BY <2>1, <2>2, <3>1
    <3> QED BY <2>1, <2>2, <3>2, FS_Subset
  <2>4. 1 \in C /\ 2 \in C
    BY <1>2, <2>3
  <2> QED BY <1>1, <2>4 DEF C
<1>7. Sorted[1] <= a /\ Sorted[1] <= b
  BY <1>4, <1>5
<1>8. Max({a, b}) = Sorted[2]
  <2>1. Sorted[2] \in {a, b} /\ \A x \in {a, b} : Sorted[2] >= x
    BY <1>4, <1>6
  <2>2. \A y \in {a, b} : (\A x \in {a, b} : y >= x) => y = Sorted[2]
    BY <2>1
  <2> QED BY <2>1, <2>2 DEF Max
<1>9. Min({a, b}) = Sorted[1]
  <2>1. Sorted[1] \in {a, b} /\ \A x \in {a, b} : Sorted[1] <= x
    BY <1>4, <1>7
  <2>2. \A y \in {a, b} : (\A x \in {a, b} : y <= x) => y = Sorted[1]
    BY <2>1
  <2> QED BY <2>1, <2>2 DEF Min
<1> QED BY <1>2, <1>3, <1>8, <1>9

\* An estimate for a higher threshold comes from a later percentile.
LEMMA EstimatesAscend ==
  ASSUME ItemsOK, size > 0, NEW low \in Nat, NEW high \in Nat, low <= high
  PROVE  CountLe(low) <= CountLe(high)
BY PercentilesInOrder, PlacesOfPercentiles DEF CountLe, ItemsOK

\* The statistics are those of the last durations, whatever the capacity: the percentiles are in
\* order but for two samples, and the estimates of the histogram never decrease.
THEOREM StatsAlwaysRecent == MetricsSpec => []StatsAreRecent
<1>1. BufferInv /\ SamplesAreRecent => ItemsOK
  <2> SUFFICES ASSUME BufferInv, SamplesAreRecent PROVE ItemsOK
    OBVIOUS
  <2>1. /\ recent \in Seq(Durations) /\ Len(recent) \in Nat /\ size \in Nat /\ size <= Len(recent)
        /\ Durations \subseteq Nat
    BY MetricsAssumption DEF BufferInv
  <2> DEFINE n == Len(recent)
             last == SubSeq(recent, n - size + 1, n)
  <2>2. \A i \in (n - size + 1)..n : recent[i] \in Durations
    BY <2>1
  <2>3. last \in Seq(Durations) /\ Len(last) = size
    <3> HIDE DEF n
    <3> QED BY <2>1, <2>2, SubSeqProperties DEF n
  <2>4. Items = last
    BY DEF SamplesAreRecent
  <2> HIDE DEF last
  <2> HIDE DEF n
  <2>5. last \in [1..size -> Durations]
    BY <2>1, <2>3
  <2> QED BY <2>1, <2>4, <2>5 DEF ItemsOK
<1>2. ItemsOK /\ SamplesAreRecent => StatsAreRecent
  <2> SUFFICES ASSUME ItemsOK, SamplesAreRecent PROVE StatsAreRecent
    OBVIOUS
  <2>1. Durations \subseteq Nat
    BY MetricsAssumption
  <2> QED BY <2>1, PercentilesInOrder, TwoSamples, EstimatesAscend DEF StatsAreRecent
<1> QED BY <1>1, <1>2, BufferInvariant, SamplesAlwaysRecent, PTL
================================================================================
