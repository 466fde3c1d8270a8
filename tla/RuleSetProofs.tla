----------------------------- MODULE RuleSetProofs -----------------------------
(***************************************************************************)
(* The rule set keeps its count of enabled rules and its index of ids in   *)
(* step with its rules, for every set of callers and rules.  The invariant *)
(* is that both agree with the rules and that a call has its arguments;    *)
(* only Write() changes the rule set.  An evaluation answers from a single *)
(* look at the rules: LookInv follows its tasks and its matches while the  *)
(* lock it holds keeps the writers out.                                    *)
(***************************************************************************)
EXTENDS RuleSet, FiniteSetTheorems, SequenceTheorems, TLAPS

CompiledRules == [rule : Rules, enabled : BOOLEAN]

\* A rule set is a record whose index leads into its rules.
RulesOK(rs) ==
  /\ rs = [rules |-> rs.rules, index |-> rs.index, enabled |-> rs.enabled, failed |-> rs.failed]
  /\ rs.rules \in Seq(CompiledRules) /\ rs.enabled \in Nat
  /\ \A p \in rs.index : p[2] \in 1..Len(rs.rules)

Counted(rs) == rs.enabled = Cardinality(EnabledAt(rs))

\* The rules of the key of i are led to by the last of them.
LeadsFrom(rs, i) ==
  \E j \in 1..Len(rs.rules) :
    /\ IndexOf(rs.index, RuleId(rs.rules[i].rule, i)) = {j} /\ j >= i
    /\ RuleId(rs.rules[j].rule, j) = RuleId(rs.rules[i].rule, i)
LeadsToLast(rs) == \A i \in 1..Len(rs.rules) : LeadsFrom(rs, i)

RuleSetOK(rs) == RulesOK(rs) /\ Counted(rs) /\ LeadsToLast(rs)

Places == {"idle", "waiting", "write", "spawn", "collect"}
CallersOK ==
  /\ call_pc \in [Callers -> Places] /\ op \in [Callers -> Calls]
  /\ \A c \in Callers : call_pc[c] = "write" => op[c].kind # "evaluate"
Inv == RuleSetOK(ruleset) /\ CallersOK

------------------------------------------------------------------------------
\* An empty rule set is in order.
LEMMA NewRuleSetOK == RuleSetOK(NewRuleSet)
<1>1. RulesOK(NewRuleSet)  BY DEF RulesOK, NewRuleSet
<1>2. EnabledAt(NewRuleSet) = {}  BY DEF EnabledAt, NewRuleSet
<1>3. Counted(NewRuleSet)  BY <1>2, FS_EmptySet DEF Counted, NewRuleSet
<1>4. LeadsToLast(NewRuleSet)  BY DEF LeadsToLast, NewRuleSet
<1> QED  BY <1>1, <1>3, <1>4 DEF RuleSetOK

\* The enabled rules are finitely many places.
LEMMA EnabledFinite ==
  ASSUME NEW rs, RulesOK(rs)
  PROVE  IsFiniteSet(EnabledAt(rs)) /\ EnabledAt(rs) \subseteq 1..Len(rs.rules)
<1>1. Len(rs.rules) \in Nat /\ DOMAIN rs.rules = 1..Len(rs.rules)  BY DEF RulesOK
<1>2. EnabledAt(rs) \subseteq 1..Len(rs.rules)  BY <1>1 DEF EnabledAt
<1>3. IsFiniteSet(1..Len(rs.rules))  BY <1>1, FS_Interval
<1> QED  BY <1>2, <1>3, FS_Subset

\* What insert() leads to: the key to its place, every other key to where it led.
LEMMA InsertedLeads ==
  ASSUME NEW index, NEW key, NEW i
  PROVE  /\ IndexOf(Inserted(index, key, i), key) = {i}
         /\ \A other : other # key => IndexOf(Inserted(index, key, i), other) = IndexOf(index, other)
         /\ \A p \in Inserted(index, key, i) : p \in index \/ p[2] = i
<1> DEFINE after == Inserted(index, key, i)
<1>1. <<key, i>>[1] = key /\ <<key, i>>[2] = i  OBVIOUS
<1>2. \A p \in after : p \in index \/ p = <<key, i>>  BY DEF Inserted
<1>3. \A p : p \in after /\ p[1] = key <=> p = <<key, i>>  BY <1>1 DEF Inserted
<1>4. \A p : p[1] # key => (p \in after <=> p \in index)  BY <1>1 DEF Inserted
<1> HIDE DEF after
<1>5. IndexOf(after, key) = {i}  BY <1>1, <1>3 DEF IndexOf
<1>6. ASSUME NEW other, other # key  PROVE IndexOf(after, other) = IndexOf(index, other)
  <2>1. {q \in after : q[1] = other} = {q \in index : q[1] = other}  BY <1>4, <1>6
  <2> QED  BY <2>1 DEF IndexOf
<1>7. \A p \in after : p \in index \/ p[2] = i  BY <1>1, <1>2
<1> QED  BY <1>5, <1>6, <1>7 DEF after

\* add_rule() keeps the rule set in order.
LEMMA AddRuleOK ==
  ASSUME NEW rs, RuleSetOK(rs), NEW rule \in Rules
  PROVE  RuleSetOK(AddRule(rs, rule))
<1> DEFINE i == Len(rs.rules) + 1
           key == RuleId(rule, i)
           new == [rule |-> rule, enabled |-> TRUE]
           after == AddRule(rs, rule)
<1>1. CASE ~rule.builds
  BY <1>1 DEF AddRule
<1>2. CASE rule.builds
  <2>1. RulesOK(rs)  BY DEF RuleSetOK
  <2>2. Len(rs.rules) \in Nat /\ i \in Nat /\ rs.enabled \in Nat /\ rs.rules \in Seq(CompiledRules)
    BY <2>1 DEF RulesOK
  <2>3. after = [rules |-> Append(rs.rules, new), index |-> Inserted(rs.index, key, i),
                 enabled |-> rs.enabled + 1, failed |-> rs.failed]
    BY <1>2, <2>1 DEF AddRule, RulesOK
  <2>4. after.rules = Append(rs.rules, new) /\ after.index = Inserted(rs.index, key, i)
        /\ after.enabled = rs.enabled + 1
    BY <2>3
  <2>5. new \in CompiledRules /\ new.rule = rule /\ new.enabled  BY DEF CompiledRules
  <2> HIDE DEF new, after
  <2>6. /\ after.rules \in Seq(CompiledRules) /\ Len(after.rules) = i /\ after.rules[i] = new
        /\ \A k \in 1..Len(rs.rules) : after.rules[k] = rs.rules[k]
        /\ DOMAIN after.rules = 1..i /\ DOMAIN rs.rules = 1..Len(rs.rules)
    BY <2>2, <2>4, <2>5
  <2> HIDE DEF key
  <2>7. RulesOK(after)
    <3>1. after = [rules |-> after.rules, index |-> after.index, enabled |-> after.enabled, failed |-> after.failed]
      BY <2>3
    <3>2. ASSUME NEW p \in after.index  PROVE p[2] \in 1..Len(after.rules)
      <4>0. \A q \in Inserted(rs.index, key, i) : q \in rs.index \/ q[2] = i  BY InsertedLeads
      <4>1. p \in rs.index \/ p[2] = i  BY <2>4, <3>2, <4>0
      <4>2. p \in rs.index => p[2] \in 1..Len(rs.rules)  BY <2>1 DEF RulesOK
      <4> QED  BY <2>2, <2>6, <4>1, <4>2
    <3> QED  BY <2>2, <2>4, <2>6, <3>1, <3>2 DEF RulesOK
  <2>8. Counted(after)
    <3>1. EnabledAt(after) = EnabledAt(rs) \cup {i}
      BY <2>2, <2>5, <2>6, SMTT(60) DEF EnabledAt
    <3>2. IsFiniteSet(EnabledAt(rs)) /\ i \notin EnabledAt(rs)
      BY <2>1, <2>2, EnabledFinite
    <3>3. Cardinality(EnabledAt(after)) = Cardinality(EnabledAt(rs)) + 1
      BY <3>1, <3>2, FS_AddElement
    <3> QED  BY <2>4, <3>3 DEF Counted, RuleSetOK
  <2>9. LeadsToLast(after)
    <3> SUFFICES ASSUME NEW k \in 1..i  PROVE LeadsFrom(after, k)
      BY <2>6 DEF LeadsToLast
    <3>1. RuleId(after.rules[i].rule, i) = key /\ IndexOf(after.index, key) = {i}
      BY <2>4, <2>5, <2>6, InsertedLeads DEF key
    <3>2. CASE RuleId(after.rules[k].rule, k) = key
      BY <2>2, <2>6, <3>1, <3>2, SMTT(60) DEF LeadsFrom
    <3>3. CASE RuleId(after.rules[k].rule, k) # key
      <4>1. k \in 1..Len(rs.rules)  BY <2>2, <3>1, <3>3
      <4>2. LeadsFrom(rs, k)  BY <4>1 DEF RuleSetOK, LeadsToLast
      <4>3. PICK j \in 1..Len(rs.rules) :
              /\ IndexOf(rs.index, RuleId(rs.rules[k].rule, k)) = {j} /\ j >= k
              /\ RuleId(rs.rules[j].rule, j) = RuleId(rs.rules[k].rule, k)
        BY <4>2 DEF LeadsFrom
      <4>4. after.rules[k] = rs.rules[k] /\ after.rules[j] = rs.rules[j] /\ j \in 1..Len(after.rules)
        BY <2>2, <2>6, <4>1, <4>3
      <4>5. RuleId(rs.rules[k].rule, k) # key  BY <3>3, <4>4
      <4>6. \A other : other # key => IndexOf(Inserted(rs.index, key, i), other) = IndexOf(rs.index, other)
        BY InsertedLeads
      <4>7. IndexOf(after.index, RuleId(rs.rules[k].rule, k)) = IndexOf(rs.index, RuleId(rs.rules[k].rule, k))
        BY <2>4, <4>5, <4>6
      <4> QED  BY <4>3, <4>4, <4>7 DEF LeadsFrom
    <3> QED  BY <3>2, <3>3
  <2> QED  BY <2>7, <2>8, <2>9 DEF RuleSetOK, after
<1> QED  BY <1>1, <1>2

\* set_rule_enabled() keeps the rule set in order: the count moves with the flag.
LEMMA SetRuleEnabledOK ==
  ASSUME NEW rs, RuleSetOK(rs), NEW key, NEW enabled \in BOOLEAN
  PROVE  RuleSetOK(SetRuleEnabled(rs, key, enabled))
<1> DEFINE at == {i \in IndexOf(rs.index, key) : rs.rules[i].enabled # enabled}
           i == CHOOSE i \in at : TRUE
           after == SetRuleEnabled(rs, key, enabled)
<1>1. CASE at = {}
  BY <1>1 DEF SetRuleEnabled
<1>2. CASE at # {}
  <2>1. RulesOK(rs) /\ rs.rules \in Seq(CompiledRules) /\ rs.enabled \in Nat
    BY DEF RuleSetOK, RulesOK
  <2>2. i \in at  BY <1>2
  <2>3. i \in 1..Len(rs.rules) /\ rs.rules[i].enabled # enabled
    BY <2>1, <2>2 DEF IndexOf, RulesOK
  <2>4. after = [rules |-> [rs.rules EXCEPT ![i].enabled = enabled], index |-> rs.index,
                 enabled |-> IF enabled THEN rs.enabled + 1 ELSE rs.enabled - 1, failed |-> rs.failed]
    BY <1>2, <2>1 DEF SetRuleEnabled, RulesOK
  <2> HIDE DEF i, after, at
  <2>5. Len(rs.rules) \in Nat /\ DOMAIN rs.rules = 1..Len(rs.rules)
        /\ \A k \in 1..Len(rs.rules) : rs.rules[k] \in CompiledRules
    BY <2>1
  <2>6. /\ after.rules \in Seq(CompiledRules) /\ Len(after.rules) = Len(rs.rules)
        /\ DOMAIN after.rules = 1..Len(rs.rules)
    BY <2>1, <2>3, <2>4, <2>5 DEF CompiledRules
  <2>7. /\ \A k \in 1..Len(rs.rules) : k # i => after.rules[k] = rs.rules[k]
        /\ after.rules[i].enabled = enabled /\ after.rules[i].rule = rs.rules[i].rule
    BY <2>1, <2>3, <2>4, <2>5 DEF CompiledRules
  <2>8. \A k \in 1..Len(rs.rules) : after.rules[k].rule = rs.rules[k].rule  BY <2>7
  <2>9. after.index = rs.index
        /\ after.enabled = (IF enabled THEN rs.enabled + 1 ELSE rs.enabled - 1)
    BY <2>4
  <2>10. rs.rules[i].enabled \in BOOLEAN  BY <2>3, <2>5 DEF CompiledRules
  <2>11. IsFiniteSet(EnabledAt(rs)) /\ EnabledAt(rs) \subseteq 1..Len(rs.rules)
    BY <2>1, EnabledFinite
  <2>12. rs.enabled = Cardinality(EnabledAt(rs))  BY DEF RuleSetOK, Counted
  <2>13. Counted(after) /\ after.enabled \in Nat
    <3>1. CASE enabled
      <4>1. EnabledAt(after) = EnabledAt(rs) \cup {i} /\ i \notin EnabledAt(rs)
        BY <2>3, <2>5, <2>6, <2>7, <2>10, <3>1, Zenon DEF EnabledAt
      <4>2. Cardinality(EnabledAt(after)) = Cardinality(EnabledAt(rs)) + 1
        BY <2>11, <4>1, FS_AddElement
      <4> QED  BY <2>1, <2>9, <2>12, <3>1, <4>2 DEF Counted
    <3>2. CASE ~enabled
      <4>1. EnabledAt(after) = EnabledAt(rs) \ {i} /\ i \in EnabledAt(rs)
        BY <2>3, <2>5, <2>6, <2>7, <2>10, <3>2, Zenon DEF EnabledAt
      <4>2. Cardinality(EnabledAt(after)) = Cardinality(EnabledAt(rs)) - 1
            /\ Cardinality(EnabledAt(rs)) \in Nat /\ IsFiniteSet(EnabledAt(after))
        BY <2>11, <4>1, FS_RemoveElement, FS_CardinalityType
      <4>3. Cardinality(EnabledAt(after)) \in Nat  BY <4>2, FS_CardinalityType
      <4> QED  BY <2>9, <2>12, <3>2, <4>2, <4>3 DEF Counted
    <3> QED  BY <3>1, <3>2
  <2>14. RulesOK(after)
    <3>1. after = [rules |-> after.rules, index |-> after.index, enabled |-> after.enabled, failed |-> after.failed]
      BY <2>4
    <3>2. \A p \in after.index : p[2] \in 1..Len(after.rules)
      BY <2>1, <2>6, <2>9 DEF RulesOK
    <3> QED  BY <2>6, <2>13, <3>1, <3>2 DEF RulesOK
  <2>15. LeadsToLast(after)
    <3> SUFFICES ASSUME NEW k \in 1..Len(rs.rules)  PROVE LeadsFrom(after, k)
      BY <2>6 DEF LeadsToLast
    <3>1. LeadsFrom(rs, k)  BY DEF RuleSetOK, LeadsToLast
    <3>2. PICK j \in 1..Len(rs.rules) :
            /\ IndexOf(rs.index, RuleId(rs.rules[k].rule, k)) = {j} /\ j >= k
            /\ RuleId(rs.rules[j].rule, j) = RuleId(rs.rules[k].rule, k)
      BY <3>1 DEF LeadsFrom
    <3>3. after.rules[k].rule = rs.rules[k].rule /\ after.rules[j].rule = rs.rules[j].rule  BY <2>8, <3>2
    <3> QED  BY <2>6, <2>9, <3>2, <3>3 DEF LeadsFrom
  <2> QED  BY <2>13, <2>14, <2>15 DEF RuleSetOK, after
<1> QED  BY <1>1, <1>2

------------------------------------------------------------------------------
LEMMA InvInitially == RuleSetInit => Inv
<1> SUFFICES ASSUME RuleSetInit  PROVE Inv  OBVIOUS
<1>1. RuleSetOK(ruleset)  BY NewRuleSetOK DEF RuleSetInit
<1>2. [kind |-> "evaluate"] \in Calls  BY DEF Calls
<1>3. CallersOK  BY <1>2 DEF RuleSetInit, CallersOK, Places
<1> QED  BY <1>1, <1>3 DEF Inv

\* A caller that does not change its call and does not come to write.
LEMMA Onwards ==
  ASSUME CallersOK, NEW c \in Callers, NEW to \in Places, call_pc' = [call_pc EXCEPT ![c] = to], UNCHANGED op,
         to = "write" => op[c].kind # "evaluate"
  PROVE  CallersOK'
BY DEF CallersOK

\* A call keeps what it is asked, and only a call that writes gets to write.
LEMMA CallersKept == ASSUME CallersOK, RuleSetNext  PROVE CallersOK'
<1> PICK c \in Callers : Call(c) \/ Step(c)  BY DEF RuleSetNext
<1>1. CASE Call(c)
  <2>1. PICK call \in Calls : op' = [op EXCEPT ![c] = call]  BY <1>1 DEF Call
  <2>2. call_pc' = [call_pc EXCEPT ![c] = "waiting"]  BY <1>1 DEF Call, At
  <2> QED  BY <2>1, <2>2 DEF CallersOK, Places
<1>2. CASE ReadLock(c)  BY <1>2, Onwards DEF ReadLock, At, Places
<1>3. CASE WriteLock(c)  BY <1>3, Onwards DEF WriteLock, At, Places
<1>4. CASE Write(c)  BY <1>4, Onwards DEF Write, At, Places
<1>5. CASE Spawn(c)  BY <1>5, Onwards DEF Spawn, At, Places
<1>6. CASE Collect(c)  BY <1>6 DEF Collect, CallersOK
<1>7. CASE Return(c)  BY <1>7, Onwards DEF Return, Complete, Places
<1>8. ASSUME NEW j \in DOMAIN tasks[c], StartTask(c, j) \/ EndTask(c, j)  PROVE CallersOK'
  BY <1>8 DEF StartTask, EndTask, CallersOK
<1> QED  BY <1>1, <1>2, <1>3, <1>4, <1>5, <1>6, <1>7, <1>8 DEF Step

\* Only Write() changes the rule set, to one that is in order.
LEMMA RuleSetKept == ASSUME Inv, RuleSetNext  PROVE RuleSetOK(ruleset')
<1> PICK c \in Callers : Call(c) \/ Step(c)  BY DEF RuleSetNext
<1>1. CASE Write(c)
  <2>1. RuleSetOK(ruleset)  BY DEF Inv
  <2>2. op[c] \in Calls /\ op[c].kind # "evaluate"  BY <1>1 DEF Inv, CallersOK, Write, At
  <2>3. CASE op[c].kind = "add"
    <3>1. op[c].rule \in Rules  BY <2>2, <2>3 DEF Calls
    <3>2. ruleset' = AddRule(ruleset, op[c].rule)  BY <1>1, <2>3 DEF Write
    <3> QED  BY <2>1, <3>1, <3>2, AddRuleOK
  <2>4. CASE op[c].kind # "add"
    <3>1. op[c].enabled \in BOOLEAN  BY <2>2, <2>4 DEF Calls
    <3>2. ruleset' = SetRuleEnabled(ruleset, op[c].key, op[c].enabled)  BY <1>1, <2>4 DEF Write
    <3> QED  BY <2>1, <3>1, <3>2, SetRuleEnabledOK
  <2> QED  BY <2>3, <2>4
<1>2. CASE ~Write(c)
  <2>1. ruleset' = ruleset
    BY <1>2 DEF Call, Step, ReadLock, WriteLock, Spawn, Collect, Return, StartTask, EndTask
  <2> QED  BY <2>1 DEF Inv
<1> QED  BY <1>1, <1>2

\* The invariant is inductive.
LEMMA InvAlways == RuleSetSpec => []Inv
<1>1. Inv /\ [RuleSetNext]_concurrent => Inv'
  <2> SUFFICES ASSUME Inv, [RuleSetNext]_concurrent  PROVE Inv'  OBVIOUS
  <2>1. CASE RuleSetNext
    <3>1. CallersOK'  BY <2>1, CallersKept DEF Inv
    <3>2. RuleSetOK(ruleset')  BY <2>1, RuleSetKept
    <3> QED  BY <3>1, <3>2 DEF Inv, RuleSetOK, RulesOK, Counted, LeadsToLast, LeadsFrom, EnabledAt, IndexOf, RuleId
  <2>2. CASE UNCHANGED concurrent
    <3>1. ruleset' = ruleset /\ call_pc' = call_pc /\ op' = op  BY <2>2 DEF concurrent
    <3>2. CallersOK'  BY <3>1 DEF Inv, CallersOK
    <3>3. RuleSetOK(ruleset')  BY <3>1 DEF Inv
    <3> QED  BY <3>2, <3>3 DEF Inv, RuleSetOK, RulesOK, Counted, LeadsToLast, LeadsFrom, EnabledAt, IndexOf, RuleId
  <2> QED  BY <2>1, <2>2
<1> QED  BY <1>1, InvInitially, PTL DEF RuleSetSpec

------------------------------------------------------------------------------
\* metadata.enabled_rules counts the enabled rules: add_rule() and set_rule_enabled()
\* move it with the flags, whatever the callers do and in whatever order.
THEOREM EnabledCounted == RuleSetSpec => []EnabledIsCounted
<1>1. Inv => EnabledIsCounted  BY DEF Inv, RuleSetOK, Counted, EnabledIsCounted
<1> QED  BY <1>1, InvAlways, PTL

\* rule_index leads from the id of a rule to the last rule of that id, also when an id
\* given by the rule's place is another rule's own.
THEOREM IndexIsLast == RuleSetSpec => []IndexLeadsToLast
<1>1. Inv => IndexLeadsToLast
  <2> SUFFICES ASSUME Inv  PROVE IndexLeadsToLast  OBVIOUS
  <2>1. DOMAIN ruleset.rules = 1..Len(ruleset.rules)  BY DEF Inv, RuleSetOK, RulesOK
  <2>2. \A i \in 1..Len(ruleset.rules) : LeadsFrom(ruleset, i)  BY DEF Inv, RuleSetOK, LeadsToLast
  <2> QED  BY <2>1, <2>2, Zenon DEF IndexLeadsToLast, LeadsFrom
<1> QED  BY <1>1, InvAlways, PTL
------------------------------------------------------------------------------
(* The order of the rules.  A finite set of places has one increasing        *)
(* enumeration: the one that gives each its rank, the number of the members  *)
(* that are not above it.                                                    *)

Rank(S, x) == Cardinality({y \in S : y <= x})
Increasing(f) == \A j, k \in DOMAIN f : j < k => f[j] < f[k]

LEMMA RankGrows ==
  ASSUME NEW S \in SUBSET Nat, IsFiniteSet(S), NEW x \in S, NEW y \in S, x < y
  PROVE  Rank(S, x) < Rank(S, y)
<1> DEFINE X == {z \in S : z <= x}
           Y == {z \in S : z <= y}
<1>1. X \subseteq Y /\ y \in Y /\ y \notin X /\ Y \subseteq S
  <2>1. x \in Nat /\ y \in Nat /\ \A z \in S : z \in Nat
    OBVIOUS
  <2>2. \A z \in S : z <= x => z <= y
    BY <2>1
  <2>3. y <= y /\ ~(y <= x)
    BY <2>1
  <2>4. X \subseteq Y /\ Y \subseteq S
    BY <2>2
  <2>5. y \in Y /\ y \notin X
    BY <2>3
  <2> QED BY <2>4, <2>5
<1>2. IsFiniteSet(Y)
  BY <1>1, FS_Subset
<1> HIDE DEF X, Y
<1>3. IsFiniteSet(X) /\ Cardinality(X) <= Cardinality(Y) /\ Cardinality(X) # Cardinality(Y)
  BY <1>1, <1>2, FS_Subset
<1>4. Cardinality(X) \in Nat /\ Cardinality(Y) \in Nat
  BY <1>2, <1>3, FS_CardinalityType
<1> QED BY <1>3, <1>4 DEF Rank, X, Y

LEMMA RankInjective ==
  ASSUME NEW S \in SUBSET Nat, IsFiniteSet(S)
  PROVE  /\ \A x, y \in S : Rank(S, x) = Rank(S, y) => x = y
         /\ \A x \in S : Rank(S, x) \in 1..Cardinality(S)
         /\ \A i \in 1..Cardinality(S) : \E x \in S : Rank(S, x) = i
<1> DEFINE n == Cardinality(S)
           r == [x \in S |-> Rank(S, x)]
<1>1. n \in Nat
  BY FS_CardinalityType
<1>2. ASSUME NEW x \in S PROVE Rank(S, x) \in 1..n
  <2> DEFINE X == {z \in S : z <= x}
  <2>1. X \subseteq S /\ x \in X
    OBVIOUS
  <2> HIDE DEF X
  <2>2. IsFiniteSet(X) /\ Cardinality(X) <= n /\ Cardinality(X) # 0
    BY <2>1, FS_Subset, FS_EmptySet
  <2>3. Cardinality(X) \in Nat
    BY <2>2, FS_CardinalityType
  <2> QED BY <1>1, <2>2, <2>3 DEF Rank, X
<1>3. ASSUME NEW x \in S, NEW y \in S, Rank(S, x) = Rank(S, y) PROVE x = y
  <2>1. x \in Nat /\ y \in Nat /\ Rank(S, x) \in Nat
    BY <1>2, <1>1
  <2>2. ~(x < y) /\ ~(y < x)
    BY <1>3, <2>1, RankGrows
  <2> QED BY <2>1, <2>2
<1>4. r \in Injection(S, 1..n)
  <2>1. r \in [S -> 1..n]
    BY <1>2
  <2>2. \A x, y \in S : r[x] = r[y] => x = y
    BY <1>3
  <2> QED BY <2>1, <2>2 DEF Injection, IsInjective
<1>5. IsFiniteSet(1..n) /\ Cardinality(1..n) = n
  BY <1>1, FS_Interval
<1>6. r \in Surjection(S, 1..n)
  BY <1>4, <1>5, FS_Injection
<1> QED BY <1>2, <1>3, <1>6 DEF Surjection

\* InOrder() is an increasing enumeration of the places.
LEMMA InOrderIncreases ==
  ASSUME NEW S \in SUBSET Nat, IsFiniteSet(S)
  PROVE  /\ InOrder(S) \in [1..Cardinality(S) -> S] /\ Increasing(InOrder(S))
<1> DEFINE n == Cardinality(S)
           f == [i \in 1..n |-> CHOOSE x \in S : Rank(S, x) = i]
<1>1. \A i \in 1..n : f[i] \in S /\ Rank(S, f[i]) = i
  BY RankInjective
<1>2. f \in [1..n -> S]
  BY <1>1
<1> HIDE DEF f
<1>3. n \in Nat
  BY FS_CardinalityType
<1>4. ASSUME NEW j \in 1..n, NEW k \in 1..n, j < k PROVE f[j] < f[k]
  <2>1. f[j] \in S /\ f[k] \in S /\ Rank(S, f[j]) = j /\ Rank(S, f[k]) = k
    BY <1>1
  <2>2. ~(f[k] < f[j])
    <3> SUFFICES ASSUME f[k] < f[j] PROVE FALSE
      OBVIOUS
    <3>1. Rank(S, f[k]) < Rank(S, f[j])
      BY <2>1, RankGrows
    <3> QED BY <1>3, <1>4, <2>1, <3>1
  <2>3. f[j] # f[k]
    BY <1>3, <1>4, <2>1
  <2>4. f[j] \in Nat /\ f[k] \in Nat
    BY <2>1
  <2> QED BY <2>2, <2>3, <2>4
<1>5. \A j, k \in DOMAIN f : j < k => f[j] < f[k]
  BY <1>2, <1>4
<1> QED BY <1>2, <1>5 DEF InOrder, Increasing

\* In an increasing enumeration each place has its rank.
LEMMA IncreasingIsRanked ==
  ASSUME NEW S \in SUBSET Nat, NEW n \in Nat, NEW f \in [1..n -> S], Increasing(f),
         \A x \in S : \E i \in 1..n : f[i] = x
  PROVE  /\ IsFiniteSet(S) /\ Cardinality(S) = n
         /\ \A i \in 1..n : Rank(S, f[i]) = i
<1>1. \A j, k \in 1..n : j < k => f[j] < f[k]
  BY DEF Increasing
<1>2. ASSUME NEW j \in 1..n, NEW k \in 1..n, f[j] <= f[k] PROVE j <= k
  <2>1. f[j] \in Nat /\ f[k] \in Nat
    OBVIOUS
  <2> QED BY <1>1, <1>2, <2>1
<1>3. ASSUME NEW m \in 0..n
      PROVE  LET T == {f[i] : i \in 1..m} IN IsFiniteSet(T) /\ Cardinality(T) = m
  <2> DEFINE T == {f[i] : i \in 1..m}
             g == [i \in 1..m |-> f[i]]
  <2>1. \A j, k \in 1..m : f[j] = f[k] => j = k
    <3>1. \A j \in 1..n : f[j] \in Nat
      OBVIOUS
    <3>2. \A j, k \in 1..m : j \in 1..n /\ k \in 1..n
      OBVIOUS
    <3>3. ASSUME NEW j \in 1..m, NEW k \in 1..m, f[j] = f[k] PROVE j = k
      <4>1. f[j] \in Nat /\ f[j] <= f[k] /\ f[k] <= f[j]
        BY <3>1, <3>2, <3>3
      <4>2. j <= k /\ k <= j
        BY <1>2, <3>2, <4>1
      <4> QED BY <4>2
    <3> QED BY <3>3
  <2>2. g \in Bijection(1..m, T)
    <3>1. g \in [1..m -> T] /\ \A i \in 1..m : g[i] = f[i]
      OBVIOUS
    <3>2. \A t \in T : \E i \in 1..m : g[i] = t
      OBVIOUS
    <3> QED BY <2>1, <3>1, <3>2 DEF Bijection, Injection, IsInjective, Surjection
  <2>3. ExistsBijection(1..m, T)
    BY <2>2 DEF ExistsBijection
  <2>4. IsFiniteSet(1..m) /\ Cardinality(1..m) = m
    BY FS_Interval
  <2> HIDE DEF T
  <2>5. IsFiniteSet(T) /\ Cardinality(T) = m
    BY <2>3, <2>4, FS_Bijection
  <2> QED BY <2>5 DEF T
<1>4. S = {f[i] : i \in 1..n}
  OBVIOUS
<1>5. IsFiniteSet(S) /\ Cardinality(S) = n
  <2>1. n \in 0..n
    OBVIOUS
  <2> QED BY <1>3, <1>4, <2>1
<1>6. ASSUME NEW i \in 1..n PROVE Rank(S, f[i]) = i
  <2>1. {y \in S : y <= f[i]} = {f[j] : j \in 1..i}
    <3>1. ASSUME NEW j \in 1..i PROVE f[j] \in S /\ f[j] <= f[i]
      <4>1. j \in 1..n /\ (j < i \/ j = i)
        OBVIOUS
      <4>2. f[j] \in Nat /\ f[j] \in S /\ f[i] \in Nat
        BY <4>1
      <4> QED BY <1>1, <4>1, <4>2
    <3>2. ASSUME NEW y \in S, y <= f[i] PROVE y \in {f[j] : j \in 1..i}
      <4>1. PICK j \in 1..n : f[j] = y
        OBVIOUS
      <4>2. j <= i
        BY <1>2, <3>2, <4>1
      <4> QED BY <4>1, <4>2
    <3> QED BY <3>1, <3>2
  <2>2. i \in 0..n
    OBVIOUS
  <2> QED BY <1>3, <2>1, <2>2 DEF Rank
<1> QED BY <1>5, <1>6

\* The increasing enumeration is InOrder().
LEMMA InOrderUnique ==
  ASSUME NEW S \in SUBSET Nat, NEW n \in Nat, NEW f \in [1..n -> S], Increasing(f),
         \A x \in S : \E i \in 1..n : f[i] = x
  PROVE  n = Cardinality(S) /\ f = InOrder(S)
<1> DEFINE g == InOrder(S)
<1>1. IsFiniteSet(S) /\ Cardinality(S) = n /\ \A i \in 1..n : Rank(S, f[i]) = i
  BY IncreasingIsRanked
<1>2. g \in [1..n -> S] /\ Increasing(g)
  BY <1>1, InOrderIncreases
<1> HIDE DEF g
<1>3. \A x \in S : \E i \in 1..n : g[i] = x
  <2>1. g \in Injection(1..n, S)
    <3>0. g \in [1..n -> S]
      BY <1>1, <1>2
    <3>1. \A j, k \in 1..n : j < k => g[j] < g[k]
      BY <1>2, <3>0 DEF Increasing
    <3>2. \A j \in 1..n : g[j] \in Nat
      BY <3>0
    <3>3. \A j, k \in 1..n : g[j] = g[k] => j = k
      BY <3>1, <3>2
    <3> QED BY <3>0, <3>3 DEF Injection, IsInjective
  <2>2. IsFiniteSet(1..n) /\ Cardinality(1..n) = n
    BY FS_Interval
  <2>3. g \in Surjection(1..n, S)
    BY <1>1, <2>1, <2>2, FS_Injection
  <2> QED BY <2>3 DEF Surjection
<1>4. \A i \in 1..n : Rank(S, g[i]) = i
  BY <1>2, <1>3, IncreasingIsRanked, SMTT(60)
<1>5. \A i \in 1..n : f[i] = g[i]
  <2>1. \A x, y \in S : Rank(S, x) = Rank(S, y) => x = y
    BY <1>1, RankInjective
  <2>2. \A i \in 1..n : g[i] \in S /\ f[i] \in S
    BY <1>1, <1>2
  <2> QED BY <1>1, <1>4, <2>1, <2>2
<1>6. f = g
  <2>1. g \in [1..n -> S]
    BY <1>1, <1>2
  <2> QED BY <1>5, <2>1
<1> QED BY <1>1, <1>6 DEF g
------------------------------------------------------------------------------
(* An evaluation keeps its read lock from the spawning of its tasks to its   *)
(* return, so the rule set it looks at does not change; its tasks are those  *)
(* of the enabled rules, and what is collected are the answers of the tasks  *)
(* before the cursor.                                                        *)

TaskSet == [rule : Nat, state : {"new", "running"} \cup Ended]
MatchSet == [rule : Nat, matched : BOOLEAN]
LookTypes ==
  /\ tasks \in [Callers -> Seq(TaskSet)]
  /\ cursor \in [Callers -> Nat] /\ matches \in [Callers -> Seq(MatchSet)]

Reading(c) == call_pc[c] \in {"spawn", "collect"}
LockOK ==
  /\ \A c \in Callers : Reading(c) => c \in readers
  /\ \A c \in Callers : call_pc[c] = "write" => writer
  /\ writer => readers = {}
  /\ \A c, d \in Callers : call_pc[c] = "write" /\ call_pc[d] = "write" => c = d

VerdictOf(rs, i) == rs.rules[i].rule.verdict
AnswerOf(rs, i) == [rule |-> i, matched |-> VerdictOf(rs, i) = "match"]

\* The tasks t of a rule set, and the matches m of those before the n-th.
TasksOK(rs, t) ==
  /\ Len(t) = Cardinality(EnabledAt(rs))
  /\ \A j \in 1..Len(t) : /\ t[j].rule = InOrder(EnabledAt(rs))[j]
                          /\ t[j].state \in {"new", "running", VerdictOf(rs, t[j].rule)}
MatchesOK(rs, t, n, m) ==
  /\ n \in 1..(Len(t) + 1)
  /\ \A k \in 1..Len(m) :
       /\ m[k] = AnswerOf(rs, m[k].rule) /\ VerdictOf(rs, m[k].rule) # "panic"
       /\ \E j \in 1..(n - 1) : m[k].rule = t[j].rule
  /\ \A j \in 1..(n - 1) : VerdictOf(rs, t[j].rule) # "panic" =>
       \E k \in 1..Len(m) : m[k].rule = t[j].rule
  /\ \A k, l \in 1..Len(m) : k < l => m[k].rule < m[l].rule

LookOK(c) ==
  IF call_pc[c] = "collect"
  THEN TasksOK(ruleset, tasks[c]) /\ MatchesOK(ruleset, tasks[c], cursor[c], matches[c])
  ELSE tasks[c] = <<>>
LookInv == Inv /\ LookTypes /\ LockOK /\ \A c \in Callers : LookOK(c)

\* The enabled rules in their order: increasing places of rules that have a verdict.
LEMMA EnabledInOrder ==
  ASSUME NEW rs, RulesOK(rs)
  PROVE  /\ IsFiniteSet(EnabledAt(rs)) /\ Cardinality(EnabledAt(rs)) \in Nat
         /\ EnabledAt(rs) \in SUBSET Nat
         /\ InOrder(EnabledAt(rs)) \in [1..Cardinality(EnabledAt(rs)) -> EnabledAt(rs)]
         /\ Increasing(InOrder(EnabledAt(rs)))
         /\ \A i \in EnabledAt(rs) : i \in Nat /\ VerdictOf(rs, i) \in Ended
<1>1. rs.rules \in Seq(CompiledRules)
  BY DEF RulesOK
<1>2. IsFiniteSet(EnabledAt(rs)) /\ EnabledAt(rs) \subseteq 1..Len(rs.rules)
  BY EnabledFinite
<1>3. Len(rs.rules) \in Nat /\ \A i \in 1..Len(rs.rules) : rs.rules[i] \in CompiledRules
  BY <1>1
<1>4. EnabledAt(rs) \in SUBSET Nat
  BY <1>2, <1>3
<1>5. \A i \in EnabledAt(rs) : i \in Nat /\ VerdictOf(rs, i) \in Ended
  BY <1>2, <1>3, <1>4, RulesAssumption DEF CompiledRules, VerdictOf
<1> QED BY <1>2, <1>4, <1>5, InOrderIncreases, FS_CardinalityType

\* While one caller reads, nobody writes.
LEMMA RuleSetIsStill ==
  ASSUME LookInv, RuleSetNext, NEW d \in Callers, Reading(d)' PROVE ruleset' = ruleset
<1> PICK c \in Callers : Call(c) \/ Step(c)
  BY DEF RuleSetNext
<1>1. CASE Write(c)
  <2>1. call_pc[c] = "write" /\ call_pc'[c] = "idle" /\ call_pc \in [Callers -> Places]
        /\ call_pc' = [call_pc EXCEPT ![c] = "idle"]
    BY <1>1 DEF Write, At, LookInv, Inv, CallersOK
  <2>2. d # c
    BY <2>1 DEF Reading
  <2>3. Reading(d)
    BY <2>1, <2>2 DEF Reading
  <2> QED BY <2>1, <2>3 DEF LookInv, LockOK
<1>2. CASE ~Write(c)
  BY <1>2 DEF Call, Step, ReadLock, WriteLock, Spawn, Collect, Return, StartTask, EndTask
<1> QED BY <1>1, <1>2

LEMMA LockStep == ASSUME LookInv, RuleSetNext PROVE LockOK'
<1> PICK c \in Callers : Call(c) \/ Step(c)
  BY DEF RuleSetNext
<1>1. call_pc \in [Callers -> Places] /\ LockOK
  BY DEF LookInv, Inv, CallersOK
<1> USE DEF LockOK, Reading
<1>2. CASE Call(c)
  BY <1>1, <1>2 DEF Call, At
<1>3. CASE ReadLock(c)
  BY <1>1, <1>3 DEF ReadLock, At
<1>4. CASE WriteLock(c)
  BY <1>1, <1>4 DEF WriteLock, At
<1>5. CASE Write(c)
  BY <1>1, <1>5 DEF Write, At
<1>6. CASE Spawn(c)
  BY <1>1, <1>6 DEF Spawn, At, lock
<1>7. CASE Return(c)
  BY <1>1, <1>7 DEF Return, Complete
<1>8. CASE Collect(c)
  BY <1>1, <1>8 DEF Collect, lock
<1>9. ASSUME NEW j \in DOMAIN tasks[c], StartTask(c, j) \/ EndTask(c, j) PROVE LockOK'
  BY <1>1, <1>9 DEF StartTask, EndTask, lock
<1> QED BY <1>2, <1>3, <1>4, <1>5, <1>6, <1>7, <1>8, <1>9 DEF Step

\* A caller whose evaluation is not touched.
LEMMA LookUntouched ==
  ASSUME NEW d \in Callers, LookOK(d), call_pc'[d] = call_pc[d] \/ "collect" \notin {call_pc[d], call_pc'[d]},
         tasks'[d] = tasks[d], cursor'[d] = cursor[d], matches'[d] = matches[d],
         call_pc'[d] = "collect" => ruleset' = ruleset
  PROVE  LookOK(d)'
BY DEF LookOK

\* The tasks of a rule set, as they are spawned.
LEMMA NewTasks ==
  ASSUME NEW rs, RulesOK(rs), NEW n, n = Cardinality(EnabledAt(rs)),
         NEW t, t = [j \in 1..n |-> [rule |-> InOrder(EnabledAt(rs))[j], state |-> "new"]]
  PROVE  t \in Seq(TaskSet) /\ TasksOK(rs, t) /\ MatchesOK(rs, t, 1, <<>>)
<1>1. n \in Nat /\ InOrder(EnabledAt(rs)) \in [1..n -> EnabledAt(rs)] /\ EnabledAt(rs) \in SUBSET Nat
  BY EnabledInOrder
<1>2. \A j \in 1..n : /\ t[j] \in TaskSet
                      /\ t[j].rule = InOrder(EnabledAt(rs))[j] /\ t[j].state = "new"
  BY <1>1 DEF TaskSet
<1>3. t \in [1..n -> TaskSet]
  <2>1. DOMAIN t = 1..n /\ t = [j \in 1..n |-> t[j]]
    OBVIOUS
  <2> QED BY <1>2, <2>1
<1>4. t \in Seq(TaskSet) /\ Len(t) = n
  <2>1. t \in Seq(TaskSet)
    <3> DEFINE Tuples == {[1..k -> TaskSet] : k \in Nat}
    <3>1. [1..n -> TaskSet] \in Tuples
      BY <1>1
    <3>2. t \in UNION Tuples
      BY <1>3, <3>1
    <3> QED BY <3>2, SeqDef
  <2> QED BY <1>1, <1>3, <2>1, LenProperties
<1>5. TasksOK(rs, t)
  BY <1>2, <1>4 DEF TasksOK
<1>6. Len(<<>>) = 0 /\ 1..0 = {} /\ 1..(1 - 1) = {} /\ 1 \in 1..(n + 1)
  BY <1>1
<1>7. MatchesOK(rs, t, 1, <<>>)
  BY <1>4, <1>6 DEF MatchesOK
<1> QED BY <1>4, <1>5, <1>7

\* A task that goes from state to state.
LEMMA TaskMoves ==
  ASSUME NEW rs, RulesOK(rs), NEW t \in Seq(TaskSet), TasksOK(rs, t), NEW j \in 1..Len(t),
         NEW e \in TaskSet, e.rule = t[j].rule, e.state \in {"running", VerdictOf(rs, t[j].rule)}
  PROVE  LET u == [t EXCEPT ![j] = e] IN
         /\ u \in Seq(TaskSet) /\ TasksOK(rs, u)
         /\ \A n, m : MatchesOK(rs, t, n, m) => MatchesOK(rs, u, n, m)
<1> PICK u : u = [t EXCEPT ![j] = e]
  OBVIOUS
<1>1. Len(t) \in Nat /\ \A k \in 1..Len(t) : t[k] \in TaskSet
  OBVIOUS
<1>5. u \in Seq(TaskSet) /\ Len(u) = Len(t) /\ \A k \in 1..Len(t) : u[k] = IF k = j THEN e ELSE t[k]
  BY ExceptSeq
<1>6. \A k \in 1..Len(t) : u[k].rule = t[k].rule
  BY <1>5
<1>7. \A k \in 1..Len(t) : u[k].state \in {"new", "running", VerdictOf(rs, t[k].rule)}
  BY <1>5 DEF TasksOK
<1>8. TasksOK(rs, u)
  BY <1>5, <1>6, <1>7 DEF TasksOK
<1>9. ASSUME NEW n, NEW m, MatchesOK(rs, t, n, m) PROVE MatchesOK(rs, u, n, m)
  <2>1. n \in 1..(Len(t) + 1)
    BY <1>9 DEF MatchesOK
  <2>2. \A k \in 1..(n - 1) : u[k].rule = t[k].rule
    BY <1>1, <1>6, <2>1
  <2>3. \A k \in 1..Len(m) : \E i \in 1..(n - 1) : m[k].rule = u[i].rule
    BY <1>9, <2>2, SMTT(60) DEF MatchesOK
  <2>4. \A i \in 1..(n - 1) : VerdictOf(rs, u[i].rule) # "panic" =>
          \E k \in 1..Len(m) : m[k].rule = u[i].rule
    BY <1>9, <2>2 DEF MatchesOK
  <2> QED BY <1>5, <1>9, <2>3, <2>4 DEF MatchesOK
<1> QED BY <1>5, <1>8, <1>9

\* The n-th task is collected.
LEMMA AnswerCollected ==
  ASSUME NEW rs, RulesOK(rs), NEW t \in Seq(TaskSet), TasksOK(rs, t), NEW n \in 1..Len(t),
         NEW m \in Seq(MatchSet), MatchesOK(rs, t, n, m), t[n].state \in Ended,
         NEW o, o = IF t[n].state = "panic" THEN m
                    ELSE Append(m, [rule |-> t[n].rule, matched |-> t[n].state = "match"])
  PROVE  o \in Seq(MatchSet) /\ MatchesOK(rs, t, n + 1, o)
<1> DEFINE i == t[n].rule
<1>1. Len(t) \in Nat /\ n \in Nat /\ Len(m) \in Nat /\ t[n] \in TaskSet
  OBVIOUS
<1>2. i \in Nat /\ t[n].state = VerdictOf(rs, i)
  BY <1>1 DEF TasksOK, TaskSet, Ended
<1>3. \A j \in 1..(n - 1) : t[j].rule < i
  <2>1. \A j \in 1..Len(t) : t[j].rule = InOrder(EnabledAt(rs))[j]
    BY DEF TasksOK
  <2>2. DOMAIN InOrder(EnabledAt(rs)) = 1..Len(t) /\ Increasing(InOrder(EnabledAt(rs)))
    BY EnabledInOrder DEF TasksOK
  <2>3. \A j, k \in 1..Len(t) : j < k => t[j].rule < t[k].rule
    BY <2>1, <2>2 DEF Increasing
  <2>4. \A j \in 1..(n - 1) : j \in 1..Len(t) /\ j < n
    BY <1>1
  <2> QED BY <2>3, <2>4
<1>4. n + 1 \in 1..(Len(t) + 1) /\ (n + 1) - 1 = n /\ \A j \in 1..n : j \in 1..(n - 1) \/ j = n
  BY <1>1
<1>5. CASE VerdictOf(rs, i) = "panic"
  <2>1. o = m
    BY <1>2, <1>5
  <2>2. \A j \in 1..(n - 1) : j \in 1..n
    BY <1>1
  <2> QED BY <1>4, <1>5, <2>1, <2>2, SMTT(60) DEF MatchesOK
<1>6. CASE VerdictOf(rs, i) # "panic"
  <2> DEFINE a == AnswerOf(rs, i)
  <2>1. o = Append(m, a) /\ a \in MatchSet /\ a.rule = i
    BY <1>2, <1>6 DEF AnswerOf, MatchSet
  <2> HIDE DEF a
  <2>2. /\ o \in Seq(MatchSet) /\ Len(o) = Len(m) + 1
        /\ \A k \in 1..Len(m) : o[k] = m[k]
        /\ o[Len(m) + 1] = a
    BY <2>1, AppendProperties
  <2>3. \A k \in 1..Len(o) : k \in 1..Len(m) \/ k = Len(m) + 1
    BY <1>1, <2>2
  <2>4. ASSUME NEW k \in 1..Len(o)
        PROVE  /\ o[k] = AnswerOf(rs, o[k].rule) /\ VerdictOf(rs, o[k].rule) # "panic"
               /\ \E j \in 1..n : o[k].rule = t[j].rule
    <3>1. CASE k \in 1..Len(m)
      <4>1. PICK j \in 1..(n - 1) : m[k].rule = t[j].rule
        BY <3>1 DEF MatchesOK
      <4>2. j \in 1..n
        BY <1>1
      <4> QED BY <2>2, <3>1, <4>1, <4>2 DEF MatchesOK
    <3>2. CASE k = Len(m) + 1
      <4>1. n \in 1..n
        BY <1>1
      <4> QED BY <1>6, <2>1, <2>2, <3>2, <4>1 DEF a
    <3> QED BY <2>3, <3>1, <3>2
  <2>5. ASSUME NEW j \in 1..n, VerdictOf(rs, t[j].rule) # "panic"
        PROVE  \E k \in 1..Len(o) : o[k].rule = t[j].rule
    <3>1. CASE j \in 1..(n - 1)
      <4>1. PICK k \in 1..Len(m) : m[k].rule = t[j].rule
        BY <2>5, <3>1 DEF MatchesOK
      <4>2. k \in 1..Len(o)
        BY <1>1, <2>2
      <4> QED BY <2>2, <4>1, <4>2
    <3>2. CASE j = n
      <4>1. Len(m) + 1 \in 1..Len(o)
        BY <1>1, <2>2
      <4> QED BY <2>1, <2>2, <3>2, <4>1
    <3> QED BY <1>4, <3>1, <3>2
  <2>6. ASSUME NEW k \in 1..Len(o), NEW l \in 1..Len(o), k < l PROVE o[k].rule < o[l].rule
    <3>1. k \in 1..Len(m)
      BY <1>1, <2>2, <2>6
    <3>2. CASE l \in 1..Len(m)
      BY <2>2, <2>6, <3>1, <3>2 DEF MatchesOK
    <3>3. CASE l = Len(m) + 1
      <4>1. PICK j \in 1..(n - 1) : m[k].rule = t[j].rule
        BY <3>1 DEF MatchesOK
      <4> QED BY <1>3, <2>1, <2>2, <3>1, <3>3, <4>1
    <3> QED BY <2>3, <3>2, <3>3
  <2>7. ASSUME NEW p, p = n + 1 PROVE MatchesOK(rs, t, p, o)
    <3>1. 1..(p - 1) = 1..n /\ p \in 1..(Len(t) + 1)
      BY <1>4, <2>7
    <3>2. \A k \in 1..Len(o) : \E j \in 1..(p - 1) : o[k].rule = t[j].rule
      BY <2>4, <3>1
    <3>3. \A j \in 1..(p - 1) : VerdictOf(rs, t[j].rule) # "panic" =>
            \E k \in 1..Len(o) : o[k].rule = t[j].rule
      BY <2>5, <3>1
    <3> QED BY <2>4, <2>6, <3>1, <3>2, <3>3 DEF MatchesOK
  <2> QED BY <1>4, <2>2, <2>7
<1> QED BY <1>5, <1>6
\* What a step of a caller does to its own evaluation.
LEMMA OwnLook ==
  ASSUME LookInv, NEW c \in Callers, Call(c) \/ Step(c) PROVE LookTypes' /\ LookOK(c)'
<1>1. /\ RulesOK(ruleset) /\ LookTypes /\ LookOK(c)
      /\ call_pc \in [Callers -> Places]
      /\ tasks \in [Callers -> Seq(TaskSet)] /\ tasks[c] \in Seq(TaskSet)
      /\ cursor \in [Callers -> Nat] /\ matches \in [Callers -> Seq(MatchSet)]
      /\ matches[c] \in Seq(MatchSet)
  BY DEF LookInv, Inv, RuleSetOK, LookTypes, CallersOK
<1>2. CASE Call(c) \/ ReadLock(c) \/ WriteLock(c) \/ Write(c)
  <2>1. UNCHANGED evaluation
    BY <1>2 DEF Call, ReadLock, WriteLock, Write
  <2>2. "collect" \notin {call_pc[c], call_pc'[c]}
    BY <1>1, <1>2 DEF Call, ReadLock, WriteLock, Write, At
  <2> QED BY <1>1, <2>1, <2>2, LookUntouched DEF evaluation, LookTypes
<1>3. CASE Spawn(c)
  <2> DEFINE n == Cardinality(EnabledAt(ruleset))
             t == [j \in 1..n |-> [rule |-> InOrder(EnabledAt(ruleset))[j], state |-> "new"]]
  <2>1. /\ tasks' = [tasks EXCEPT ![c] = t] /\ cursor' = [cursor EXCEPT ![c] = 1]
        /\ matches' = [matches EXCEPT ![c] = <<>>] /\ ruleset' = ruleset
        /\ call_pc' = [call_pc EXCEPT ![c] = "collect"]
    BY <1>3 DEF Spawn, At
  <2>2. t \in Seq(TaskSet) /\ TasksOK(ruleset, t) /\ MatchesOK(ruleset, t, 1, <<>>)
    BY <1>1, NewTasks
  <2> HIDE DEF t
  <2> QED BY <1>1, <2>1, <2>2 DEF LookOK, LookTypes
<1>4. ASSUME NEW j \in DOMAIN tasks[c], StartTask(c, j) \/ EndTask(c, j)
      PROVE  LookTypes' /\ LookOK(c)'
  <2> DEFINE t == tasks[c]
             s == IF StartTask(c, j) THEN "running" ELSE VerdictOf(ruleset, t[j].rule)
             e == [rule |-> t[j].rule, state |-> s]
             u == [t EXCEPT ![j] = e]
  <2>0. t[j] \in TaskSet /\ t \in Seq(TaskSet)
    BY <1>1, SMTT(60)
  <2>1. /\ call_pc' = call_pc /\ ruleset' = ruleset /\ cursor' = cursor /\ matches' = matches
        /\ tasks' = [tasks EXCEPT ![c] = u]
    <3>1. [t[j] EXCEPT !.state = s] = e
      BY <2>0, SMTT(60) DEF TaskSet
    <3>2. tasks' = [tasks EXCEPT ![c] = [t EXCEPT ![j] = [t[j] EXCEPT !.state = s]]]
      BY <1>4 DEF StartTask, EndTask, Verdict, VerdictOf
    <3> QED BY <1>4, <3>1, <3>2 DEF StartTask, EndTask
  <2>2. j \in 1..Len(t) /\ t # <<>>
    BY <1>1
  <2>3. call_pc[c] = "collect" /\ TasksOK(ruleset, t) /\ MatchesOK(ruleset, t, cursor[c], matches[c])
    BY <1>1, <2>2 DEF LookOK
  <2>4. s \in {"running", VerdictOf(ruleset, t[j].rule)}
    OBVIOUS
  <2>5. VerdictOf(ruleset, t[j].rule) \in Ended
    BY <1>1, <2>2, <2>3, EnabledInOrder DEF TasksOK
  <2>6. /\ e \in TaskSet /\ e.rule = t[j].rule
        /\ e.state \in {"running", VerdictOf(ruleset, t[j].rule)}
    BY <2>0, <2>4, <2>5 DEF TaskSet
  <2> HIDE DEF e
  <2>7. /\ u \in Seq(TaskSet) /\ TasksOK(ruleset, u)
        /\ \A n, m : MatchesOK(ruleset, t, n, m) => MatchesOK(ruleset, u, n, m)
    <3> HIDE DEF t
    <3> QED BY <1>1, <2>0, <2>2, <2>3, <2>6, TaskMoves
  <2> HIDE DEF u
  <2>8. MatchesOK(ruleset, u, cursor[c], matches[c])
    BY <2>3, <2>7
  <2> HIDE DEF t
  <2> QED BY <1>1, <2>1, <2>3, <2>8, <2>7 DEF LookOK, LookTypes
<1>5. CASE Collect(c)
  <2> DEFINE t == tasks[c]
             n == cursor[c]
             m == matches[c]
             o == IF t[n].state = "panic" THEN m
                  ELSE Append(m, [rule |-> t[n].rule, matched |-> t[n].state = "match"])
  <2>1. /\ call_pc' = call_pc /\ ruleset' = ruleset /\ tasks' = tasks
        /\ call_pc[c] = "collect" /\ n <= Len(t) /\ t[n].state \in Ended
        /\ matches' = [matches EXCEPT ![c] = o] /\ cursor' = [cursor EXCEPT ![c] = n + 1]
    BY <1>5 DEF Collect, lock
  <2>2. TasksOK(ruleset, t) /\ MatchesOK(ruleset, t, n, m)
    BY <1>1, <2>1 DEF LookOK
  <2>3. n \in 1..Len(t) /\ n \in Nat
    BY <1>1, <2>1, <2>2 DEF MatchesOK
  <2>4. o \in Seq(MatchSet) /\ MatchesOK(ruleset, t, n + 1, o)
    BY <1>1, <2>1, <2>2, <2>3, AnswerCollected
  <2> HIDE DEF o
  <2>5. n + 1 \in Nat
    BY <2>3
  <2> QED BY <1>1, <2>1, <2>2, <2>4, <2>5 DEF LookOK, LookTypes
<1>6. CASE Return(c)
  <2>1. /\ tasks' = [tasks EXCEPT ![c] = <<>>] /\ matches' = [matches EXCEPT ![c] = <<>>]
        /\ cursor' = [cursor EXCEPT ![c] = 1] /\ call_pc' = [call_pc EXCEPT ![c] = "idle"]
    BY <1>6 DEF Return
  <2>2. <<>> \in Seq(TaskSet) /\ <<>> \in Seq(MatchSet)
    OBVIOUS
  <2> QED BY <1>1, <2>1, <2>2 DEF LookOK, LookTypes
<1> QED BY <1>2, <1>3, <1>4, <1>5, <1>6 DEF Step

LEMMA LookStep == ASSUME LookInv, RuleSetNext PROVE LookTypes' /\ \A d \in Callers : LookOK(d)'
<1> PICK c \in Callers : Call(c) \/ Step(c)
  BY DEF RuleSetNext
<1>1. /\ call_pc \in [Callers -> Places] /\ LookTypes
      /\ \A d \in Callers : LookOK(d)
  BY DEF LookInv, Inv, CallersOK
<1>2. LookTypes' /\ LookOK(c)'
  BY OwnLook
<1>3. ASSUME NEW d \in Callers, d # c PROVE LookOK(d)'
  <2>1. /\ call_pc'[d] = call_pc[d] /\ tasks'[d] = tasks[d] /\ cursor'[d] = cursor[d]
        /\ matches'[d] = matches[d]
    BY <1>1, <1>3, SMTT(30) DEF Call, Step, ReadLock, WriteLock, Write, Spawn, StartTask, EndTask, Collect,
       Return, At, evaluation, LookTypes
  <2>2. call_pc'[d] = "collect" => ruleset' = ruleset
    BY RuleSetIsStill DEF Reading
  <2> QED BY <1>1, <2>1, <2>2, LookUntouched
<1> QED BY <1>2, <1>3

LEMMA LookInvariant == RuleSetSpec => []LookInv
<1>1. RuleSetInit => LookInv
  <2> SUFFICES ASSUME RuleSetInit PROVE LookInv
    OBVIOUS
  <2>1. Inv
    BY InvInitially
  <2>2. <<>> \in Seq(TaskSet) /\ <<>> \in Seq(MatchSet)
    OBVIOUS
  <2>3. LookTypes /\ LockOK /\ \A c \in Callers : LookOK(c)
    BY <2>2 DEF RuleSetInit, LookTypes, LockOK, LookOK, Reading
  <2> QED BY <2>1, <2>3 DEF LookInv
<1>2. LookInv /\ [RuleSetNext]_concurrent => (LookTypes /\ LockOK /\ \A c \in Callers : LookOK(c))'
  <2> SUFFICES ASSUME LookInv, [RuleSetNext]_concurrent
               PROVE  (LookTypes /\ LockOK /\ \A c \in Callers : LookOK(c))'
    OBVIOUS
  <2>1. CASE RuleSetNext
    BY <2>1, LockStep, LookStep
  <2>2. CASE UNCHANGED concurrent
    <3>1. UNCHANGED <<ruleset, readers, writer, call_pc, tasks, cursor, matches>>
      BY <2>2 DEF concurrent, lock, evaluation
    <3>2. LookTypes' /\ LockOK'
      BY <3>1 DEF LookInv, LookTypes, LockOK, Reading
    <3>3. \A c \in Callers : LookOK(c)'
      BY <3>1, LookUntouched DEF LookInv
    <3> QED BY <3>2, <3>3
  <2> QED BY <2>1, <2>2
<1>3. Inv /\ LookTypes /\ LockOK /\ (\A c \in Callers : LookOK(c)) <=> LookInv
  BY Zenon DEF LookInv
<1> QED BY <1>1, <1>2, <1>3, InvAlways, PTL DEF RuleSetSpec

\* An evaluation returns the answers of one rule set, that of its return, one for each
\* enabled rule that does not panic and in the order of the rules, however its tasks are
\* scheduled and whatever writers wait meanwhile: it holds its read lock throughout, and the
\* rule set moves only under the write lock.
THEOREM ResultsAreOneLook == RuleSetSpec => []ResultIsOneLook
<1>1. LookInv => ResultIsOneLook
  <2> SUFFICES ASSUME LookInv, NEW c \in Callers, Complete(c)
               PROVE  LET answered == {i \in EnabledAt(ruleset) : ruleset.rules[i].rule.verdict # "panic"} IN
                      matches[c] = [k \in 1..Cardinality(answered) |->
                        LET i == InOrder(answered)[k] IN
                        [rule |-> i, matched |-> ruleset.rules[i].rule.verdict = "match"]]
    BY Zenon DEF ResultIsOneLook
  <2> DEFINE answered == {i \in EnabledAt(ruleset) : ruleset.rules[i].rule.verdict # "panic"}
             t == tasks[c]
             m == matches[c]
             f == [k \in 1..Len(m) |-> m[k].rule]
  <2>1. /\ RulesOK(ruleset) /\ TasksOK(ruleset, t) /\ MatchesOK(ruleset, t, cursor[c], m)
        /\ cursor[c] \in Nat /\ cursor[c] > Len(t) /\ t \in Seq(TaskSet) /\ m \in Seq(MatchSet)
    BY DEF LookInv, Inv, RuleSetOK, LookTypes, LookOK, Complete
  <2>2. Len(t) \in Nat /\ Len(m) \in Nat /\ cursor[c] - 1 = Len(t)
    <3>1. Len(t) \in Nat /\ Len(m) \in Nat
      BY <2>1
    <3>2. cursor[c] \in 1..(Len(t) + 1)
      BY <2>1 DEF MatchesOK
    <3> HIDE DEF t, m
    <3> QED BY <2>1, <3>1, <3>2
  <2>3. /\ answered \in SUBSET Nat /\ IsFiniteSet(EnabledAt(ruleset))
        /\ InOrder(EnabledAt(ruleset)) \in [1..Len(t) -> EnabledAt(ruleset)]
    BY <2>1, EnabledInOrder DEF TasksOK
  <2>4. \A x \in EnabledAt(ruleset) : \E j \in 1..Len(t) : t[j].rule = x
    <3>1. \A j \in 1..Len(t) : t[j].rule = InOrder(EnabledAt(ruleset))[j]
      BY <2>1 DEF TasksOK
    <3>2. IsFiniteSet(1..Len(t)) /\ Cardinality(1..Len(t)) = Cardinality(EnabledAt(ruleset))
      BY <2>1, <2>2, FS_Interval DEF TasksOK
    <3>3. InOrder(EnabledAt(ruleset)) \in Injection(1..Len(t), EnabledAt(ruleset))
      <4>1. Increasing(InOrder(EnabledAt(ruleset))) /\ EnabledAt(ruleset) \in SUBSET Nat
        BY <2>1, EnabledInOrder
      <4>2. \A j, k \in 1..Len(t) : j < k =>
              InOrder(EnabledAt(ruleset))[j] < InOrder(EnabledAt(ruleset))[k]
        BY <2>3, <4>1 DEF Increasing
      <4>3. \A j \in 1..Len(t) : InOrder(EnabledAt(ruleset))[j] \in Nat
        BY <2>3, <4>1
      <4>4. \A j, k \in 1..Len(t) :
              InOrder(EnabledAt(ruleset))[j] = InOrder(EnabledAt(ruleset))[k] => j = k
        BY <2>2, <4>2, <4>3
      <4> QED BY <2>3, <4>4 DEF Injection, IsInjective
    <3>4. InOrder(EnabledAt(ruleset)) \in Surjection(1..Len(t), EnabledAt(ruleset))
      BY <2>3, <3>2, <3>3, FS_Injection, SMTT(60)
    <3> QED BY <3>1, <3>4 DEF Surjection
  <2>5. \A k \in 1..Len(m) : m[k].rule \in answered
    <3>1. \A j \in 1..Len(t) : t[j].rule \in EnabledAt(ruleset)
      BY <2>1, <2>3 DEF TasksOK
    <3> QED BY <2>1, <2>2, <3>1 DEF MatchesOK, VerdictOf
  <2>6. f \in [1..Len(m) -> answered]
    BY <2>5
  <2>7. Increasing(f)
    BY <2>1 DEF MatchesOK, Increasing
  <2>8. \A x \in answered : \E k \in 1..Len(m) : f[k] = x
    <3> SUFFICES ASSUME NEW x \in answered PROVE \E k \in 1..Len(m) : m[k].rule = x
      OBVIOUS
    <3>1. PICK j \in 1..Len(t) : t[j].rule = x
      BY <2>4
    <3>2. VerdictOf(ruleset, t[j].rule) # "panic" /\ j \in 1..(cursor[c] - 1)
      BY <2>2, <3>1 DEF VerdictOf
    <3> QED BY <2>1, <3>1, <3>2 DEF MatchesOK
  <2> HIDE DEF f
  <2>9. Len(m) = Cardinality(answered) /\ f = InOrder(answered)
    BY <2>2, <2>3, <2>6, <2>7, <2>8, InOrderUnique
  <2>10. \A k \in 1..Len(m) : m[k] = AnswerOf(ruleset, f[k])
    BY <2>1 DEF MatchesOK, f
  <2>11. m = [k \in 1..Len(m) |-> m[k]]
    BY <2>1
  <2>12. m = [k \in 1..Len(m) |-> AnswerOf(ruleset, f[k])]
    BY <2>10, <2>11
  <2> HIDE DEF m, answered
  <2>13. m = [k \in 1..Cardinality(answered) |-> AnswerOf(ruleset, InOrder(answered)[k])]
    BY <2>9, <2>12
  <2> QED BY <2>13, ZenonT(60) DEF AnswerOf, VerdictOf, m, answered
<1> QED BY <1>1, LookInvariant, PTL
------------------------------------------------------------------------------
(* The permits.  While an evaluation collects, each permit is either in the  *)
(* semaphore or with a task that runs; the bound on the rules is kept by     *)
(* counting the rules that are still to be added.                            *)

Running(t) == {j \in 1..Len(t) : t[j].state = "running"}
Balanced(n, t) == IsFiniteSet(Running(t)) /\ n + Cardinality(Running(t)) = MaxConcurrent
PermitsOK(c) ==
  /\ permits[c] \in Nat
  /\ IF call_pc[c] = "collect" THEN Balanced(permits[c], tasks[c])
     ELSE permits[c] = 0 /\ cursor[c] = 1

Adders == {c \in Callers : call_pc[c] \in {"waiting", "write"} /\ op[c].kind = "add"}
RoomOK == IsFiniteSet(Adders) /\ Len(ruleset.rules) + Cardinality(Adders) <= MaxRules

PermitTypes ==
  /\ DOMAIN permits = Callers /\ readers \subseteq Callers /\ writer \in BOOLEAN
  /\ \A c \in Callers : PermitsOK(c)
PermitInv == PermitTypes /\ RoomOK

\* A task that begins to run takes a permit, one that ends gives it back.
LEMMA TaskTakesPermit ==
  ASSUME NEW t \in Seq(TaskSet), NEW j \in 1..Len(t), NEW s \in {"running"} \cup Ended,
         NEW n \in Nat, Balanced(n, t), NEW m \in Nat,
         \/ t[j].state = "new" /\ s = "running" /\ n > 0 /\ m = n - 1
         \/ t[j].state = "running" /\ s # "running" /\ m = n + 1
  PROVE  Balanced(m, [t EXCEPT ![j].state = s])
<1> PICK u : u = [t EXCEPT ![j].state = s]
  OBVIOUS
<1> SUFFICES Balanced(m, u)
  OBVIOUS
<1>1. t[j] \in TaskSet /\ Len(t) \in Nat /\ MaxConcurrent \in Nat
  BY RulesAssumption
<1>2. PICK e : e = [t[j] EXCEPT !.state = s]
  OBVIOUS
<1>3. e \in TaskSet /\ e.state = s /\ u = [t EXCEPT ![j] = e]
  BY <1>1, <1>2 DEF TaskSet
<1>4. Len(u) = Len(t) /\ \A k \in 1..Len(t) : u[k] = IF k = j THEN e ELSE t[k]
  BY <1>3, ExceptSeq
<1>5. PICK R : /\ R = Running(t) /\ IsFiniteSet(R) /\ Cardinality(R) \in Nat
               /\ n + Cardinality(R) = MaxConcurrent
  BY FS_CardinalityType DEF Balanced
<1>6. CASE t[j].state = "new" /\ s = "running" /\ n > 0 /\ m = n - 1
  <2>1. Running(u) = R \cup {j} /\ j \notin R
    BY <1>3, <1>4, <1>5, <1>6 DEF Running
  <2>2. IsFiniteSet(R) /\ j \notin R
    BY <1>5, <2>1
  <2>3. IsFiniteSet(R \cup {j}) /\ Cardinality(R \cup {j}) = Cardinality(R) + 1
    BY <2>2, FS_AddElement
  <2>4. IsFiniteSet(Running(u)) /\ Cardinality(Running(u)) = Cardinality(R) + 1
    BY <2>1, <2>3
  <2>5. m + (Cardinality(R) + 1) = MaxConcurrent
    BY <1>1, <1>5, <1>6
  <2> QED BY <2>4, <2>5 DEF Balanced
<1>7. CASE t[j].state = "running" /\ s # "running" /\ m = n + 1
  <2>1. Running(u) = R \ {j} /\ j \in R
    BY <1>3, <1>4, <1>5, <1>7 DEF Running
  <2>2. IsFiniteSet(R) /\ j \in R
    BY <1>5, <2>1
  <2>3. IsFiniteSet(R \ {j}) /\ Cardinality(R \ {j}) = Cardinality(R) - 1
    BY <2>2, FS_RemoveElement
  <2>4. IsFiniteSet(Running(u)) /\ Cardinality(Running(u)) = Cardinality(R) - 1
    BY <2>1, <2>3
  <2>5. m + (Cardinality(R) - 1) = MaxConcurrent
    BY <1>1, <1>5, <1>7
  <2> QED BY <2>4, <2>5 DEF Balanced
<1> QED BY <1>6, <1>7

\* What a step of a caller does to its own permits.
LEMMA OwnPermits ==
  ASSUME LookInv, PermitInv, NEW c \in Callers, Call(c) \/ Step(c)
  PROVE  PermitsOK(c)' /\ DOMAIN permits' = Callers
<1>1. /\ RulesOK(ruleset) /\ LookOK(c) /\ PermitsOK(c) /\ DOMAIN permits = Callers
      /\ call_pc \in [Callers -> Places] /\ tasks \in [Callers -> Seq(TaskSet)]
      /\ tasks[c] \in Seq(TaskSet) /\ cursor \in [Callers -> Nat]
  BY DEF LookInv, Inv, RuleSetOK, LookTypes, CallersOK, PermitInv, PermitTypes
<1>2. CASE Call(c) \/ ReadLock(c) \/ WriteLock(c) \/ Write(c)
  <2>1. UNCHANGED evaluation
    BY <1>2 DEF Call, ReadLock, WriteLock, Write
  <2>2. "collect" \notin {call_pc[c], call_pc'[c]}
    BY <1>1, <1>2 DEF Call, ReadLock, WriteLock, Write, At
  <2> QED BY <1>1, <2>1, <2>2 DEF evaluation, PermitsOK
<1>3. CASE Spawn(c)
  <2>1. PICK n \in Nat : n = Cardinality(EnabledAt(ruleset))
    BY <1>1, EnabledInOrder
  <2>2. PICK t : t = [j \in 1..n |-> [rule |-> InOrder(EnabledAt(ruleset))[j], state |-> "new"]]
    OBVIOUS
  <2>3. tasks'[c] = t /\ permits'[c] = MaxConcurrent /\ call_pc'[c] = "collect" /\ DOMAIN permits' = Callers
    BY <1>1, <1>3, <2>1, <2>2 DEF Spawn, At
  <2>4. t \in Seq(TaskSet) /\ TasksOK(ruleset, t)
    BY <1>1, <2>1, <2>2, NewTasks
  <2>5. Len(t) = n
    BY <2>1, <2>4 DEF TasksOK
  <2>6. Running(t) = {}
    BY <2>2, <2>5 DEF Running
  <2>7. Balanced(MaxConcurrent, t)
    BY <2>6, FS_EmptySet, RulesAssumption DEF Balanced
  <2> QED BY <2>3, <2>7, RulesAssumption DEF PermitsOK
<1>4. ASSUME NEW j \in DOMAIN tasks[c], StartTask(c, j) \/ EndTask(c, j)
      PROVE  PermitsOK(c)' /\ DOMAIN permits' = Callers
  <2>1. PICK t \in Seq(TaskSet) : t = tasks[c]
    BY <1>1
  <2>2. j \in 1..Len(t) /\ t # <<>>
    BY <1>4, <2>1
  <2>3. call_pc[c] = "collect" /\ TasksOK(ruleset, t)
    BY <1>1, <2>1, <2>2 DEF LookOK
  <2>4. PICK n \in Nat : n = permits[c] /\ Balanced(n, t)
    BY <1>1, <2>1, <2>3 DEF PermitsOK
  <2>5. PICK s : s = IF StartTask(c, j) THEN "running" ELSE VerdictOf(ruleset, t[j].rule)
    OBVIOUS
  <2>6. VerdictOf(ruleset, t[j].rule) \in Ended
    BY <1>1, <2>2, <2>3, EnabledInOrder DEF TasksOK
  <2>7. PICK m : m = IF StartTask(c, j) THEN n - 1 ELSE n + 1
    OBVIOUS
  <2>8. /\ tasks' = [tasks EXCEPT ![c][j].state = s] /\ permits' = [permits EXCEPT ![c] = m]
        /\ call_pc' = call_pc
    BY <1>4, <2>1, <2>4, <2>5, <2>7 DEF StartTask, EndTask, Verdict, VerdictOf
  <2>9. \/ t[j].state = "new" /\ s = "running" /\ n > 0 /\ m = n - 1
        \/ t[j].state = "running" /\ s # "running" /\ m = n + 1
    BY <1>4, <2>1, <2>4, <2>5, <2>6, <2>7 DEF StartTask, EndTask, Ended
  <2>10. m \in Nat /\ s \in {"running"} \cup Ended
    BY <2>4, <2>5, <2>6, <2>9
  <2>11. Balanced(m, [t EXCEPT ![j].state = s])
    BY <2>2, <2>4, <2>9, <2>10, TaskTakesPermit
  <2>12. tasks'[c] = [t EXCEPT ![j].state = s] /\ permits'[c] = m /\ call_pc'[c] = "collect"
         /\ DOMAIN permits' = Callers
    BY <1>1, <2>1, <2>3, <2>8
  <2> QED BY <2>10, <2>11, <2>12 DEF PermitsOK
<1>5. CASE Collect(c)
  BY <1>1, <1>5 DEF Collect, PermitsOK
<1>6. CASE Return(c)
  BY <1>1, <1>6 DEF Return, PermitsOK
<1> QED BY <1>2, <1>3, <1>4, <1>5, <1>6 DEF Step

\* The lengths of what the two writers leave.
LEMMA RulesGrow ==
  ASSUME NEW rs, RulesOK(rs), NEW rule, NEW key, NEW enabled
  PROVE  /\ Len(AddRule(rs, rule).rules) \in {Len(rs.rules), Len(rs.rules) + 1}
         /\ Len(SetRuleEnabled(rs, key, enabled).rules) = Len(rs.rules)
<1>1. PICK r \in Seq(CompiledRules) : r = rs.rules
  BY DEF RulesOK
<1>2. /\ rs = [rules |-> r, index |-> rs.index, enabled |-> rs.enabled, failed |-> rs.failed]
      /\ Len(r) \in Nat /\ DOMAIN r = 1..Len(r)
  BY <1>1 DEF RulesOK
<1>3. Len(AddRule(rs, rule).rules) \in {Len(r), Len(r) + 1}
  <2>1. CASE ~rule.builds
    BY <1>1, <2>1 DEF AddRule
  <2>2. CASE rule.builds
    <3>1. PICK e : e = [rule |-> rule, enabled |-> TRUE]
      OBVIOUS
    <3>2. AddRule(rs, rule).rules = Append(r, e)
      BY <1>1, <1>2, <2>2, <3>1 DEF AddRule
    <3>3. r \in Seq(CompiledRules \cup {e}) /\ e \in CompiledRules \cup {e}
      OBVIOUS
    <3>4. Len(Append(r, e)) = Len(r) + 1
      BY <3>3, AppendProperties
    <3> QED BY <3>2, <3>4
  <2> QED BY <2>1, <2>2
<1>4. Len(SetRuleEnabled(rs, key, enabled).rules) = Len(r)
  <2>1. PICK at : at = {i \in IndexOf(rs.index, key) : rs.rules[i].enabled # enabled}
    OBVIOUS
  <2>2. CASE at = {}
    BY <1>1, <2>1, <2>2 DEF SetRuleEnabled
  <2>3. CASE at # {}
    <3>1. PICK k : k = CHOOSE i \in at : TRUE
      OBVIOUS
    <3>2. SetRuleEnabled(rs, key, enabled).rules = [r EXCEPT ![k].enabled = enabled]
      BY <1>1, <1>2, <2>1, <2>3, <3>1 DEF SetRuleEnabled
    <3> QED BY <1>2, <3>2
  <2> QED BY <2>2, <2>3
<1> QED BY <1>1, <1>3, <1>4

\* A rule that is added was counted since it was called for.
LEMMA RoomKept == ASSUME LookInv, RoomOK, RuleSetNext PROVE RoomOK'
<1> PICK c \in Callers : Call(c) \/ Step(c)
  BY DEF RuleSetNext
<1>1. /\ RulesOK(ruleset) /\ CallersOK /\ call_pc \in [Callers -> Places] /\ op \in [Callers -> Calls]
      /\ Len(ruleset.rules) \in Nat /\ Len(ruleset.rules)' \in Nat
  <2>1. RulesOK(ruleset')
    BY RuleSetKept DEF LookInv, RuleSetOK
  <2> QED BY <2>1 DEF LookInv, Inv, RuleSetOK, RulesOK, CallersOK
<1>2. PICK A : A = Adders
  OBVIOUS
<1>3. IsFiniteSet(A) /\ Cardinality(A) \in Nat /\ Len(ruleset.rules) + Cardinality(A) <= MaxRules
  BY <1>2, FS_CardinalityType DEF RoomOK
<1>4. CASE Call(c)
  <2>1. PICK call \in Calls : /\ call.kind = "add" => Len(ruleset.rules) + Adding < MaxRules
                              /\ op' = [op EXCEPT ![c] = call]
    BY <1>4 DEF Call
  <2>2. call_pc[c] = "idle" /\ call_pc' = [call_pc EXCEPT ![c] = "waiting"] /\ ruleset' = ruleset
    BY <1>4 DEF Call, At
  <2>3. c \notin A /\ Adders' = (IF call.kind = "add" THEN A \cup {c} ELSE A)
    BY <1>1, <1>2, <2>1, <2>2 DEF Adders
  <2>4. Adding = Cardinality(A)
    BY <1>2 DEF Adding, Adders
  <2>5. CASE call.kind = "add"
    <3>1. IsFiniteSet(Adders') /\ Cardinality(Adders') = Cardinality(A) + 1
      BY <1>3, <2>3, <2>5, FS_AddElement
    <3> QED BY <1>1, <1>3, <2>1, <2>2, <2>4, <2>5, <3>1, RulesAssumption DEF RoomOK
  <2>6. CASE call.kind # "add"
    BY <1>3, <2>2, <2>3, <2>6 DEF RoomOK
  <2> QED BY <2>5, <2>6
<1>5. CASE Write(c)
  <2>1. /\ call_pc[c] = "write" /\ call_pc' = [call_pc EXCEPT ![c] = "idle"] /\ op' = op
        /\ ruleset' = (IF op[c].kind = "add" THEN AddRule(ruleset, op[c].rule)
                       ELSE SetRuleEnabled(ruleset, op[c].key, op[c].enabled))
    BY <1>5 DEF Write, At
  <2>2. Adders' = A \ {c} /\ (c \in A <=> op[c].kind = "add")
    BY <1>1, <1>2, <2>1 DEF Adders
  <2>3. CASE op[c].kind = "add"
    <3>1. IsFiniteSet(Adders') /\ Cardinality(Adders') = Cardinality(A) - 1
      BY <1>3, <2>2, <2>3, FS_RemoveElement
    <3>2. Len(ruleset.rules)' <= Len(ruleset.rules) + 1
      <4>1. Len(AddRule(ruleset, op[c].rule).rules) \in {Len(ruleset.rules), Len(ruleset.rules) + 1}
        BY <1>1, RulesGrow
      <4> QED BY <1>1, <2>1, <2>3, <4>1
    <3> QED BY <1>1, <1>3, <3>1, <3>2, RulesAssumption DEF RoomOK
  <2>4. CASE op[c].kind # "add"
    <3>1. Adders' = A
      BY <2>2, <2>4
    <3>2. Len(ruleset.rules)' = Len(ruleset.rules)
      <4>1. Len(SetRuleEnabled(ruleset, op[c].key, op[c].enabled).rules) = Len(ruleset.rules)
        BY <1>1, RulesGrow
      <4> QED BY <2>1, <2>4, <4>1
    <3> QED BY <1>3, <3>1, <3>2 DEF RoomOK
  <2> QED BY <2>3, <2>4
<1>6. CASE ~Call(c) /\ ~Write(c)
  <2>1. ruleset' = ruleset /\ op' = op
    BY <1>6 DEF Step, ReadLock, WriteLock, Spawn, Collect, Return, StartTask, EndTask
  <2>2. Adders' = A
    <3>1. CASE ReadLock(c) \/ WriteLock(c) \/ Spawn(c) \/ Return(c)
      BY <1>1, <1>2, <3>1 DEF ReadLock, WriteLock, Spawn, Return, Complete, At, Adders
    <3>2. CASE Collect(c) \/ \E j \in DOMAIN tasks[c] : StartTask(c, j) \/ EndTask(c, j)
      BY <1>2, <3>2 DEF Collect, StartTask, EndTask, Adders
    <3> QED BY <1>6, <3>1, <3>2 DEF Step
  <2> QED BY <1>3, <2>1, <2>2 DEF RoomOK
<1> QED BY <1>4, <1>5, <1>6

LEMMA PermitStep == ASSUME LookInv, PermitInv, RuleSetNext PROVE PermitTypes'
<1> PICK c \in Callers : Call(c) \/ Step(c)
  BY DEF RuleSetNext
<1>1. /\ call_pc \in [Callers -> Places] /\ LookTypes /\ PermitTypes
  BY DEF LookInv, Inv, CallersOK, PermitInv
<1>2. PermitsOK(c)' /\ DOMAIN permits' = Callers
  BY OwnPermits
<1>3. ASSUME NEW d \in Callers, d # c PROVE PermitsOK(d)'
  <2>1. /\ call_pc'[d] = call_pc[d] /\ tasks'[d] = tasks[d] /\ cursor'[d] = cursor[d]
        /\ permits'[d] = permits[d]
    BY <1>1, <1>3, SMTT(30) DEF Call, Step, ReadLock, WriteLock, Write, Spawn, StartTask, EndTask, Collect,
       Return, At, evaluation, LookTypes, PermitTypes
  <2>2. PermitsOK(d)
    BY <1>1 DEF PermitTypes
  <2> QED BY <2>1, <2>2 DEF PermitsOK
<1>4. readers' \subseteq Callers /\ writer' \in BOOLEAN
  BY <1>1 DEF PermitTypes, Call, Step, ReadLock, WriteLock, Write, Spawn, StartTask, EndTask, Collect, Return, lock
<1> QED BY <1>2, <1>3, <1>4 DEF PermitTypes

LEMMA PermitInvariant == RuleSetSpec => []PermitInv
<1>1. RuleSetInit => PermitInv
  <2> SUFFICES ASSUME RuleSetInit PROVE PermitInv
    OBVIOUS
  <2>1. Adders = {} /\ Len(ruleset.rules) = 0
    BY DEF RuleSetInit, Adders, NewRuleSet
  <2>2. RoomOK
    BY <2>1, FS_EmptySet, RulesAssumption DEF RoomOK
  <2>3. PermitTypes
    BY DEF RuleSetInit, PermitTypes, PermitsOK
  <2> QED BY <2>2, <2>3 DEF PermitInv
<1>2. LookInv /\ PermitInv /\ [RuleSetNext]_concurrent => PermitInv'
  <2> SUFFICES ASSUME LookInv, PermitInv, [RuleSetNext]_concurrent PROVE PermitInv'
    OBVIOUS
  <2>1. CASE RuleSetNext
    BY <2>1, PermitStep, RoomKept DEF PermitInv
  <2>2. CASE UNCHANGED concurrent
    <3>1. UNCHANGED <<ruleset, readers, writer, call_pc, op, tasks, cursor, permits>>
      BY <2>2 DEF concurrent, lock, evaluation
    <3>2. PermitTypes'
      BY <3>1 DEF PermitInv, PermitTypes, PermitsOK
    <3>3. RoomOK'
      BY <3>1 DEF PermitInv, RoomOK, Adders
    <3> QED BY <3>2, <3>3 DEF PermitInv
  <2> QED BY <2>1, <2>2
<1> QED BY <1>1, <1>2, LookInvariant, PTL DEF RuleSetSpec

\* No evaluation ever has more than MAX_CONCURRENT_EVALUATIONS of its tasks running, or a
\* permit more than the semaphore began with, whichever of them panic; a task is awaited only
\* within the tasks there are, and the lock and the counts have their types.
THEOREM RuleSetTypes ==
  RuleSetSpec => [](RuleSetTypeOK
                    /\ \A c \in Callers : Cardinality(Running(tasks[c])) \in 0..MaxConcurrent)
<1>1. LookInv /\ PermitInv =>
        RuleSetTypeOK /\ \A c \in Callers : Cardinality(Running(tasks[c])) \in 0..MaxConcurrent
  <2> SUFFICES ASSUME LookInv, PermitInv
               PROVE  RuleSetTypeOK /\ \A c \in Callers : Cardinality(Running(tasks[c])) \in 0..MaxConcurrent
    OBVIOUS
  <2>1. Len(ruleset.rules) \in 0..MaxRules /\ ruleset.enabled \in Nat
    <3>1. RulesOK(ruleset)
      BY DEF LookInv, Inv, RuleSetOK
    <3>2. Len(ruleset.rules) \in Nat /\ ruleset.enabled \in Nat
      BY <3>1 DEF RulesOK
    <3>3. Cardinality(Adders) \in Nat /\ Len(ruleset.rules) + Cardinality(Adders) <= MaxRules
      BY FS_CardinalityType DEF PermitInv, RoomOK
    <3> QED BY <3>2, <3>3, RulesAssumption
  <2>2. ASSUME NEW c \in Callers
        PROVE  /\ permits[c] \in 0..MaxConcurrent /\ cursor[c] \in 1..(Len(tasks[c]) + 1)
               /\ Cardinality(Running(tasks[c])) \in 0..MaxConcurrent
    <3>1. LookOK(c) /\ PermitsOK(c) /\ MaxConcurrent \in Nat
      BY RulesAssumption DEF LookInv, PermitInv, PermitTypes
    <3>2. CASE call_pc[c] = "collect"
      <4>1. cursor[c] \in 1..(Len(tasks[c]) + 1)
        BY <3>1, <3>2 DEF LookOK, MatchesOK
      <4>2. Balanced(permits[c], tasks[c]) /\ permits[c] \in Nat
        BY <3>1, <3>2 DEF PermitsOK
      <4>3. Cardinality(Running(tasks[c])) \in Nat
        BY <4>2, FS_CardinalityType DEF Balanced
      <4> QED BY <3>1, <4>1, <4>2, <4>3 DEF Balanced
    <3>3. CASE call_pc[c] # "collect"
      <4>1. tasks[c] = <<>> /\ permits[c] = 0 /\ cursor[c] = 1
        BY <3>1, <3>3 DEF LookOK, PermitsOK
      <4>2. Len(tasks[c]) = 0 /\ Running(tasks[c]) = {}
        BY <4>1 DEF Running
      <4>3. Cardinality(Running(tasks[c])) = 0
        BY <4>2, FS_EmptySet
      <4> QED BY <3>1, <4>1, <4>2, <4>3
    <3> QED BY <3>2, <3>3
  <2> QED BY <2>1, <2>2 DEF RuleSetTypeOK, PermitInv, PermitTypes
<1> QED BY <1>1, LookInvariant, PermitInvariant, PTL
================================================================================
