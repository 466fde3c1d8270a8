------------------------------ MODULE ServiceProofs ------------------------------
(***************************************************************************)
(* What TLAPS proves of the loading of rules, for any tree of directories, *)
(* and of the service, for any connections, requests and limits.           *)
(***************************************************************************)
EXTENDS SigmaService, FiniteSetTheorems, SequenceTheorems, TLAPS

------------------------------------------------------------------------------
(* The loading *)

Loadable == {[rule |-> e.file, enabled |-> TRUE] : e \in AllEntries}

\* What is on the stack exists, what was loaded is a list, and each file looked at is in
\* it or counted as failed; an error that is to fail the loading has done so.
EngineInv ==
  /\ outcome \in {"loading", "ready", "failed"}
  /\ dirs_to_process \in Seq(Directories) /\ entries \subseteq AllEntries
  /\ loaded = [rules |-> loaded.rules, index |-> loaded.index,
               enabled |-> loaded.enabled, failed |-> loaded.failed]
  /\ loaded.rules \in Seq(Loadable) /\ loaded.failed \in Nat
  /\ Len(loaded.rules) + loaded.failed = seen
  /\ entry = "load" /\ fail_on_parse_error => loaded.failed = 0 \/ outcome = "failed"
  /\ entry = "new" /\ outcome = "failed" => cut /\ fail_on_parse_error

LEMMA EngineInitially == EngineInit => EngineInv
<1> SUFFICES ASSUME EngineInit PROVE EngineInv
  OBVIOUS
<1>1. loaded = [rules |-> <<>>, index |-> {}, enabled |-> 0, failed |-> 0]
  BY DEF EngineInit, RS!NewRuleSet
<1> QED BY <1>1 DEF EngineInit, EngineInv

\* The end of a walk, whichever error it was.
LEMMA RaiseStep ==
  ASSUME EngineInv, outcome = "loading", Raise
  PROVE  /\ outcome' \in {"loading", "failed"} /\ cut'
         /\ dirs_to_process' \in Seq(Directories) /\ entries' \subseteq AllEntries
         /\ entry = "load" /\ fail_on_parse_error => outcome' = "failed"
         /\ entry = "new" /\ outcome' = "failed" => fail_on_parse_error
BY DEF Raise

\* A step that only walks.
LEMMA WalkStep ==
  ASSUME EngineInv, UNCHANGED <<builder, loaded, seen>>, outcome = "loading",
         outcome' \in {"loading", "ready", "failed"},
         dirs_to_process' \in Seq(Directories), entries' \subseteq AllEntries,
         entry = "new" /\ outcome' = "failed" => cut' /\ fail_on_parse_error
  PROVE  EngineInv'
BY DEF EngineInv, builder

\* A rule that loads is one more in the list.
LEMMA AddRuleLength ==
  ASSUME EngineInv, NEW e \in AllEntries, Loads(e.file)
  PROVE  LET rs == RS!AddRule(loaded, e.file) IN
         /\ rs = [rules |-> rs.rules, index |-> rs.index, enabled |-> rs.enabled, failed |-> rs.failed]
         /\ rs.rules \in Seq(Loadable) /\ Len(rs.rules) = Len(loaded.rules) + 1
         /\ rs.failed = loaded.failed
<1> DEFINE rs == RS!AddRule(loaded, e.file)
           key == RS!RuleId(e.file, Len(loaded.rules) + 1)
           new == [rule |-> e.file, enabled |-> TRUE]
<1>1. /\ loaded.rules \in Seq(Loadable)
      /\ loaded = [rules |-> loaded.rules, index |-> loaded.index,
                   enabled |-> loaded.enabled, failed |-> loaded.failed]
  BY DEF EngineInv
<1>2. new \in Loadable
  BY DEF Loadable
<1>3. PICK index : index = RS!Inserted(loaded.index, key, Len(loaded.rules) + 1)
  OBVIOUS
<1>4. rs = [loaded EXCEPT !.rules = Append(@, new), !.index = index, !.enabled = @ + 1]
  BY <1>3 DEF RS!AddRule, Loads
<1> HIDE DEF rs, new
<1>5. /\ rs.rules = Append(loaded.rules, new) /\ rs.failed = loaded.failed
      /\ rs = [rules |-> rs.rules, index |-> rs.index, enabled |-> rs.enabled, failed |-> rs.failed]
  BY <1>1, <1>4
<1> QED BY <1>1, <1>2, <1>5 DEF rs

LEMMA LoadRuleStep == ASSUME EngineInv, NEW e \in entries, LoadRule(e) PROVE EngineInv'
<1>1. /\ e \in AllEntries /\ outcome = "loading" /\ seen' = seen + 1
      /\ entry' = entry /\ fail_on_parse_error' = fail_on_parse_error
      /\ dirs_to_process \in Seq(Directories) /\ entries \subseteq AllEntries
      /\ loaded.rules \in Seq(Loadable) /\ loaded.failed \in Nat /\ Len(loaded.rules) \in Nat
      /\ Len(loaded.rules) + loaded.failed = seen
      /\ loaded = [rules |-> loaded.rules, index |-> loaded.index,
                   enabled |-> loaded.enabled, failed |-> loaded.failed]
  BY DEF EngineInv, LoadRule, Walking, builder
<1>2. IF ~Loads(e.file) /\ FailsAtError THEN Raise
      ELSE entries' = entries \ {e} /\ UNCHANGED <<dirs_to_process, outcome, cut>>
  BY DEF LoadRule
<1>3. CASE Loads(e.file)
  <2>1. loaded' = RS!AddRule(loaded, e.file)
    BY <1>3 DEF LoadRule
  <2>2. /\ loaded' = [rules |-> loaded'.rules, index |-> loaded'.index,
                      enabled |-> loaded'.enabled, failed |-> loaded'.failed]
        /\ loaded'.rules \in Seq(Loadable) /\ Len(loaded'.rules) = Len(loaded.rules) + 1
        /\ loaded'.failed = loaded.failed
    BY <1>1, <1>3, <2>1, AddRuleLength
  <2>3. entries' = entries \ {e} /\ UNCHANGED <<dirs_to_process, outcome, cut>>
    BY <1>2, <1>3
  <2>4. Len(loaded'.rules) + loaded'.failed = seen' /\ loaded'.failed \in Nat
    BY <1>1, <2>2
  <2>5. /\ entry' = "load" /\ fail_on_parse_error' => loaded'.failed = 0 \/ outcome' = "failed"
        /\ entry' = "new" /\ outcome' = "failed" => cut' /\ fail_on_parse_error'
    BY <1>1, <2>2, <2>3 DEF EngineInv
  <2> QED BY <1>1, <2>2, <2>3, <2>4, <2>5 DEF EngineInv
<1>4. CASE ~Loads(e.file)
  <2>1. loaded' = [loaded EXCEPT !.failed = @ + 1]
    BY <1>4 DEF LoadRule
  <2>2. /\ loaded' = [rules |-> loaded'.rules, index |-> loaded'.index,
                      enabled |-> loaded'.enabled, failed |-> loaded'.failed]
        /\ loaded'.rules = loaded.rules /\ loaded'.failed = loaded.failed + 1
    BY <1>1, <2>1
  <2>3. CASE FailsAtError
    <3>1. Raise
      BY <1>2, <1>4, <2>3
    <3>2. entry = "load" /\ fail_on_parse_error
      BY <2>3 DEF FailsAtError
    <3> QED BY <1>1, <2>2, <3>1, <3>2, RaiseStep DEF EngineInv
  <2>4. CASE ~FailsAtError
    <3>1. entries' = entries \ {e} /\ UNCHANGED <<dirs_to_process, outcome, cut>>
      BY <1>2, <2>4
    <3>2. ~(entry = "load" /\ fail_on_parse_error)
      BY <2>4 DEF FailsAtError
    <3> QED BY <1>1, <2>2, <3>1, <3>2 DEF EngineInv
  <2> QED BY <2>3, <2>4
<1> QED BY <1>3, <1>4

LEMMA EngineStep == ASSUME EngineInv, EngineNext PROVE EngineInv'
<1>1. /\ outcome \in {"loading", "ready", "failed"}
      /\ dirs_to_process \in Seq(Directories) /\ entries \subseteq AllEntries
  BY DEF EngineInv
<1>2. CASE StartRoot
  <2>1. outcome = "loading" /\ UNCHANGED <<builder, loaded, seen>>
    BY <1>2 DEF StartRoot
  <2>2. CASE rule_dirs[next_root] \in Directories
    <3>1. dirs_to_process' = <<rule_dirs[next_root]>> /\ UNCHANGED <<entries, outcome, cut>>
      BY <1>2, <2>2 DEF StartRoot
    <3> QED BY <1>1, <2>1, <2>2, <3>1, WalkStep
  <2>3. CASE rule_dirs[next_root] \notin Directories
    <3>1. Raise
      BY <1>2, <2>3 DEF StartRoot
    <3> QED BY <2>1, <3>1, RaiseStep, WalkStep
  <2> QED BY <2>2, <2>3
<1>3. CASE OpenDir
  <2> DEFINE dir == Last(dirs_to_process)
  <2>1. outcome = "loading" /\ dirs_to_process # <<>> /\ UNCHANGED <<builder, loaded, seen>>
    BY <1>3 DEF OpenDir, Walking
  <2>2. dir \in Directories /\ Front(dirs_to_process) \in Seq(Directories)
    BY <1>1, <2>1 DEF Last, Front
  <2>3. CASE dir \in Unreadable
    <3>1. Raise
      BY <1>3, <2>3 DEF OpenDir
    <3> QED BY <2>1, <3>1, RaiseStep, WalkStep
  <2>4. CASE dir \notin Unreadable
    <3>1. /\ dirs_to_process' = Front(dirs_to_process) /\ entries' = Contents[dir]
          /\ UNCHANGED <<outcome, cut>>
      BY <1>3, <2>4 DEF OpenDir
    <3>2. entries' \subseteq AllEntries
      BY <2>2, <3>1 DEF AllEntries
    <3> QED BY <1>1, <2>1, <2>2, <3>1, <3>2, WalkStep
  <2> QED BY <2>3, <2>4
<1>4. CASE GiveUp
  <2>1. /\ outcome = "loading" /\ outcome' = outcome /\ dirs_to_process' = <<>> /\ entries' = {}
        /\ UNCHANGED <<builder, loaded, seen>>
    BY <1>4 DEF GiveUp, Walking
  <2> QED BY <2>1, WalkStep
<1>5. CASE Ready
  <2>1. /\ outcome = "loading" /\ outcome' = "ready" /\ UNCHANGED <<dirs_to_process, entries>>
        /\ UNCHANGED <<builder, loaded, seen>>
    BY <1>5 DEF Ready
  <2> QED BY <1>1, <2>1, WalkStep
<1>6. ASSUME NEW e \in entries, Skip(e) PROVE EngineInv'
  <2>1. /\ outcome = "loading" /\ outcome' = outcome /\ entries' = entries \ {e}
        /\ dirs_to_process' = (IF e.kind = "dir" THEN Append(dirs_to_process, e.dir) ELSE dirs_to_process)
        /\ UNCHANGED <<builder, loaded, seen>>
    BY <1>6 DEF Skip, Walking
  <2>2. e.kind = "dir" => e.dir \in Directories
    BY <1>1, EngineAssumption DEF AllEntries
  <2>3. dirs_to_process' \in Seq(Directories)
    <3>1. CASE e.kind = "dir"
      <4>1. dirs_to_process' = Append(dirs_to_process, e.dir) /\ e.dir \in Directories
        BY <2>1, <2>2, <3>1
      <4> QED BY <1>1, <4>1
    <3>2. CASE e.kind # "dir"
      BY <1>1, <2>1, <3>2
    <3> QED BY <3>1, <3>2
  <2> QED BY <1>1, <2>1, <2>3, WalkStep
<1>7. CASE BreakOff
  <2>1. outcome = "loading" /\ Raise /\ UNCHANGED <<builder, loaded, seen>>
    BY <1>7 DEF BreakOff, Walking
  <2> QED BY <2>1, RaiseStep, WalkStep
<1> QED BY <1>2, <1>3, <1>4, <1>5, <1>6, <1>7, LoadRuleStep DEF EngineNext

------------------------------------------------------------------------------
(* The tree of directories *)

LEMMA TreeOf ==
  ASSUME NEW dir \in Directories
  PROVE  /\ \A s \in Subdirs(dir) : s \in Directories /\ dir \notin Below[s]
         /\ \A e \in Contents[dir] : e.kind = "dir" => e.dir \in Subdirs(dir)
         /\ \A s \in Subdirs(dir) : \A other \in Directories : s \in Subdirs(other) => other = dir
         /\ \A e, x \in Contents[dir] : e.kind = "dir" /\ x.kind = "dir" /\ e.dir = x.dir => e = x
<1>1. \A e \in Contents[dir] : e.kind = "dir" =>
        /\ e.dir \in Directories /\ dir \notin Below[e.dir]
        /\ \A other \in Directories : \A x \in Contents[other] :
             x.kind = "dir" /\ x.dir = e.dir => other = dir /\ x = e
  BY EngineAssumption
<1>2. \A s : s \in Subdirs(dir) <=> \E e \in Contents[dir] : e.kind = "dir" /\ s = e.dir
  BY DEF Subdirs
<1>3. \A other : \A s : s \in Subdirs(other) <=> \E e \in Contents[other] : e.kind = "dir" /\ s = e.dir
  BY DEF Subdirs
<1> QED BY <1>1, <1>2, <1>3

\* What is below a directory: itself, and what is below its subdirectories.
Closed(D) == \A x \in D : Subdirs(x) \subseteq D

LEMMA InBelow ==
  ASSUME NEW dir \in Directories, NEW d
  PROVE  d \in Below[dir] <=>
           d \in Directories /\ \A D \in SUBSET Directories : dir \in D /\ Closed(D) => d \in D
BY DEF Below, Closed

LEMMA BelowHolds ==
  ASSUME NEW dir \in Directories
  PROVE  dir \in Below[dir] /\ Below[dir] \in SUBSET Directories /\ Closed(Below[dir])
<1>1. dir \in Below[dir] /\ Below[dir] \in SUBSET Directories
  BY InBelow
<1>2. ASSUME NEW d \in Below[dir], NEW s \in Subdirs(d) PROVE s \in Below[dir]
  <2>1. d \in Directories /\ s \in Directories
    BY <1>1, <1>2, TreeOf
  <2>2. ASSUME NEW D \in SUBSET Directories, dir \in D, Closed(D) PROVE s \in D
    <3>1. d \in D
      BY <2>2, InBelow
    <3> QED BY <1>2, <2>2, <3>1 DEF Closed
  <2> QED BY <2>1, <2>2, InBelow
<1> QED BY <1>1, <1>2 DEF Closed

LEMMA BelowBelow ==
  ASSUME NEW dir \in Directories, NEW d \in Below[dir]
  PROVE  d \in Directories /\ Below[d] \subseteq Below[dir]
<1>1. d \in Directories
  BY BelowHolds
<1>2. Below[dir] \in SUBSET Directories /\ Closed(Below[dir])
  BY BelowHolds
<1> QED BY <1>1, <1>2, InBelow

\* A subdirectory is below another directory only with its parent.
LEMMA ParentBelow ==
  ASSUME NEW top \in Directories, NEW parent \in Directories, NEW s \in Subdirs(parent),
         s \in Below[top], s # top
  PROVE  parent \in Below[top]
<1> SUFFICES ASSUME parent \notin Below[top] PROVE FALSE
  OBVIOUS
<1> DEFINE D == Below[top] \ {s}
<1>1. top \in D /\ D \in SUBSET Directories
  BY BelowHolds
<1>2. ASSUME NEW x \in D, NEW y \in Subdirs(x) PROVE y \in D
  <2>1. x \in Below[top] /\ x \in Directories /\ x # parent
    BY <1>1
  <2>2. y \in Below[top]
    BY <1>2, <2>1, BelowHolds DEF Closed
  <2>3. y # s
    BY <1>2, <2>1, TreeOf
  <2> QED BY <2>2, <2>3
<1>3. Closed(D)
  BY <1>2 DEF Closed
<1>4. s \in D
  <2> HIDE DEF D
  <2> QED BY <1>1, <1>3, InBelow
<1> QED BY <1>4

LEMMA BelowSplits ==
  ASSUME NEW dir \in Directories, NEW d
  PROVE  d \in Below[dir] <=> d = dir \/ \E s \in Subdirs(dir) : d \in Below[s]
<1> DEFINE D == {dir} \cup UNION {Below[s] : s \in Subdirs(dir)}
<1>1. \A s \in Subdirs(dir) : s \in Directories /\ s \in Below[dir]
  BY TreeOf, BelowHolds DEF Closed
<1>2. D \subseteq Below[dir]
  BY <1>1, BelowHolds, BelowBelow
<1>3. D \in SUBSET Directories
  BY <1>2, BelowHolds
<1>4. ASSUME NEW x \in D, NEW y \in Subdirs(x) PROVE y \in D
  <2>1. CASE x = dir
    <3>1. y \in Subdirs(dir) /\ y \in Below[y]
      BY <1>1, <1>4, <2>1, BelowHolds
    <3> QED BY <3>1
  <2>2. CASE x # dir
    <3>1. PICK s \in Subdirs(dir) : x \in Below[s]
      BY <2>2
    <3>2. y \in Below[s]
      BY <1>1, <1>4, <3>1, BelowHolds DEF Closed
    <3> QED BY <3>2
  <2> QED BY <2>1, <2>2
<1>5. Closed(D) /\ dir \in D
  BY <1>4 DEF Closed
<1>6. d \in Below[dir] => d \in D
  <2> HIDE DEF D
  <2> QED BY <1>3, <1>5, InBelow
<1> QED BY <1>2, <1>6

\* Neither of two subdirectories is below the other, nor their parent below one.
LEMMA SiblingsApart ==
  ASSUME NEW dir \in Directories, NEW s \in Subdirs(dir), NEW t \in Subdirs(dir), s # t
  PROVE  s \notin Below[t]
<1>1. t \in Directories /\ dir \notin Below[t]
  BY TreeOf
<1> QED BY <1>1, ParentBelow

\* What a walk below top has ahead: all that is below a directory on the stack or below one
\* among the entries to do, which are of the directory cur, and these entries themselves.
Ahead(d, e, stack, todo, cur) ==
  \/ \E i \in 1..Len(stack) : d \in Below[stack[i]]
  \/ \E x \in todo : x.kind = "dir" /\ d \in Below[x.dir]
  \/ d = cur /\ e \in todo

\* No file is ahead twice.
Apart(stack, todo, cur) ==
  /\ \A i, j \in 1..Len(stack) : i # j => stack[i] \notin Below[stack[j]]
  /\ \A i \in 1..Len(stack) : \A x \in todo : x.kind = "dir" =>
       stack[i] \notin Below[x.dir] /\ x.dir \notin Below[stack[i]]
  /\ todo # {} => \A i \in 1..Len(stack) : cur \notin Below[stack[i]]

Walk(top, stack, todo, cur) ==
  /\ top \in Directories /\ stack \in Seq(Directories)
  /\ \A i \in 1..Len(stack) : stack[i] \in Below[top]
  /\ todo # {} => cur \in Below[top] /\ todo \subseteq Contents[cur]
  /\ Apart(stack, todo, cur)

LEMMA OpenWalk ==
  ASSUME NEW top, NEW stack, NEW cur, Walk(top, stack, {}, cur), stack # <<>>,
         NEW dir, dir = Last(stack)
  PROVE  /\ Walk(top, Front(stack), Contents[dir], dir)
         /\ \A d, e : e \in Contents[d] =>
              (Ahead(d, e, Front(stack), Contents[dir], dir) <=> Ahead(d, e, stack, {}, cur))
<1>1. /\ top \in Directories /\ stack \in Seq(Directories) /\ Len(stack) \in Nat /\ Len(stack) # 0
      /\ \A i \in 1..Len(stack) : stack[i] \in Below[top]
      /\ \A i, j \in 1..Len(stack) : i # j => stack[i] \notin Below[stack[j]]
  BY DEF Walk, Apart
<1>2. PICK n \in Nat : n = Len(stack) - 1 /\ Len(stack) = n + 1
  BY <1>1
<1>3. /\ dir = stack[n + 1] /\ dir \in Directories /\ dir \in Below[top]
      /\ Front(stack) \in Seq(Directories) /\ Len(Front(stack)) = n
      /\ \A i \in 1..n : /\ Front(stack)[i] = stack[i] /\ i \in 1..Len(stack) /\ i # n + 1
                         /\ stack[i] \in Directories
  BY <1>1, <1>2 DEF Last, Front
<1>4. n + 1 \in 1..Len(stack)
  BY <1>2
<1>5. \A i \in 1..n : stack[i] \notin Below[dir] /\ dir \notin Below[stack[i]]
  BY <1>1, <1>3, <1>4
<1>6. ASSUME NEW i \in 1..n, NEW x \in Contents[dir], x.kind = "dir"
      PROVE  stack[i] \notin Below[x.dir] /\ x.dir \notin Below[stack[i]]
  <2>1. x.dir \in Subdirs(dir) /\ x.dir \in Directories
    BY <1>3, <1>6, TreeOf
  <2>2. x.dir \in Below[dir] /\ Below[x.dir] \subseteq Below[dir]
    BY <1>3, <2>1, BelowHolds, BelowBelow DEF Closed
  <2>3. stack[i] \notin Below[x.dir] /\ x.dir # stack[i]
    BY <1>5, <2>2
  <2> QED BY <1>3, <1>5, <2>1, <2>3, ParentBelow
<1>7. Apart(Front(stack), Contents[dir], dir)
  BY <1>1, <1>3, <1>5, <1>6 DEF Apart
<1>8. Walk(top, Front(stack), Contents[dir], dir)
  BY <1>1, <1>3, <1>7 DEF Walk
<1>9. ASSUME NEW d, NEW e, e \in Contents[d]
      PROVE  Ahead(d, e, Front(stack), Contents[dir], dir) <=> Ahead(d, e, stack, {}, cur)
  <2>1. Ahead(d, e, stack, {}, cur) <=> (\E i \in 1..n : d \in Below[stack[i]]) \/ d \in Below[dir]
    <3>1. \A i : i \in 1..Len(stack) <=> i \in 1..n \/ i = n + 1
      BY <1>2
    <3> QED BY <1>3, <3>1 DEF Ahead
  <2>2. d \in Below[dir] <=> d = dir \/ \E x \in Contents[dir] : x.kind = "dir" /\ d \in Below[x.dir]
    BY <1>3, BelowSplits DEF Subdirs
  <2>3. Ahead(d, e, Front(stack), Contents[dir], dir) <=>
          \/ \E i \in 1..n : d \in Below[stack[i]]
          \/ \E x \in Contents[dir] : x.kind = "dir" /\ d \in Below[x.dir]
          \/ d = dir
    BY <1>3, <1>9 DEF Ahead
  <2> QED BY <2>1, <2>2, <2>3
<1> QED BY <1>8, <1>9

LEMMA PushWalk ==
  ASSUME NEW top, NEW stack, NEW todo, NEW cur, Walk(top, stack, todo, cur),
         NEW e \in todo, e.kind = "dir"
  PROVE  /\ Walk(top, Append(stack, e.dir), todo \ {e}, cur)
         /\ \A d, x : x.kind = "rule" =>
              (Ahead(d, x, Append(stack, e.dir), todo \ {e}, cur) <=> Ahead(d, x, stack, todo, cur))
<1> DEFINE new == Append(stack, e.dir)
<1>1. /\ top \in Directories /\ stack \in Seq(Directories)
      /\ \A i \in 1..Len(stack) : stack[i] \in Below[top]
      /\ cur \in Below[top] /\ todo \subseteq Contents[cur] /\ Apart(stack, todo, cur)
  BY DEF Walk
<1>2. cur \in Directories /\ e \in Contents[cur]
  BY <1>1, BelowHolds
<1>3. e.dir \in Subdirs(cur) /\ e.dir \in Directories /\ cur \notin Below[e.dir] /\ e.dir \in Below[top]
  BY <1>1, <1>2, TreeOf, BelowHolds DEF Closed
<1>4. PICK n \in Nat : n = Len(stack)
  BY <1>1
<1>5. /\ new \in Seq(Directories) /\ Len(new) = n + 1 /\ new[n + 1] = e.dir
      /\ \A i \in 1..n : new[i] = stack[i]
      /\ \A i : i \in 1..(n + 1) <=> i \in 1..n \/ i = n + 1
  BY <1>1, <1>3, <1>4
<1> HIDE DEF new
<1>6. ASSUME NEW x \in todo \ {e}, x.kind = "dir"
      PROVE  e.dir \notin Below[x.dir] /\ x.dir \notin Below[e.dir]
  <2>1. x \in Contents[cur] /\ x # e
    BY <1>1, <1>6
  <2>2. x.dir \in Subdirs(cur) /\ x.dir # e.dir
    BY <1>2, <1>6, <2>1, TreeOf
  <2> QED BY <1>2, <1>3, <2>2, SiblingsApart
<1>7. \A i, j \in 1..(n + 1) : i # j => new[i] \notin Below[new[j]]
  BY <1>1, <1>4, <1>5 DEF Apart
<1>8. \A i \in 1..(n + 1) : \A x \in todo \ {e} : x.kind = "dir" =>
        new[i] \notin Below[x.dir] /\ x.dir \notin Below[new[i]]
  BY <1>1, <1>4, <1>5, <1>6 DEF Apart
<1>9. \A i \in 1..(n + 1) : cur \notin Below[new[i]]
  BY <1>1, <1>3, <1>4, <1>5 DEF Apart
<1>10. Walk(top, new, todo \ {e}, cur)
  <2>1. Apart(new, todo \ {e}, cur)
    BY <1>5, <1>7, <1>8, <1>9 DEF Apart
  <2>2. \A i \in 1..Len(new) : new[i] \in Below[top]
    BY <1>1, <1>3, <1>4, <1>5
  <2> QED BY <1>1, <1>5, <2>1, <2>2 DEF Walk
<1>11. ASSUME NEW d, NEW x, x.kind = "rule"
       PROVE  Ahead(d, x, new, todo \ {e}, cur) <=> Ahead(d, x, stack, todo, cur)
  <2>1. (\E i \in 1..Len(new) : d \in Below[new[i]]) <=>
          (\E i \in 1..Len(stack) : d \in Below[stack[i]]) \/ d \in Below[e.dir]
    BY <1>4, <1>5
  <2>2. x # e
    BY <1>11
  <2> QED BY <2>1, <2>2 DEF Ahead
<1> QED BY <1>10, <1>11 DEF new

\* An entry that is no directory is done with.
LEMMA DropWalk ==
  ASSUME NEW top, NEW stack, NEW todo, NEW cur, Walk(top, stack, todo, cur),
         NEW e \in todo, e.kind # "dir"
  PROVE  /\ Walk(top, stack, todo \ {e}, cur)
         /\ Ahead(cur, e, stack, todo, cur)
         /\ \A d, x : Ahead(d, x, stack, todo \ {e}, cur) <=>
                        Ahead(d, x, stack, todo, cur) /\ ~(d = cur /\ x = e)
<1>1. /\ top \in Directories /\ stack \in Seq(Directories)
      /\ cur \in Below[top] /\ todo \subseteq Contents[cur] /\ Apart(stack, todo, cur)
  BY DEF Walk
<1>2. cur \in Directories
  BY <1>1, BelowHolds
<1>3. Walk(top, stack, todo \ {e}, cur)
  <2>1. Apart(stack, todo \ {e}, cur)
    BY <1>1 DEF Apart
  <2> QED BY <2>1 DEF Walk
<1>4. \A i \in 1..Len(stack) : cur \notin Below[stack[i]]
  BY <1>1 DEF Apart
<1>5. \A x \in todo : x.kind = "dir" => cur \notin Below[x.dir] /\ x # e
  BY <1>1, <1>2, TreeOf
<1> QED BY <1>3, <1>4, <1>5 DEF Ahead

\* The files met so far: those of the directories before the one that is walked, and those of
\* its files that are not ahead.
Met(dirs, next, stack, todo, cur) ==
  {f \in Files(dirs) : f[1] < next /\ (f[1] = next - 1 => ~Ahead(f[2], f[3], stack, todo, cur))}

MetIs(cur, set) == set = Met(rule_dirs, next_root, dirs_to_process, entries, cur)

AtWalk(cur) ==
  /\ dirs_to_process # <<>> \/ entries # {} =>
       /\ next_root - 1 \in 1..Len(rule_dirs)
       /\ Walk(rule_dirs[next_root - 1], dirs_to_process, entries, cur)
  /\ \A set : MetIs(cur, set) => IsFiniteSet(set) /\ seen = Cardinality(set)

\* Unless a walk was cut short, there is a directory whose entries are done in part, and the
\* files looked at are as many as those met.
WalkInv ==
  /\ rule_dirs \in RuleDirs /\ next_root \in Nat \ {0}
  /\ outcome = "ready" /\ ~cut =>
       dirs_to_process = <<>> /\ entries = {} /\ next_root > Len(rule_dirs)
  /\ ~cut => \E cur : AtWalk(cur)

LEMMA FilesAre ==
  ASSUME NEW dirs \in RuleDirs, NEW f \in Files(dirs)
  PROVE  /\ f[1] \in 1..Len(dirs) /\ f[2] \in Directories /\ f[2] \in Below[dirs[f[1]]]
         /\ f[3] \in Contents[f[2]] /\ f[3].kind = "rule" /\ f = <<f[1], f[2], f[3]>>
<1>1. dirs \in Seq(Range(dirs))
  BY EngineAssumption
<1>2. DOMAIN dirs = 1..Len(dirs)
  BY <1>1
<1> QED BY <1>2 DEF Files

LEMMA LengthOf == ASSUME NEW dirs \in RuleDirs PROVE Len(dirs) \in Nat
BY EngineAssumption

LEMMA SameMet ==
  ASSUME NEW dirs \in RuleDirs, NEW next, NEW s, NEW t, NEW c, NEW s2, NEW t2, NEW c2,
         \A d, e : e \in Contents[d] /\ e.kind = "rule" => (Ahead(d, e, s2, t2, c2) <=> Ahead(d, e, s, t, c))
  PROVE  Met(dirs, next, s2, t2, c2) = Met(dirs, next, s, t, c)
BY FilesAre DEF Met

LEMMA WalkInitially == EngineInit => WalkInv
<1> SUFFICES ASSUME EngineInit PROVE WalkInv
  OBVIOUS
<1>1. /\ rule_dirs \in RuleDirs /\ next_root = 1 /\ dirs_to_process = <<>> /\ entries = {}
      /\ outcome = "loading" /\ seen = 0
  BY DEF EngineInit
<1>2. Met(rule_dirs, 1, <<>>, {}, 0) = {}
  BY <1>1, FilesAre, LengthOf DEF Met
<1>3. AtWalk(0)
  BY <1>1, <1>2, FS_EmptySet DEF AtWalk, MetIs
<1> QED BY <1>1, <1>3 DEF WalkInv

LEMMA StartRootWalks == ASSUME WalkInv, StartRoot PROVE WalkInv'
<1>1. /\ rule_dirs' = rule_dirs /\ rule_dirs \in RuleDirs /\ Len(rule_dirs) \in Nat
      /\ next_root \in Nat \ {0} /\ next_root <= Len(rule_dirs) /\ next_root' = next_root + 1
      /\ dirs_to_process = <<>> /\ entries = {} /\ seen' = seen /\ outcome = "loading"
  BY LengthOf DEF StartRoot, Walking, WalkInv, builder
<1>2. outcome' # "ready"
  BY <1>1 DEF StartRoot, Raise
<1>3. CASE rule_dirs[next_root] \notin Directories
  <2>1. cut'
    BY <1>3 DEF StartRoot, Raise
  <2> QED BY <1>1, <1>2, <2>1 DEF WalkInv
<1>4. CASE rule_dirs[next_root] \in Directories
  <2> DEFINE root == rule_dirs[next_root]
  <2>1. dirs_to_process' = <<root>> /\ entries' = {} /\ cut' = cut
    BY <1>1, <1>4 DEF StartRoot
  <2>2. ASSUME NEW cur, AtWalk(cur) PROVE AtWalk(cur)'
    <3>1. Walk(root, <<root>>, {}, cur)
      BY <1>4, BelowHolds DEF Walk, Apart
    <3>2. Met(rule_dirs, next_root + 1, <<root>>, {}, cur) = Met(rule_dirs, next_root, <<>>, {}, cur)
      <4>1. ASSUME NEW f \in Files(rule_dirs)
            PROVE  /\ f[1] \in Nat
                   /\ f[1] = next_root => Ahead(f[2], f[3], <<root>>, {}, cur)
                   /\ ~Ahead(f[2], f[3], <<>>, {}, cur)
        <5>1. f[1] \in 1..Len(rule_dirs) /\ f[2] \in Below[rule_dirs[f[1]]]
          BY <1>1, FilesAre
        <5> QED BY <1>1, <5>1 DEF Ahead
      <4> QED BY <1>1, <4>1 DEF Met
    <3>3. next_root' - 1 = next_root /\ next_root \in 1..Len(rule_dirs)
      BY <1>1
    <3> QED BY <1>1, <2>1, <2>2, <3>1, <3>2, <3>3 DEF AtWalk, MetIs
  <2> QED BY <1>1, <1>2, <2>1, <2>2 DEF WalkInv
<1> QED BY <1>3, <1>4

\* A step of a walk that meets no file: what is ahead stays so.
LEMMA WalkOn ==
  ASSUME WalkInv, outcome = "loading", outcome' = outcome,
         UNCHANGED <<builder, next_root, seen, cut>>,
         dirs_to_process # <<>> \/ entries # {},
         \A top, cur : Walk(top, dirs_to_process, entries, cur) =>
           \E c : /\ Walk(top, dirs_to_process', entries', c)
                  /\ \A d, e : e \in Contents[d] /\ e.kind = "rule" =>
                       (Ahead(d, e, dirs_to_process', entries', c) <=> Ahead(d, e, dirs_to_process, entries, cur))
  PROVE  WalkInv'
<1>1. /\ rule_dirs' = rule_dirs /\ rule_dirs \in RuleDirs /\ next_root' = next_root
      /\ next_root \in Nat \ {0} /\ outcome' # "ready" /\ cut' = cut /\ seen' = seen
  BY DEF WalkInv, builder
<1>2. ASSUME NEW cur, AtWalk(cur) PROVE \E c : AtWalk(c)'
  <2> DEFINE top == rule_dirs[next_root - 1]
  <2>1. next_root - 1 \in 1..Len(rule_dirs) /\ Walk(top, dirs_to_process, entries, cur)
    BY <1>2 DEF AtWalk
  <2> HIDE DEF top
  <2>2. PICK c : /\ Walk(top, dirs_to_process', entries', c)
                 /\ \A d, e : e \in Contents[d] /\ e.kind = "rule" =>
                      (Ahead(d, e, dirs_to_process', entries', c) <=> Ahead(d, e, dirs_to_process, entries, cur))
    BY <2>1
  <2>3. Met(rule_dirs, next_root, dirs_to_process', entries', c)
          = Met(rule_dirs, next_root, dirs_to_process, entries, cur)
    BY <1>1, <2>2, SameMet
  <2>4. AtWalk(c)'
    BY <1>1, <1>2, <2>1, <2>2, <2>3 DEF AtWalk, MetIs, top
  <2> QED BY <2>4
<1> QED BY <1>1, <1>2 DEF WalkInv

LEMMA OpenDirWalks == ASSUME WalkInv, OpenDir PROVE WalkInv'
<1>1. /\ outcome = "loading" /\ dirs_to_process # <<>> /\ entries = {}
      /\ UNCHANGED <<builder, next_root, seen>>
  BY DEF OpenDir, Walking
<1> DEFINE dir == Last(dirs_to_process)
<1>2. CASE dir \in Unreadable
  <2>1. cut' /\ outcome' # "ready" /\ rule_dirs' = rule_dirs /\ next_root' = next_root
    BY <1>1, <1>2 DEF OpenDir, Raise, builder
  <2> QED BY <2>1 DEF WalkInv
<1>3. CASE dir \notin Unreadable
  <2>1. /\ dirs_to_process' = Front(dirs_to_process) /\ entries' = Contents[dir]
        /\ outcome' = outcome /\ cut' = cut
    BY <1>3 DEF OpenDir
  <2> HIDE DEF dir
  <2>2. ASSUME NEW top, NEW cur, Walk(top, dirs_to_process, entries, cur)
        PROVE  /\ Walk(top, dirs_to_process', entries', dir)
               /\ \A d, e : e \in Contents[d] /\ e.kind = "rule" =>
                    (Ahead(d, e, dirs_to_process', entries', dir) <=> Ahead(d, e, dirs_to_process, entries, cur))
    BY <1>1, <2>1, <2>2, OpenWalk DEF dir
  <2> QED BY <1>1, <2>1, <2>2, WalkOn
<1> QED BY <1>2, <1>3

LEMMA SkipWalks == ASSUME WalkInv, NEW e \in entries, Skip(e) PROVE WalkInv'
<1>1. /\ outcome = "loading" /\ outcome' = outcome /\ entries # {} /\ entries' = entries \ {e}
      /\ dirs_to_process' = (IF e.kind = "dir" THEN Append(dirs_to_process, e.dir) ELSE dirs_to_process)
      /\ e.kind # "rule" /\ UNCHANGED <<builder, next_root, seen, cut>>
  BY DEF Skip, Walking
<1>2. ASSUME NEW top, NEW cur, Walk(top, dirs_to_process, entries, cur)
      PROVE  /\ Walk(top, dirs_to_process', entries', cur)
             /\ \A d, x : x \in Contents[d] /\ x.kind = "rule" =>
                  (Ahead(d, x, dirs_to_process', entries', cur) <=> Ahead(d, x, dirs_to_process, entries, cur))
  <2>1. CASE e.kind = "dir"
    BY <1>1, <1>2, <2>1, PushWalk
  <2>2. CASE e.kind # "dir"
    BY <1>1, <1>2, <2>2, DropWalk
  <2> QED BY <2>1, <2>2
<1> QED BY <1>1, <1>2, WalkOn

LEMMA LoadRuleWalks == ASSUME WalkInv, NEW e \in entries, LoadRule(e) PROVE WalkInv'
<1>1. /\ rule_dirs' = rule_dirs /\ rule_dirs \in RuleDirs /\ next_root \in Nat \ {0} /\ next_root' = next_root
      /\ outcome = "loading" /\ e.kind = "rule" /\ seen' = seen + 1
  BY DEF LoadRule, Walking, WalkInv, builder
<1>2. CASE Raise
  <2>1. cut' /\ outcome' # "ready"
    BY <1>1, <1>2 DEF Raise
  <2> QED BY <1>1, <2>1 DEF WalkInv
<1>3. CASE entries' = entries \ {e} /\ UNCHANGED <<dirs_to_process, outcome, cut>>
  <2>1. ASSUME NEW cur, AtWalk(cur) PROVE AtWalk(cur)'
    <3> DEFINE top == rule_dirs[next_root - 1]
               met == Met(rule_dirs, next_root, dirs_to_process, entries, cur)
               met2 == Met(rule_dirs, next_root, dirs_to_process, entries \ {e}, cur)
               file == <<next_root - 1, cur, e>>
    <3>1. /\ next_root - 1 \in 1..Len(rule_dirs) /\ Walk(top, dirs_to_process, entries, cur)
          /\ IsFiniteSet(met) /\ seen = Cardinality(met)
      BY <2>1 DEF AtWalk, MetIs
    <3>2. /\ top \in Directories /\ cur \in Below[top] /\ e \in Contents[cur]
          /\ cur \in Directories /\ e \in AllEntries
      BY <3>1, BelowHolds DEF Walk, AllEntries
    <3>3. file \in Files(rule_dirs)
      <4>1. DOMAIN rule_dirs = 1..Len(rule_dirs)
        BY <1>1, EngineAssumption
      <4> QED BY <1>1, <3>1, <3>2, <4>1 DEF Files
    <3>4. /\ Walk(top, dirs_to_process, entries \ {e}, cur) /\ Ahead(cur, e, dirs_to_process, entries, cur)
          /\ \A d, x : Ahead(d, x, dirs_to_process, entries \ {e}, cur) <=>
                         Ahead(d, x, dirs_to_process, entries, cur) /\ ~(d = cur /\ x = e)
      <4> HIDE DEF top
      <4>1. e.kind # "dir"
        BY <1>1
      <4>2. PICK t : t = top
        OBVIOUS
      <4>3. Walk(t, dirs_to_process, entries, cur)
        BY <3>1, <4>2
      <4>4. PICK stack, todo : stack = dirs_to_process /\ todo = entries
        OBVIOUS
      <4>5. Walk(t, stack, todo, cur) /\ e \in todo
        BY <4>3, <4>4
      <4>6. Walk(t, stack, todo \ {e}, cur) /\ Ahead(cur, e, stack, todo, cur)
        BY <4>1, <4>5, DropWalk
      <4>7. \A d, x : Ahead(d, x, stack, todo \ {e}, cur) <=>
                       Ahead(d, x, stack, todo, cur) /\ ~(d = cur /\ x = e)
        BY <4>1, <4>5, DropWalk
      <4>8. Walk(top, dirs_to_process, entries \ {e}, cur) /\ Ahead(cur, e, dirs_to_process, entries, cur)
        BY <4>2, <4>4, <4>6
      <4>9. \A d, x : Ahead(d, x, dirs_to_process, entries \ {e}, cur) <=>
                       Ahead(d, x, dirs_to_process, entries, cur) /\ ~(d = cur /\ x = e)
        BY <4>4, <4>7
      <4> QED BY <4>8, <4>9
    <3>5. file \notin met /\ file \in met2
      BY <1>1, <3>3, <3>4 DEF Met
    <3>6. ASSUME NEW f \in Files(rule_dirs), f # file PROVE f \in met <=> f \in met2
      <4>1. f[1] = next_root - 1 => ~(f[2] = cur /\ f[3] = e)
        BY <1>1, <3>6, FilesAre
      <4> QED BY <3>4, <4>1 DEF Met
    <3>7. met \subseteq Files(rule_dirs) /\ met2 \subseteq Files(rule_dirs)
      BY DEF Met
    <3> HIDE DEF met, met2, file
    <3>8. met2 = met \cup {file}
      BY <3>3, <3>5, <3>6, <3>7
    <3>9. IsFiniteSet(met2) /\ Cardinality(met2) = seen + 1
      BY <3>1, <3>5, <3>8, FS_AddElement
    <3> QED BY <1>1, <1>3, <3>1, <3>4, <3>9 DEF AtWalk, MetIs, met2
  <2> QED BY <1>1, <1>3, <2>1 DEF WalkInv
<1> QED BY <1>2, <1>3 DEF LoadRule

LEMMA WalkNext == ASSUME WalkInv, EngineNext PROVE WalkInv'
<1>1. CASE GiveUp
  <2>1. cut' /\ rule_dirs' = rule_dirs /\ next_root' = next_root
    BY <1>1 DEF GiveUp, builder
  <2> QED BY <2>1 DEF WalkInv
<1>2. CASE Ready
  <2>1. /\ rule_dirs' = rule_dirs /\ dirs_to_process = <<>> /\ entries = {} /\ next_root > Len(rule_dirs)
        /\ UNCHANGED <<next_root, dirs_to_process, entries, seen, cut>>
    BY <1>2 DEF Ready, Walking, builder
  <2>2. ASSUME NEW cur, AtWalk(cur) PROVE AtWalk(cur)'
    BY <2>1, <2>2 DEF AtWalk, MetIs
  <2> QED BY <2>1, <2>2 DEF WalkInv
<1>3. CASE BreakOff
  <2>1. cut' /\ outcome' # "ready" /\ rule_dirs' = rule_dirs /\ next_root' = next_root
    BY <1>3 DEF BreakOff, Raise, Walking, builder
  <2> QED BY <2>1 DEF WalkInv
<1> QED BY <1>1, <1>2, <1>3, StartRootWalks, OpenDirWalks, SkipWalks, LoadRuleWalks DEF EngineNext

LEMMA WalkStays == ASSUME WalkInv, UNCHANGED engine PROVE WalkInv'
<1>1. UNCHANGED <<rule_dirs, next_root, dirs_to_process, entries, outcome, seen, cut>>
  BY DEF engine, builder
<1>2. ASSUME NEW cur, AtWalk(cur) PROVE AtWalk(cur)'
  BY <1>1, <1>2 DEF AtWalk, MetIs
<1> QED BY <1>1, <1>2 DEF WalkInv

\* When nothing is ahead all files were met.
LEMMA WalkedAll == ASSUME EngineInv, WalkInv PROVE AllFilesAccounted
<1>1. FilesAreCounted
  BY DEF EngineInv, FilesAreCounted
<1>2. ASSUME outcome = "ready", ~cut PROVE seen = Cardinality(Files(rule_dirs))
  <2>1. /\ rule_dirs \in RuleDirs /\ Len(rule_dirs) \in Nat /\ next_root \in Nat \ {0}
        /\ dirs_to_process = <<>> /\ entries = {} /\ next_root > Len(rule_dirs)
    BY <1>2, LengthOf DEF WalkInv
  <2>2. PICK cur : AtWalk(cur)
    BY <1>2 DEF WalkInv
  <2>3. ASSUME NEW f \in Files(rule_dirs)
        PROVE  f[1] < next_root /\ ~Ahead(f[2], f[3], <<>>, {}, cur)
    <3>1. f[1] \in 1..Len(rule_dirs)
      BY <2>1, FilesAre
    <3> QED BY <2>1, <3>1 DEF Ahead
  <2>4. Met(rule_dirs, next_root, <<>>, {}, cur) = Files(rule_dirs)
    BY <2>3 DEF Met
  <2> QED BY <2>1, <2>2, <2>4 DEF AtWalk, MetIs
<1> QED BY <1>1, <1>2 DEF AllFilesAccounted

\* A loading that no error and no limit cut short has met each rule file below its directories
\* once, and each is in the set or counted as failed: the stack loses no directory.
THEOREM AllFilesAlwaysAccounted == EngineSpec => []AllFilesAccounted
<1>1. (EngineInv /\ WalkInv) /\ [EngineNext]_engine => (EngineInv /\ WalkInv)'
  <2>1. EngineInv /\ UNCHANGED engine => EngineInv'
    BY DEF EngineInv, engine, builder
  <2> QED BY <2>1, EngineStep, WalkNext, WalkStays
<1> QED BY <1>1, EngineInitially, WalkInitially, WalkedAll, PTL DEF EngineSpec

------------------------------------------------------------------------------
(* The stream *)

\* The answers are those of the first of the requests, and only the last may be an error.
StreamInv ==
  /\ stream_in \in Seq(StreamRequests)
  /\ stream_out \in Seq([of : StreamRequests, error : BOOLEAN, matched : BOOLEAN])
  /\ Len(stream_out) <= Len(stream_in)
  /\ \A i \in 1..Len(stream_out) : /\ stream_out[i].of = stream_in[i]
                                   /\ stream_out[i].error => i = Len(stream_out)

LEMMA SendStep == ASSUME StreamInv, NEW req \in StreamRequests, StreamSend(req) PROVE StreamInv'
<1>1. stream_in' = Append(stream_in, req) /\ stream_out' = stream_out
  BY DEF StreamSend, stream
<1>2. /\ stream_in \in Seq(StreamRequests) /\ Len(stream_out) \in Nat /\ Len(stream_in) \in Nat
      /\ Len(stream_out) <= Len(stream_in)
  BY DEF StreamInv
<1>3. /\ stream_in' \in Seq(StreamRequests) /\ Len(stream_in') = Len(stream_in) + 1
      /\ \A i \in 1..Len(stream_in) : stream_in'[i] = stream_in[i]
  BY <1>1, <1>2
<1>4. ASSUME NEW i \in 1..Len(stream_out) PROVE stream_in'[i] = stream_in[i]
  BY <1>2, <1>3
<1> QED BY <1>1, <1>2, <1>3, <1>4 DEF StreamInv

LEMMA EvaluateStep == ASSUME StreamInv, StreamEvaluate PROVE StreamInv'
<1> DEFINE n == Len(stream_out)
           answer == Answered(stream_in[n + 1])
           Answers == [of : StreamRequests, error : BOOLEAN, matched : BOOLEAN]
<1>1. stream_out' = Append(stream_out, answer) /\ stream_in' = stream_in /\ n < Len(stream_in)
  BY DEF StreamEvaluate
<1>2. /\ stream_in \in Seq(StreamRequests) /\ stream_out \in Seq(Answers)
      /\ n \in Nat /\ Len(stream_in) \in Nat
  BY DEF StreamInv
<1>3. stream_in[n + 1] \in StreamRequests
  BY <1>1, <1>2
<1>4. answer \in Answers /\ answer.of = stream_in[n + 1]
  BY <1>3 DEF Answered
<1> HIDE DEF answer
<1>5. /\ stream_out' \in Seq(Answers) /\ Len(stream_out') = n + 1 /\ stream_out'[n + 1] = answer
      /\ \A i \in 1..n : stream_out'[i] = stream_out[i]
  BY <1>1, <1>2, <1>4
<1>6. ASSUME NEW i \in 1..n PROVE ~ stream_out[i].error
  <2>1. ~ (stream_out # <<>> /\ stream_out[n].error)
    BY DEF StreamEvaluate, StreamEnded, Last
  <2>2. CASE i = n
    BY <1>2, <2>1, <2>2
  <2>3. CASE i # n
    BY <2>3 DEF StreamInv
  <2> QED BY <2>2, <2>3
<1>7. ASSUME NEW i \in 1..(n + 1)
      PROVE  stream_out'[i].of = stream_in'[i] /\ (stream_out'[i].error => i = n + 1)
  <2>1. CASE i = n + 1
    BY <1>1, <1>4, <1>5, <2>1
  <2>2. CASE i \in 1..n
    BY <1>1, <1>5, <1>6, <2>2 DEF StreamInv
  <2> QED BY <1>2, <2>1, <2>2
<1> QED BY <1>1, <1>2, <1>5, <1>7 DEF StreamInv

\* No other step touches the stream.
LEMMA StreamKept ==
  ASSUME ServiceNext
  PROVE  UNCHANGED stream \/ StreamEvaluate \/ \E req \in StreamRequests : StreamSend(req)
<1>1. ASSUME NEW c \in Connections, Arrive(c) \/ Handle(c) \/ TimeOut(c) PROVE UNCHANGED stream
  BY <1>1 DEF Arrive, Handle, TimeOut, Admit, Authenticate, Extract, Evaluate, CountRequest, CountOutcome,
              CountEvent, CountMatch, AddSample, Move
<1> QED BY <1>1 DEF ServiceNext, Start, HttpFails, GrpcFails, Signal, Stop, AwaitServer, service

\* A stream is answered in order and without a gap, whatever its client sends and whenever
\* it is answered, and after an error no more.
THEOREM StreamsInOrder == ServiceSpec => []StreamInOrder
<1>1. ServiceInit => StreamInv
  BY DEF ServiceInit, StreamInv
<1>2. StreamInv /\ [ServiceNext]_<<engine, service>> => StreamInv'
  <2>1. StreamInv /\ UNCHANGED stream => StreamInv'
    BY DEF StreamInv, stream
  <2> QED BY <2>1, SendStep, EvaluateStep, StreamKept DEF service
<1>3. StreamInv => StreamInOrder
  BY DEF StreamInv, StreamInOrder
<1> QED BY <1>1, <1>2, <1>3, PTL DEF ServiceSpec
------------------------------------------------------------------------------
(* The connections: what a request at its place has been counted as *)

Places == {"none", "waiting", "inside", "extract", "evaluate", "count_success", "count_failed",
           "success", "failed", "event", "match", "sample", "done"}

IsSuccess(place, code, r) ==
  \/ place \in {"event", "match", "sample"}
  \/ place = "done" /\ code = "200" /\ r.route \in {"metrics", "evaluate"}
IsFailure(place, code, r) ==
  place = "done" /\ code \in {"400", "401"} /\ r.route \in {"metrics", "rules", "evaluate"}
IsTotal(place, code, r) ==
  place \in {"success", "failed"} \/ IsSuccess(place, code, r) \/ IsFailure(place, code, r)
IsEvent(place, code, r) ==
  \/ place \in {"match", "sample"}
  \/ place = "done" /\ code = "200" /\ r.route = "evaluate"
IsMatch(place, code, r) ==
  /\ place = "sample" \/ (place = "done" /\ code = "200" /\ r.route = "evaluate")
  /\ HasMatches(r.body.event)

\* What the place of a request says of its route and its answer.
RequestOK(place, code, r) ==
  /\ r \in Requests /\ place \in Places
  /\ place \in {"extract", "evaluate"} => r.route = "evaluate"
  /\ place \in {"count_success", "success"} => code = "200" /\ r.route \in {"metrics", "evaluate"}
  /\ place \in {"count_failed", "failed"} =>
       code \in {"400", "401"} /\ r.route \in {"metrics", "rules", "evaluate"}
  /\ place \in {"event", "match", "sample"} => code = "200" /\ r.route = "evaluate"
  /\ place = "match" => HasMatches(r.body.event)

Successes == {c \in Connections : IsSuccess(pc[c], status[c], request[c])}
Failures == {c \in Connections : IsFailure(pc[c], status[c], request[c])}
Totals == {c \in Connections : IsTotal(pc[c], status[c], request[c])}
Events == {c \in Connections : IsEvent(pc[c], status[c], request[c])}
Hits == {c \in Connections : IsMatch(pc[c], status[c], request[c])}

\* The rules are loaded before a server starts; the counters count, and no route has more
\* requests inside than it may.
ConnectionsInv ==
  /\ outcome \in {"loading", "ready", "failed"}
  /\ runner # "off" => outcome = "ready"
  /\ runner = "off" => \A c \in Connections : pc[c] = "none"
  /\ pc = [c \in Connections |-> pc[c]] /\ status = [c \in Connections |-> status[c]]
  /\ request = [c \in Connections |-> request[c]]
  /\ \A c \in Connections : RequestOK(pc[c], status[c], request[c])

Tally ==
  /\ requests_total = Cardinality(Totals)
  /\ requests_success = Cardinality(Successes) /\ requests_failed = Cardinality(Failures)
  /\ events_evaluated = Cardinality(Events) /\ matches_found = Cardinality(Hits)
  /\ samples \in 0..MaxSamples

Limits == \A route : Cardinality(Inside(route)) <= MaxConcurrentRequests

LEMMA SubsetsAreFinite ==
  ASSUME NEW A \in SUBSET Connections
  PROVE  IsFiniteSet(A) /\ Cardinality(A) \in Nat
BY ServiceAssumption, FS_Subset, FS_CardinalityType

\* A set of connections to which one is added.
LEMMA OneMore ==
  ASSUME NEW A \in SUBSET Connections, NEW B \in SUBSET Connections, NEW c \in Connections,
         A \ {c} = B \ {c}, c \in A => c \in B
  PROVE  Cardinality(B) = Cardinality(A) + (IF c \in B /\ c \notin A THEN 1 ELSE 0)
<1>1. IsFiniteSet(A) /\ Cardinality(A) \in Nat /\ IsFiniteSet(B) /\ Cardinality(B) \in Nat
  BY SubsetsAreFinite
<1>2. CASE c \in B /\ c \notin A
  <2>1. B = A \cup {c}
    BY <1>2
  <2>2. Cardinality(B) = Cardinality(A) + 1
    BY <1>1, <1>2, <2>1, FS_AddElement
  <2> QED BY <1>2, <2>2
<1>3. CASE ~(c \in B /\ c \notin A)
  <2>1. A = B
    BY <1>3
  <2> QED BY <1>1, <1>3, <2>1
<1> QED BY <1>2, <1>3

\* The step of a connection.
Moves(c) ==
  /\ \E place, code, r : /\ pc' = [pc EXCEPT ![c] = place] /\ status' = [status EXCEPT ![c] = code]
                         /\ request' = [request EXCEPT ![c] = r]
  /\ loaded' = loaded /\ outcome' = outcome /\ runner' = runner /\ runner # "off"

\* A request keeps what it was counted as, and each counter counts its own.
Counts(c) ==
  /\ IsTotal(pc[c], status[c], request[c]) => IsTotal(pc'[c], status'[c], request'[c])
  /\ IsSuccess(pc[c], status[c], request[c]) => IsSuccess(pc'[c], status'[c], request'[c])
  /\ IsFailure(pc[c], status[c], request[c]) => IsFailure(pc'[c], status'[c], request'[c])
  /\ IsEvent(pc[c], status[c], request[c]) => IsEvent(pc'[c], status'[c], request'[c])
  /\ IsMatch(pc[c], status[c], request[c]) => IsMatch(pc'[c], status'[c], request'[c])
  /\ requests_total' = requests_total
       + (IF IsTotal(pc'[c], status'[c], request'[c]) /\ ~IsTotal(pc[c], status[c], request[c]) THEN 1 ELSE 0)
  /\ requests_success' = requests_success
       + (IF IsSuccess(pc'[c], status'[c], request'[c]) /\ ~IsSuccess(pc[c], status[c], request[c]) THEN 1 ELSE 0)
  /\ requests_failed' = requests_failed
       + (IF IsFailure(pc'[c], status'[c], request'[c]) /\ ~IsFailure(pc[c], status[c], request[c]) THEN 1 ELSE 0)
  /\ events_evaluated' = events_evaluated
       + (IF IsEvent(pc'[c], status'[c], request'[c]) /\ ~IsEvent(pc[c], status[c], request[c]) THEN 1 ELSE 0)
  /\ matches_found' = matches_found
       + (IF IsMatch(pc'[c], status'[c], request'[c]) /\ ~IsMatch(pc[c], status[c], request[c]) THEN 1 ELSE 0)
  /\ samples' \in 0..MaxSamples

LEMMA SameMatches == ASSUME loaded' = loaded, NEW event PROVE HasMatches(event)' <=> HasMatches(event)
BY DEF HasMatches, RS!EnabledAt

\* Others stay as they are.
LEMMA Moving ==
  ASSUME ConnectionsInv, NEW c \in Connections, Moves(c)
  PROVE  /\ pc' = [d \in Connections |-> pc'[d]] /\ status' = [d \in Connections |-> status'[d]]
         /\ request' = [d \in Connections |-> request'[d]]
         /\ \A d \in Connections : d # c =>
              pc'[d] = pc[d] /\ status'[d] = status[d] /\ request'[d] = request[d]
BY DEF Moves, ConnectionsInv
LEMMA TallyStep ==
  ASSUME ConnectionsInv, Tally, NEW c \in Connections, Moves(c), Counts(c)
  PROVE  Tally'
<1> DEFINE hits == {d \in Connections : IsMatch(pc'[d], status'[d], request'[d])}
<1>1. \A d \in Connections : d # c => pc'[d] = pc[d] /\ status'[d] = status[d] /\ request'[d] = request[d]
  BY Moving
<1>2. Hits' = hits
  <2>1. \A event : HasMatches(event)' <=> HasMatches(event)
    BY SameMatches DEF Moves
  <2> QED BY <2>1 DEF Hits, IsMatch
<1>3. /\ Totals \in SUBSET Connections /\ Totals' \in SUBSET Connections /\ Totals \ {c} = Totals' \ {c}
      /\ c \in Totals <=> IsTotal(pc[c], status[c], request[c])
      /\ c \in Totals' <=> IsTotal(pc'[c], status'[c], request'[c])
  BY <1>1 DEF Totals
<1>4. /\ Successes \in SUBSET Connections /\ Successes' \in SUBSET Connections
      /\ Successes \ {c} = Successes' \ {c}
      /\ c \in Successes <=> IsSuccess(pc[c], status[c], request[c])
      /\ c \in Successes' <=> IsSuccess(pc'[c], status'[c], request'[c])
  BY <1>1 DEF Successes
<1>5. /\ Failures \in SUBSET Connections /\ Failures' \in SUBSET Connections
      /\ Failures \ {c} = Failures' \ {c}
      /\ c \in Failures <=> IsFailure(pc[c], status[c], request[c])
      /\ c \in Failures' <=> IsFailure(pc'[c], status'[c], request'[c])
  BY <1>1 DEF Failures
<1>6. /\ Events \in SUBSET Connections /\ Events' \in SUBSET Connections /\ Events \ {c} = Events' \ {c}
      /\ c \in Events <=> IsEvent(pc[c], status[c], request[c])
      /\ c \in Events' <=> IsEvent(pc'[c], status'[c], request'[c])
  BY <1>1 DEF Events
<1>7. /\ Hits \in SUBSET Connections /\ hits \in SUBSET Connections /\ Hits \ {c} = hits \ {c}
      /\ c \in Hits <=> IsMatch(pc[c], status[c], request[c])
      /\ c \in hits <=> IsMatch(pc'[c], status'[c], request'[c])
  BY <1>1 DEF Hits
<1> HIDE DEF hits
<1>8. requests_total' = Cardinality(Totals')
  BY <1>3, OneMore DEF Tally, Counts
<1>9. requests_success' = Cardinality(Successes')
  BY <1>4, OneMore DEF Tally, Counts
<1>10. requests_failed' = Cardinality(Failures')
  BY <1>5, OneMore DEF Tally, Counts
<1>11. events_evaluated' = Cardinality(Events')
  BY <1>6, OneMore DEF Tally, Counts
<1>12. matches_found' = Cardinality(Hits')
  BY <1>2, <1>7, OneMore DEF Tally, Counts
<1> QED BY <1>8, <1>9, <1>10, <1>11, <1>12 DEF Tally, Counts

LEMMA ConnectionsStep ==
  ASSUME ConnectionsInv, NEW c \in Connections, Moves(c), RequestOK(pc'[c], status'[c], request'[c])
  PROVE  ConnectionsInv'
<1>1. /\ pc' = [d \in Connections |-> pc'[d]] /\ status' = [d \in Connections |-> status'[d]]
      /\ request' = [d \in Connections |-> request'[d]]
      /\ \A d \in Connections : d # c => pc'[d] = pc[d] /\ status'[d] = status[d] /\ request'[d] = request[d]
  BY Moving
<1>2. \A event : HasMatches(event)' <=> HasMatches(event)
  BY SameMatches DEF Moves
<1>3. ASSUME NEW d \in Connections PROVE RequestOK(pc'[d], status'[d], request'[d])
  BY <1>1 DEF ConnectionsInv
<1>4. ASSUME NEW d \in Connections PROVE RequestOK(pc[d], status[d], request[d])'
  BY <1>2, <1>3 DEF RequestOK
<1> QED BY <1>1, <1>4 DEF ConnectionsInv, Moves

\* What a request waits for is counted nowhere.
LEMMA LimitsStep ==
  ASSUME Limits, ConnectionsInv, NEW c \in Connections, Moves(c),
         \/ pc[c] \notin {"none", "waiting", "done"} /\ request'[c] = request[c]
         \/ pc'[c] \in {"waiting", "done"}
         \/ request'[c] = request[c] /\ Cardinality(Inside(request[c].route)) < MaxConcurrentRequests
  PROVE  Limits'
<1> SUFFICES ASSUME NEW route PROVE Cardinality(Inside(route)') <= MaxConcurrentRequests
  BY DEF Limits
<1>1. \A d \in Connections : d # c => pc'[d] = pc[d] /\ status'[d] = status[d] /\ request'[d] = request[d]
  BY Moving
<1> DEFINE A == Inside(route)
           B == Inside(route)'
<1>2. /\ A \in SUBSET Connections /\ B \in SUBSET Connections /\ A \ {c} = B \ {c}
      /\ c \in A <=> pc[c] \notin {"none", "waiting", "done"} /\ request[c].route = route
      /\ c \in B <=> pc'[c] \notin {"none", "waiting", "done"} /\ request'[c].route = route
  BY <1>1 DEF Inside
<1>3. Cardinality(A) <= MaxConcurrentRequests
  BY DEF Limits
<1>4. c \in B /\ c \notin A => Cardinality(A) < MaxConcurrentRequests
  BY <1>2
<1>5. IsFiniteSet(A) /\ Cardinality(A) \in Nat /\ IsFiniteSet(B) /\ Cardinality(B) \in Nat
  BY <1>2, SubsetsAreFinite
<1> HIDE DEF A, B
<1>6. ASSUME c \in A => c \in B PROVE Cardinality(B) <= MaxConcurrentRequests
  <2>1. Cardinality(B) = Cardinality(A) + (IF c \in B /\ c \notin A THEN 1 ELSE 0)
    BY <1>2, <1>6, OneMore
  <2> QED BY <1>3, <1>4, <1>5, <2>1, ServiceAssumption
<1>7. ASSUME c \in A, c \notin B PROVE Cardinality(B) <= MaxConcurrentRequests
  <2>1. B \subseteq A
    BY <1>2, <1>7
  <2>2. Cardinality(B) <= Cardinality(A)
    BY <1>5, <2>1, FS_Subset
  <2> QED BY <1>3, <1>5, <2>2, ServiceAssumption
<1> QED BY <1>6, <1>7 DEF B
\* What each of the steps of a request does for it.
Steps(c) ==
  /\ Moves(c) /\ Counts(c) /\ RequestOK(pc'[c], status'[c], request'[c])
  /\ \/ pc[c] \notin {"none", "waiting", "done"} /\ request'[c] = request[c]
     \/ pc'[c] \in {"waiting", "done"}
     \/ request'[c] = request[c] /\ Cardinality(Inside(request[c].route)) < MaxConcurrentRequests

LEMMA MoveIs ==
  ASSUME ConnectionsInv, NEW c \in Connections, NEW from, NEW to, Move(c, from, to)
  PROVE  /\ pc[c] = from /\ pc' = [pc EXCEPT ![c] = to] /\ pc'[c] = to
         /\ loaded' = loaded /\ outcome' = outcome /\ runner' = runner /\ runner # "off"
         /\ status = [status EXCEPT ![c] = status[c]] /\ request = [request EXCEPT ![c] = request[c]]
         /\ RequestOK(pc[c], status[c], request[c])
BY DEF ConnectionsInv, Move, Serving, Running, engine, servers

LEMMA CountersAreNumbers ==
  ASSUME Tally
  PROVE  /\ requests_total \in Nat /\ requests_success \in Nat /\ requests_failed \in Nat
         /\ events_evaluated \in Nat /\ matches_found \in Nat /\ samples \in 0..MaxSamples
BY SubsetsAreFinite DEF Tally, Totals, Successes, Failures, Events, Hits

LEMMA AnswerIs ==
  ASSUME ConnectionsInv, NEW c \in Connections, NEW code, Answer(c, code)
  PROVE  /\ status' = [status EXCEPT ![c] = code] /\ status'[c] = code /\ request' = request
BY DEF ConnectionsInv, Answer

LEMMA UnansweredIs ==
  ASSUME ConnectionsInv, NEW c \in Connections, Unanswered
  PROVE  status' = status /\ request' = request
BY DEF Unanswered

LEMMA ArriveSteps == ASSUME ConnectionsInv, Tally, NEW c \in Connections, Arrive(c) PROVE Steps(c)
<1>1. Move(c, "none", "waiting") /\ status' = status /\ UNCHANGED metrics
  BY DEF Arrive
<1>2. PICK r \in Requests : request' = [request EXCEPT ![c] = r]
  BY DEF Arrive
<1>3. /\ pc[c] = "none" /\ pc'[c] = "waiting" /\ request'[c] = r /\ Moves(c)
  BY <1>1, <1>2, MoveIs DEF Moves, ConnectionsInv
<1>4. Counts(c)
  BY <1>1, <1>3, CountersAreNumbers DEF Counts, metrics, IsTotal, IsSuccess, IsFailure, IsEvent, IsMatch
<1>5. RequestOK(pc'[c], status'[c], request'[c])
  BY <1>3 DEF RequestOK, Places
<1> QED BY <1>3, <1>4, <1>5 DEF Steps

LEMMA AdmitSteps == ASSUME ConnectionsInv, Tally, NEW c \in Connections, Admit(c) PROVE Steps(c)
<1>1. Move(c, "waiting", "inside") /\ status' = status /\ request' = request /\ UNCHANGED metrics
  BY DEF Admit, Unanswered
<1>2. /\ pc[c] = "waiting" /\ pc'[c] = "inside" /\ RequestOK(pc[c], status[c], request[c]) /\ Moves(c)
  BY <1>1, MoveIs DEF Moves
<1>3. Counts(c)
  BY <1>1, <1>2, CountersAreNumbers DEF Counts, metrics, IsTotal, IsSuccess, IsFailure, IsEvent, IsMatch
<1>4. RequestOK(pc'[c], status'[c], request'[c])
  BY <1>1, <1>2 DEF RequestOK, Places
<1> QED BY <1>1, <1>2, <1>3, <1>4 DEF Steps, Admit

\* Before it is counted, a request may be answered or not.
LEMMA UncountedSteps ==
  ASSUME ConnectionsInv, Tally, NEW c \in Connections, UNCHANGED metrics,
         NEW from, NEW to, NEW code, Move(c, from, to), from \in {"inside", "extract", "evaluate"},
         status' = [status EXCEPT ![c] = code], status'[c] = code, request' = request,
         RequestOK(to, code, request[c]),
         to # "done" => to \in {"extract", "evaluate", "count_success", "count_failed"},
         to = "done" => ~IsSuccess(to, code, request[c]) /\ ~IsFailure(to, code, request[c])
                        /\ ~(code = "200" /\ request[c].route = "evaluate")
  PROVE  Steps(c)
<1>1. /\ pc[c] = from /\ pc'[c] = to /\ Moves(c)
  <2>1. /\ pc[c] = from /\ pc'[c] = to /\ pc' = [pc EXCEPT ![c] = to]
        /\ loaded' = loaded /\ outcome' = outcome /\ runner' = runner /\ runner # "off"
        /\ request' = [request EXCEPT ![c] = request[c]]
    BY MoveIs
  <2>2. PICK r : r = request[c]
    OBVIOUS
  <2>3. request' = [request EXCEPT ![c] = r] /\ status' = [status EXCEPT ![c] = code]
    BY <2>1, <2>2
  <2>4. \E p, a, q : /\ pc' = [pc EXCEPT ![c] = p] /\ status' = [status EXCEPT ![c] = a]
                    /\ request' = [request EXCEPT ![c] = q]
    <3> WITNESS to, code, r
    <3> QED BY <2>1, <2>3
  <2> QED BY <2>1, <2>4 DEF Moves
<1>2. /\ ~IsTotal(pc[c], status[c], request[c]) /\ ~IsSuccess(pc[c], status[c], request[c])
      /\ ~IsFailure(pc[c], status[c], request[c]) /\ ~IsEvent(pc[c], status[c], request[c])
      /\ ~IsMatch(pc[c], status[c], request[c])
  BY <1>1 DEF IsTotal, IsSuccess, IsFailure, IsEvent, IsMatch
<1>3. /\ ~IsTotal(to, code, request[c]) /\ ~IsSuccess(to, code, request[c])
      /\ ~IsFailure(to, code, request[c]) /\ ~IsEvent(to, code, request[c])
      /\ ~IsMatch(to, code, request[c])
  BY DEF IsTotal, IsSuccess, IsFailure, IsEvent, IsMatch
<1>4. Counts(c)
  BY <1>1, <1>2, <1>3, CountersAreNumbers DEF Counts, metrics
<1> QED BY <1>1, <1>4 DEF Steps
LEMMA AuthenticateSteps == ASSUME ConnectionsInv, Tally, NEW c \in Connections, Authenticate(c) PROVE Steps(c)
<1> DEFINE r == request[c]
<1>1. r \in Requests /\ r.route \in {"health", "rules", "metrics", "evaluate"}
  BY ServiceAssumption DEF ConnectionsInv, RequestOK
<1>2. UNCHANGED metrics
  BY DEF Authenticate
<1>3. ASSUME ~Unlocked(r), Move(c, "inside", "count_failed"), Answer(c, "401") PROVE Steps(c)
  <2>1. RequestOK("count_failed", "401", r)
    BY <1>1, <1>3 DEF RequestOK, Places, Unlocked
  <2> QED BY <1>2, <1>3, <2>1, AnswerIs, UncountedSteps
<1>4. ASSUME r.route \in {"health", "rules"}, Move(c, "inside", "done"), Answer(c, "200") PROVE Steps(c)
  <2>1. RequestOK("done", "200", r)
    BY <1>1 DEF RequestOK, Places
  <2>2. ~IsSuccess("done", "200", r) /\ ~IsFailure("done", "200", r) /\ r.route # "evaluate"
    BY <1>4 DEF IsSuccess, IsFailure
  <2> QED BY <1>2, <1>4, <2>1, <2>2, AnswerIs, UncountedSteps
<1>5. ASSUME r.route = "metrics", Move(c, "inside", "count_success"), Answer(c, "200") PROVE Steps(c)
  <2>1. RequestOK("count_success", "200", r)
    BY <1>1, <1>5 DEF RequestOK, Places
  <2> QED BY <1>2, <1>5, <2>1, AnswerIs, UncountedSteps
<1>6. ASSUME r.route = "evaluate", Move(c, "inside", "extract"), Unanswered PROVE Steps(c)
  <2>1. RequestOK("extract", status[c], r)
    BY <1>1, <1>6 DEF RequestOK, Places
  <2>2. status' = [status EXCEPT ![c] = status[c]] /\ status'[c] = status[c] /\ request' = request
    BY <1>6, UnansweredIs, MoveIs
  <2> QED BY <1>2, <1>6, <2>1, <2>2, UncountedSteps
<1> QED BY <1>3, <1>4, <1>5, <1>6 DEF Authenticate

LEMMA ExtractSteps == ASSUME ConnectionsInv, Tally, NEW c \in Connections, Extract(c) PROVE Steps(c)
<1> DEFINE r == request[c]
<1>1. /\ RequestOK(pc[c], status[c], r) /\ UNCHANGED metrics
  BY DEF ConnectionsInv, Extract
<1>2. ASSUME Move(c, "extract", "done"), Answer(c, "4xx") PROVE Steps(c)
  <2>1. RequestOK("done", "4xx", r) /\ ~IsSuccess("done", "4xx", r) /\ ~IsFailure("done", "4xx", r)
    BY <1>1 DEF RequestOK, Places, IsSuccess, IsFailure
  <2> QED BY <1>1, <1>2, <2>1, AnswerIs, UncountedSteps
<1>3. ASSUME Move(c, "extract", "count_failed"), Answer(c, "400") PROVE Steps(c)
  <2>1. RequestOK("count_failed", "400", r)
    BY <1>1, <1>3, MoveIs DEF RequestOK, Places
  <2> QED BY <1>1, <1>3, <2>1, AnswerIs, UncountedSteps
<1>4. ASSUME Move(c, "extract", "evaluate"), Unanswered PROVE Steps(c)
  <2>1. RequestOK("evaluate", status[c], r)
    BY <1>1, <1>4, MoveIs DEF RequestOK, Places
  <2>2. status' = [status EXCEPT ![c] = status[c]] /\ status'[c] = status[c] /\ request' = request
    BY <1>4, UnansweredIs, MoveIs
  <2> QED BY <1>1, <1>4, <2>1, <2>2, UncountedSteps
<1> QED BY <1>2, <1>3, <1>4 DEF Extract

LEMMA EvaluateSteps ==
  ASSUME ConnectionsInv, Tally, NEW c \in Connections, Evaluate(c) \/ TimeOut(c)
  PROVE  Steps(c)
<1> DEFINE r == request[c]
<1>1. /\ RequestOK(pc[c], status[c], r) /\ UNCHANGED metrics
  BY DEF ConnectionsInv, Evaluate, TimeOut
<1>2. ASSUME Move(c, "evaluate", "count_success"), Answer(c, "200") PROVE Steps(c)
  <2>1. RequestOK("count_success", "200", r)
    BY <1>1, <1>2, MoveIs DEF RequestOK, Places
  <2> QED BY <1>1, <1>2, <2>1, AnswerIs, UncountedSteps
<1>3. ASSUME NEW at \in {"extract", "evaluate"}, Move(c, at, "done"), Answer(c, "408") PROVE Steps(c)
  <2>1. RequestOK("done", "408", r) /\ ~IsSuccess("done", "408", r) /\ ~IsFailure("done", "408", r)
    BY <1>1 DEF RequestOK, Places, IsSuccess, IsFailure
  <2> QED BY <1>1, <1>3, <2>1, AnswerIs, UncountedSteps
<1> QED BY <1>2, <1>3 DEF Evaluate, TimeOut

\* The steps that count move a request that was answered.
LEMMA CountingSteps ==
  ASSUME ConnectionsInv, Tally, NEW c \in Connections,
         CountRequest(c) \/ CountOutcome(c) \/ CountEvent(c) \/ CountMatch(c) \/ AddSample(c)
  PROVE  Steps(c)
<1> DEFINE r == request[c]
           code == status[c]
<1>1. /\ RequestOK(pc[c], code, r) /\ status' = status /\ request' = request
  BY DEF ConnectionsInv, CountRequest, CountOutcome, CountEvent, CountMatch, AddSample, Unanswered
<1>2. ASSUME NEW from, NEW to, Move(c, from, to) PROVE pc[c] = from /\ pc'[c] = to /\ Moves(c)
  BY <1>1, <1>2, MoveIs DEF Moves
<1>3. CASE CountRequest(c)
  <2>1. PICK from, to : /\ <<from, to>> \in {<<"count_success", "success">>, <<"count_failed", "failed">>}
                        /\ Move(c, from, to)
    BY <1>3 DEF CountRequest
  <2>2. pc[c] = from /\ pc'[c] = to /\ Moves(c)
    BY <1>2, <2>1
  <2>3. RequestOK(to, code, r)
    BY <1>1, <2>1, <2>2 DEF RequestOK, Places
  <2>4. Counts(c)
    BY <1>1, <1>3, <2>1, <2>2, CountersAreNumbers
       DEF CountRequest, Counts, IsTotal, IsSuccess, IsFailure, IsEvent, IsMatch
  <2> QED BY <1>1, <2>1, <2>2, <2>3, <2>4 DEF Steps
<1>4. CASE CountOutcome(c)
  <2>1. CASE Move(c, "success", IF Evaluated(c) THEN "event" ELSE "done")
             /\ requests_success' = requests_success + 1 /\ UNCHANGED requests_failed
    <3>1. pc[c] = "success" /\ pc'[c] = (IF Evaluated(c) THEN "event" ELSE "done") /\ Moves(c)
      BY <1>2, <2>1
    <3>2. code = "200" /\ r.route \in {"metrics", "evaluate"} /\ (Evaluated(c) <=> r.route = "evaluate")
      BY <1>1, <3>1 DEF RequestOK, Evaluated
    <3>3. RequestOK(pc'[c], code, r)
      BY <1>1, <3>1, <3>2 DEF RequestOK, Places
    <3>4. Counts(c)
      BY <1>1, <1>4, <2>1, <3>1, <3>2, CountersAreNumbers
         DEF CountOutcome, Counts, IsTotal, IsSuccess, IsFailure, IsEvent, IsMatch
    <3> QED BY <1>1, <3>1, <3>3, <3>4 DEF Steps
  <2>2. CASE Move(c, "failed", "done") /\ requests_failed' = requests_failed + 1 /\ UNCHANGED requests_success
    <3>1. pc[c] = "failed" /\ pc'[c] = "done" /\ Moves(c)
      BY <1>2, <2>2
    <3>2. code \in {"400", "401"} /\ r.route \in {"metrics", "rules", "evaluate"}
      BY <1>1, <3>1 DEF RequestOK
    <3>3. RequestOK("done", code, r)
      BY <1>1 DEF RequestOK, Places
    <3>4. Counts(c)
      BY <1>1, <1>4, <2>2, <3>1, <3>2, CountersAreNumbers
         DEF CountOutcome, Counts, IsTotal, IsSuccess, IsFailure, IsEvent, IsMatch
    <3> QED BY <1>1, <3>1, <3>3, <3>4 DEF Steps
  <2> QED BY <1>4, <2>1, <2>2 DEF CountOutcome
<1>5. CASE CountEvent(c)
  <2>1. /\ pc[c] = "event" /\ pc'[c] = (IF HasMatches(r.body.event) THEN "match" ELSE "sample") /\ Moves(c)
    BY <1>2, <1>5 DEF CountEvent
  <2>2. code = "200" /\ r.route = "evaluate"
    BY <1>1, <2>1 DEF RequestOK
  <2>3. RequestOK(pc'[c], code, r)
    BY <1>1, <2>1, <2>2 DEF RequestOK, Places
  <2>4. Counts(c)
    BY <1>1, <1>5, <2>1, <2>2, CountersAreNumbers
       DEF CountEvent, Counts, IsTotal, IsSuccess, IsFailure, IsEvent, IsMatch
  <2> QED BY <1>1, <2>1, <2>3, <2>4 DEF Steps
<1>6. CASE CountMatch(c)
  <2>1. pc[c] = "match" /\ pc'[c] = "sample" /\ Moves(c)
    BY <1>2, <1>6 DEF CountMatch
  <2>2. code = "200" /\ r.route = "evaluate" /\ HasMatches(r.body.event)
    BY <1>1, <2>1 DEF RequestOK
  <2>3. RequestOK(pc'[c], code, r)
    BY <1>1, <2>1, <2>2 DEF RequestOK, Places
  <2>4. Counts(c)
    BY <1>1, <1>6, <2>1, <2>2, CountersAreNumbers
       DEF CountMatch, Counts, IsTotal, IsSuccess, IsFailure, IsEvent, IsMatch
  <2> QED BY <1>1, <2>1, <2>3, <2>4 DEF Steps
<1>7. CASE AddSample(c)
  <2>1. pc[c] = "sample" /\ pc'[c] = "done" /\ Moves(c)
    BY <1>2, <1>7 DEF AddSample
  <2>2. code = "200" /\ r.route = "evaluate"
    BY <1>1, <2>1 DEF RequestOK
  <2>3. RequestOK(pc'[c], code, r)
    BY <1>1, <2>1, <2>2 DEF RequestOK, Places
  <2>4. samples' \in 0..MaxSamples
    BY <1>7, CountersAreNumbers, ServiceAssumption DEF AddSample
  <2>5. Counts(c)
    BY <1>1, <1>7, <2>1, <2>2, <2>4, CountersAreNumbers
       DEF AddSample, Counts, IsTotal, IsSuccess, IsFailure, IsEvent, IsMatch
  <2> QED BY <1>1, <2>1, <2>3, <2>5 DEF Steps
<1> QED BY <1>3, <1>4, <1>5, <1>6, <1>7
\* A step of another part of the service, which counts nothing.
LEMMA OtherStep ==
  ASSUME ConnectionsInv, Tally, Limits, UNCHANGED <<connections, metrics>>,
         outcome' \in {"loading", "ready", "failed"}, runner' # "off" => outcome' = "ready",
         runner = "off" \/ (loaded' = loaded /\ runner' # "off")
  PROVE  ConnectionsInv' /\ Tally' /\ Limits'
<1>1. pc' = pc /\ status' = status /\ request' = request
  BY DEF connections
<1>2. ASSUME NEW c \in Connections, NEW r PROVE IsMatch(pc[c], status[c], r)' <=> IsMatch(pc[c], status[c], r)'
  OBVIOUS
<1>3. CASE runner = "off"
  <2>1. \A c \in Connections : pc[c] = "none"
    BY <1>3 DEF ConnectionsInv
  <2>2. \A c \in Connections : RequestOK(pc[c], status[c], request[c])'
    BY <1>1, <2>1 DEF RequestOK, ConnectionsInv
  <2>3. Hits' = Hits /\ Totals' = Totals /\ Successes' = Successes /\ Failures' = Failures /\ Events' = Events
    BY <1>1, <2>1 DEF Hits, Totals, Successes, Failures, Events, IsTotal, IsSuccess, IsFailure, IsEvent, IsMatch
  <2>4. Tally' /\ Limits'
    BY <1>1, <2>3 DEF Tally, Limits, Inside, metrics
  <2> QED BY <1>1, <2>1, <2>2, <2>4 DEF ConnectionsInv
<1>4. CASE loaded' = loaded /\ runner' # "off"
  <2>1. \A event : HasMatches(event)' <=> HasMatches(event)
    BY <1>4, SameMatches
  <2>2. \A c \in Connections : RequestOK(pc[c], status[c], request[c])'
    BY <1>1, <2>1 DEF RequestOK, ConnectionsInv
  <2>3. Hits' = Hits /\ Totals' = Totals /\ Successes' = Successes /\ Failures' = Failures /\ Events' = Events
    BY <1>1, <2>1 DEF Hits, Totals, Successes, Failures, Events, IsMatch
  <2>4. Tally' /\ Limits'
    BY <1>1, <2>3 DEF Tally, Limits, Inside, metrics
  <2> QED BY <1>1, <1>4, <2>2, <2>4 DEF ConnectionsInv
<1> QED BY <1>3, <1>4

LEMMA ConnectionsStart == ServiceInit => ConnectionsInv /\ Tally /\ Limits
<1> SUFFICES ASSUME ServiceInit PROVE ConnectionsInv /\ Tally /\ Limits
  OBVIOUS
<1>1. /\ pc = [c \in Connections |-> "none"] /\ status = [c \in Connections |-> "none"]
      /\ request = [c \in Connections |-> CHOOSE r \in Requests : TRUE]
      /\ runner = "off" /\ outcome = "loading"
  BY DEF ServiceInit, EngineInit
<1>2. (CHOOSE r \in Requests : TRUE) \in Requests
  BY ServiceAssumption
<1>3. ConnectionsInv
  BY <1>1, <1>2 DEF ConnectionsInv, RequestOK, Places
<1>4. /\ Hits = {} /\ Totals = {} /\ Successes = {} /\ Failures = {} /\ Events = {}
      /\ \A route : Inside(route) = {}
  BY <1>1 DEF Hits, Totals, Successes, Failures, Events, IsTotal, IsSuccess, IsFailure, IsEvent, IsMatch, Inside
<1>5. Tally
  BY <1>4, FS_EmptySet, ServiceAssumption DEF Tally, ServiceInit
<1>6. Limits
  BY <1>4, FS_EmptySet, ServiceAssumption DEF Limits
<1> QED BY <1>3, <1>5, <1>6

LEMMA ConnectionsNext ==
  ASSUME ConnectionsInv, Tally, Limits, ServiceNext
  PROVE  ConnectionsInv' /\ Tally' /\ Limits'
<1>1. outcome \in {"loading", "ready", "failed"} /\ (runner # "off" => outcome = "ready")
  BY DEF ConnectionsInv
<1>2. CASE EngineNext /\ UNCHANGED service
  <2>1. outcome = "loading"
    BY <1>2 DEF EngineNext, StartRoot, OpenDir, BreakOff, GiveUp, Ready, Skip, LoadRule, Walking
  <2>2. outcome' \in {"loading", "ready", "failed"}
    BY <1>2, <2>1 DEF EngineNext, StartRoot, OpenDir, BreakOff, GiveUp, Ready, Skip, LoadRule, Raise
  <2>3. UNCHANGED <<connections, metrics>> /\ runner' = runner /\ runner = "off"
    BY <1>1, <1>2, <2>1 DEF service, servers
  <2> QED BY <2>2, <2>3, OtherStep
<1>3. CASE Start
  <2>1. UNCHANGED <<connections, metrics, outcome>> /\ runner = "off" /\ outcome = "ready"
    BY <1>3 DEF Start, engine
  <2> QED BY <2>1, OtherStep
<1>4. CASE HttpFails \/ GrpcFails \/ Signal \/ Stop \/ AwaitServer \/ StreamEvaluate
           \/ \E req \in StreamRequests : StreamSend(req)
  <2>1. UNCHANGED <<connections, metrics, outcome, loaded>> /\ runner \in {"first", "second"}
    BY <1>4 DEF HttpFails, GrpcFails, Signal, Stop, AwaitServer, StreamEvaluate, StreamSend, Running, engine
  <2>2. runner' # "off"
    BY <1>4, <2>1 DEF HttpFails, GrpcFails, Signal, Stop, AwaitServer, StreamEvaluate, StreamSend, servers
  <2> QED BY <1>1, <2>1, <2>2, OtherStep
<1>5. ASSUME NEW c \in Connections, Arrive(c) \/ Handle(c) \/ TimeOut(c)
      PROVE  ConnectionsInv' /\ Tally' /\ Limits'
  <2>1. Steps(c)
    BY <1>5, ArriveSteps, AdmitSteps, AuthenticateSteps, ExtractSteps, EvaluateSteps, CountingSteps DEF Handle
  <2> QED BY <2>1, ConnectionsStep, TallyStep, LimitsStep DEF Steps
<1> QED BY <1>2, <1>3, <1>4, <1>5 DEF ServiceNext

LEMMA ConnectionsInvariant == ServiceSpec => [](ConnectionsInv /\ Tally /\ Limits)
<1>1. ConnectionsInv /\ Tally /\ Limits /\ [ServiceNext]_<<engine, service>> => (ConnectionsInv /\ Tally /\ Limits)'
  <2> SUFFICES ASSUME ConnectionsInv, Tally, Limits, UNCHANGED <<engine, service>>
               PROVE  ConnectionsInv' /\ Tally' /\ Limits'
    BY ConnectionsNext
  <2>1. UNCHANGED <<connections, metrics, outcome, loaded, runner>>
    BY DEF engine, service, servers
  <2> QED BY <2>1, OtherStep DEF ConnectionsInv
<1> QED BY <1>1, ConnectionsStart, PTL DEF ServiceSpec
\* SERVICE_METRICS accounts for the answers, for any number of connections at any places:
\* whatever is half way, each counter counts the requests that have passed it.
THEOREM MetricsAlwaysAccount == ServiceSpec => []MetricsAccount
<1>1. ConnectionsInv /\ Tally => MetricsAccount
  <2> SUFFICES ASSUME ConnectionsInv, Tally PROVE MetricsAccount
    OBVIOUS
  <2> DEFINE answered(codes, routes) ==
        {c \in Connections : pc[c] = "done" /\ status[c] \in codes /\ request[c].route \in routes}
             matching == {c \in Connections : pc[c] = "done" /\ Evaluated(c) /\ HasMatches(request[c].body.event)}
  <2>1. matches_found <= events_evaluated
    <3>1. Hits \subseteq Events
      BY DEF Hits, Events, IsMatch, IsEvent
    <3>2. IsFiniteSet(Events)
      BY SubsetsAreFinite DEF Events
    <3> QED BY <3>1, <3>2, FS_Subset DEF Tally
  <2>2. ASSUME \A c \in Connections : pc[c] \in {"none", "waiting", "inside", "extract", "evaluate", "done"}
        PROVE  /\ requests_success = Cardinality(answered({"200"}, {"metrics", "evaluate"}))
               /\ requests_failed = Cardinality(answered({"400", "401"}, {"metrics", "rules", "evaluate"}))
               /\ requests_total = requests_success + requests_failed
               /\ events_evaluated = Cardinality(answered({"200"}, {"evaluate"}))
               /\ matches_found = Cardinality(matching)
    <3>1. Successes = answered({"200"}, {"metrics", "evaluate"})
      BY <2>2 DEF Successes, IsSuccess
    <3>2. Failures = answered({"400", "401"}, {"metrics", "rules", "evaluate"})
      BY <2>2 DEF Failures, IsFailure
    <3>3. Events = answered({"200"}, {"evaluate"})
      BY <2>2 DEF Events, IsEvent
    <3>4. Hits = matching
      BY <2>2 DEF Hits, IsMatch, Evaluated
    <3>5. Cardinality(Totals) = Cardinality(Successes) + Cardinality(Failures)
      <4>1. Totals = Successes \cup Failures /\ Successes \cap Failures = {}
        BY <2>2 DEF Totals, IsTotal, Successes, Failures, IsSuccess, IsFailure
      <4>2. IsFiniteSet(Successes) /\ IsFiniteSet(Failures)
        BY SubsetsAreFinite DEF Successes, Failures
      <4>3. Cardinality(Totals) = Cardinality(Successes) + Cardinality(Failures) - Cardinality(Successes \cap Failures)
        BY <4>1, <4>2, FS_Union
      <4>4. Cardinality(Successes) \in Nat /\ Cardinality(Failures) \in Nat
        BY SubsetsAreFinite DEF Successes, Failures
      <4>5. Cardinality(Successes \cap Failures) = 0
        BY <4>1, FS_EmptySet
      <4> QED BY <4>3, <4>4, <4>5
    <3> HIDE DEF answered, matching
    <3> QED BY <3>1, <3>2, <3>3, <3>4, <3>5 DEF Tally
  <2> QED BY <2>1, <2>2 DEF MetricsAccount
<1> QED BY <1>1, ConnectionsInvariant, PTL

\* Each route holds its limit: a slot is taken only when one is free, and what gives it back,
\* an answer or a timeout, is the end of the request.
THEOREM ServiceTypes == ServiceSpec => []ServiceTypeOK
<1> DEFINE Servers == /\ {http, grpc} \subseteq {"off", "none", "up", "failed"}
                      /\ runner \in {"off", "first", "second", "stopped", "exit_1"}
<1>1. ServiceInit => Servers
  BY DEF ServiceInit
<1>2. Servers /\ [ServiceNext]_<<engine, service>> => Servers'
  <2> SUFFICES ASSUME Servers, [ServiceNext]_<<engine, service>> PROVE Servers'
    OBVIOUS
  <2>1. ASSUME UNCHANGED servers PROVE Servers'
    BY <2>1 DEF servers
  <2>2. CASE UNCHANGED service
    BY <2>1, <2>2 DEF service
  <2>3. CASE Start \/ HttpFails \/ GrpcFails \/ Signal \/ Stop \/ AwaitServer
    BY <2>3 DEF Start, HttpFails, GrpcFails, Signal, Stop, AwaitServer
  <2>4. ASSUME NEW c \in Connections, Arrive(c) \/ Handle(c) \/ TimeOut(c) PROVE UNCHANGED servers
    BY <2>4 DEF Arrive, Handle, TimeOut, Admit, Authenticate, Extract, Evaluate, CountRequest, CountOutcome,
                CountEvent, CountMatch, AddSample, Move
  <2>5. ASSUME StreamEvaluate \/ \E req \in StreamRequests : StreamSend(req) PROVE UNCHANGED servers
    BY <2>5 DEF StreamEvaluate, StreamSend
  <2> QED BY <2>1, <2>2, <2>3, <2>4, <2>5 DEF ServiceNext
<1>3. ConnectionsInv /\ Tally /\ Limits /\ Servers => ServiceTypeOK
  BY DEF ConnectionsInv, Tally, Limits, ServiceTypeOK
<1> QED BY <1>1, <1>2, <1>3, ConnectionsInvariant, PTL DEF ServiceSpec

\* The service loads its rules as the engine does, whatever it does besides.
THEOREM ServiceCountsFiles == ServiceSpec => []AllFilesAccounted
<1>1. ServiceInit => EngineInv /\ WalkInv
  BY EngineInitially, WalkInitially DEF ServiceInit
<1>2. EngineInv /\ WalkInv /\ [ServiceNext]_<<engine, service>> => (EngineInv /\ WalkInv)'
  <2>1. EngineInv /\ UNCHANGED engine => EngineInv'
    BY DEF EngineInv, engine, builder
  <2>2. ASSUME NEW c \in Connections, Arrive(c) \/ Handle(c) \/ TimeOut(c) PROVE UNCHANGED engine
    BY <2>2 DEF Arrive, Handle, TimeOut, Admit, Authenticate, Extract, Evaluate, CountRequest, CountOutcome,
                CountEvent, CountMatch, AddSample, Move
  <2>3. ServiceNext => EngineNext \/ UNCHANGED engine
    BY <2>2 DEF ServiceNext, Start, HttpFails, GrpcFails, Signal, Stop, AwaitServer, StreamEvaluate, StreamSend
  <2> QED BY <2>1, <2>3, EngineStep, WalkNext, WalkStays
<1> QED BY <1>1, <1>2, WalkedAll, PTL DEF ServiceSpec
==================================================================================
