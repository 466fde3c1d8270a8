------------------------------ MODULE SigmaEngine ------------------------------
(***************************************************************************)
(* How rules are loaded: SigmaEngine::new (src/engine.rs) and              *)
(* RuleSet::load, which both walk the rule directories with a stack        *)
(* (src/ruleset/mod.rs).  read_dir() gives the entries of a directory in   *)
(* any order.                                                              *)
(*                                                                         *)
(* A rule file is what the checks of src/rule tell apart.                  *)
(***************************************************************************)
EXTENDS Integers, SequencesExt, FiniteSetsExt

CONSTANTS
  Contents,       \* Directory -> its entries: [kind : "dir", dir], [kind : "rule", file], [kind : "other"]
  Unreadable,     \* the directories that cannot be read
  RuleDirs,       \* the lists of directories a builder may be given
  IdMissing,
  MaxRulesPerDir  \* MAX_RULES_PER_DIR

Directories == DOMAIN Contents
AllEntries == UNION {Contents[dir] : dir \in Directories}
Subdirs(dir) == {e.dir : e \in {x \in Contents[dir] : x.kind = "dir"}}

\* The directories below each, itself included: those in every set that holds it and with a
\* directory its subdirectories.
Below ==
  [dir \in Directories |->
    {d \in Directories : \A D \in SUBSET Directories :
       dir \in D /\ (\A x \in D : Subdirs(x) \subseteq D) => d \in D}]

\* Directories form a tree: links are not followed, since file_type() says of one that it is
\* no directory.
ASSUME EngineAssumption ==
  /\ \A dirs \in RuleDirs : dirs \in Seq(Range(dirs))
  /\ \A dir \in Directories : \A e \in Contents[dir] : e.kind = "dir" =>
       /\ e.dir \in Directories /\ dir \notin Below[e.dir]
       /\ \A other \in Directories : \A x \in Contents[other] :
            x.kind = "dir" /\ x.dir = e.dir => other = dir /\ x = e

\* The rule set as a value; its callers come after the loading.
RS == INSTANCE RuleSet WITH
  NoId <- IdMissing, Callers <- {}, Rules <- {}, MaxConcurrent <- 1, MaxCalls <- 0, MaxRules <- 0,
  ruleset <- 0, queue <- <<>>, readers <- {}, writer <- FALSE, call_pc <- <<>>, op <- <<>>,
  tasks <- <<>>, permits <- <<>>, cursor <- <<>>, matches <- <<>>, calls <- 0

VARIABLES
  entry,        \* which of the two loads: SigmaEngine's "new" or RuleSet's "load"
  rule_dirs, fail_on_parse_error,   \* of SigmaEngineBuilder
  loaded,       \* the rule set so far
  next_root,    \* the rule directory that comes next
  dirs_to_process, entries, total_file_count,   \* load_from_directory(): its locals
  outcome,      \* "loading", "ready" or "failed"
  seen, cut     \* history: the rule files looked at; whether a walk was given up or failed

builder == <<entry, rule_dirs, fail_on_parse_error>>
engine == <<builder, loaded, next_root, dirs_to_process, entries, total_file_count, outcome, seen, cut>>

EngineInit ==
  /\ entry \in {"new", "load"} /\ rule_dirs \in RuleDirs /\ fail_on_parse_error \in BOOLEAN
  /\ loaded = RS!NewRuleSet
  /\ next_root = 1 /\ dirs_to_process = <<>> /\ entries = {} /\ total_file_count = 0
  /\ outcome = "loading" /\ seen = 0 /\ cut = FALSE

\* Detection::extract() is file.keys; a condition may be trivial ("1", "true").
\* validate_rule(): a title, an id that is a UUID, a condition, and no key that is empty.
ValidRule(file) ==
  /\ file.title /\ file.id # IdMissing
  /\ file.condition # "none"
  /\ "" \notin file.keys
  /\ file.keys = {} => file.condition = "trivial"

\* rule_from_yaml() and add_rule(), the second of which builds the tree.
Loads(file) == file.yaml /\ ValidRule(file) /\ file.builds

\* RuleSet::load() passes the flag on, load_directory() passes FALSE.
FailsAtError == entry = "load" /\ fail_on_parse_error

\* Where an error ends: `?` in load(), and in new() a warning unless it is told to fail.
Raise ==
  /\ cut' = TRUE
  /\ IF entry = "load" \/ fail_on_parse_error
     THEN outcome' = "failed" ELSE outcome' = outcome
  /\ dirs_to_process' = <<>> /\ entries' = {}

Walking == outcome = "loading" /\ (dirs_to_process # <<>> \/ entries # {})

\* The next of the rule directories, which must exist.
StartRoot ==
  /\ outcome = "loading" /\ ~Walking /\ next_root <= Len(rule_dirs)
  /\ next_root' = next_root + 1 /\ total_file_count' = 0
  /\ IF rule_dirs[next_root] \in Directories
     THEN dirs_to_process' = <<rule_dirs[next_root]>> /\ UNCHANGED <<entries, outcome, cut>>
     ELSE Raise
  /\ UNCHANGED <<builder, loaded, seen>>

\* pop() and read_dir().
OpenDir ==
  /\ Walking /\ entries = {}
  /\ LET dir == Last(dirs_to_process) IN
     IF dir \in Unreadable THEN Raise
     ELSE /\ dirs_to_process' = Front(dirs_to_process) /\ entries' = Contents[dir]
          /\ UNCHANGED <<outcome, cut>>
  /\ UNCHANGED <<builder, loaded, next_root, total_file_count, seen>>

\* next_entry() or file_type() fails while the walk is under way: `?` in load_from_directory().
\* The next_entry() that would end the last directory of a walk is not among those that fail.
BreakOff ==
  /\ Walking /\ Raise
  /\ UNCHANGED <<builder, loaded, next_root, total_file_count, seen>>

\* The walk is given up, with Ok, when it has seen its fill of rules.
GiveUp ==
  /\ Walking /\ entries # {} /\ total_file_count >= MaxRulesPerDir
  /\ dirs_to_process' = <<>> /\ entries' = {} /\ cut' = TRUE
  /\ UNCHANGED <<builder, loaded, next_root, total_file_count, outcome, seen>>

Skip(e) ==
  /\ Walking /\ e \in entries /\ total_file_count < MaxRulesPerDir /\ e.kind # "rule"
  /\ dirs_to_process' = (IF e.kind = "dir" THEN Append(dirs_to_process, e.dir) ELSE dirs_to_process)
  /\ entries' = entries \ {e}
  /\ UNCHANGED <<builder, loaded, next_root, total_file_count, outcome, seen, cut>>

\* Mutant of LoadRule: a file that fails is not counted.
LoadRuleQuietly(e) ==
  /\ Walking /\ e \in entries /\ total_file_count < MaxRulesPerDir /\ e.kind = "rule"
  /\ total_file_count' = total_file_count + 1 /\ seen' = seen + 1
  /\ IF Loads(e.file) THEN loaded' = RS!AddRule(loaded, e.file) ELSE loaded' = loaded
  /\ IF ~Loads(e.file) /\ FailsAtError THEN Raise
     ELSE entries' = entries \ {e} /\ UNCHANGED <<dirs_to_process, outcome, cut>>
  /\ UNCHANGED <<builder, next_root>>

LoadRule(e) ==
  /\ Walking /\ e \in entries /\ total_file_count < MaxRulesPerDir /\ e.kind = "rule"
  /\ total_file_count' = total_file_count + 1 /\ seen' = seen + 1
  /\ IF Loads(e.file) THEN loaded' = RS!AddRule(loaded, e.file)
     ELSE loaded' = [loaded EXCEPT !.failed = @ + 1]
  /\ IF ~Loads(e.file) /\ FailsAtError THEN Raise
     ELSE entries' = entries \ {e} /\ UNCHANGED <<dirs_to_process, outcome, cut>>
  /\ UNCHANGED <<builder, next_root>>

Ready ==
  /\ outcome = "loading" /\ ~Walking /\ next_root > Len(rule_dirs)
  /\ outcome' = "ready"
  /\ UNCHANGED <<builder, loaded, next_root, dirs_to_process, entries, total_file_count, seen, cut>>

EngineNext ==
  \/ StartRoot \/ OpenDir \/ BreakOff \/ GiveUp \/ Ready
  \/ \E e \in entries : Skip(e) \/ LoadRule(e)

EngineSpec == EngineInit /\ [][EngineNext]_engine /\ WF_engine(EngineNext)

------------------------------------------------------------------------------
(* Properties *)

\* The rule files below some directories, each with its place.
Files(dirs) ==
  {f \in (DOMAIN dirs) \X Directories \X AllEntries :
     f[2] \in Below[dirs[f[1]]] /\ f[3] \in Contents[f[2]] /\ f[3].kind = "rule"}

\* Every rule file met is a rule or counted as failed.  load() told to fail on errors is not
\* ready with a rule missing; new() is, since load_directory() has no flag: there only a
\* directory can fail.
FilesAreCounted ==
  /\ Len(loaded.rules) + loaded.failed = seen
  /\ entry = "load" /\ fail_on_parse_error /\ outcome = "ready" => loaded.failed = 0
  /\ entry = "new" /\ outcome = "failed" => cut /\ fail_on_parse_error

\* And a walk that was not cut short, by an error or by the limit, has met them all: the
\* stack loses no directory.
AllFilesAccounted ==
  /\ FilesAreCounted
  /\ outcome = "ready" /\ ~cut => seen = Cardinality(Files(rule_dirs))
==============================================================================
