---------------------------- MODULE FieldMatching ----------------------------
(***************************************************************************)
(* From an entry of a detection to what it answers to an event: the field  *)
(* rules of the parser (src/parser/mod.rs) and of the tree builder         *)
(* (src/tree/builder.rs), the matchers behind them (src/pattern), the      *)
(* coercion of an event's values and the selection of its fields           *)
(* (src/ast/mod.rs, src/event.rs).                                         *)
(*                                                                         *)
(* A text is a sequence of characters, few of which are told apart; a      *)
(* number or a Boolean is written as one character.  A branch is the       *)
(* function of its answers to every event, as in ConditionParser.          *)
(***************************************************************************)
EXTENDS MatchTree, SigmaEscape, SequencesExt

CONSTANTS
  Entries,   \* [field, value] of the detections explored
  Events     \* [nested, data] of the events they are asked about

VARIABLES
  builder,          \* who builds the branch: "parser" or "tree"
  no_collapse_ws,   \* of the rule's handle
  state,            \* "build" or "built"
  branch            \* what was built, or Failed

vars == <<builder, no_collapse_ws, entry, state, branch>>

Failed == <<>>

\* serde_json::Value.  A number is written `text`, and without its fraction `whole`;
\* `int` holds the i64 it is truncated to, if it fits, and it is `exact` if it is one.
Str(s) == [kind |-> "string", text |-> s]
Number(text, whole, int, exact) ==
  [kind |-> "number", text |-> text, whole |-> whole, int |-> int, exact |-> exact]
Bool(b) == [kind |-> "bool", text |-> <<b>>]
Null == [kind |-> "null", text |-> <<>>]
Array(items) == [kind |-> "array", items |-> items]
Object(entries) == [kind |-> "object", entries |-> entries]
Absent == [kind |-> "absent"]

Field(name, modifiers) == [name |-> name, modifiers |-> modifiers]

------------------------------------------------------------------------------
(* Text: white space and globs *)

Blank == {" ", "tab"}
Collapse(s) ==
  LET Join(r, c) == IF c \notin Blank THEN Append(r, c)
                    ELSE IF r # <<>> /\ Last(r) = " " THEN r ELSE Append(r, " ")
  IN FoldLeft(Join, <<>>, s)

\* The value of an event, by a matcher that is no regular expression.
HandleWhitespace(s, no_collapse) == IF no_collapse THEN s ELSE Collapse(s)

\* The value of a rule: its words, with a space between two.
ProcessStringValue(s, no_collapse) ==
  LET spelled == Collapse(s)
      Inked == {i \in DOMAIN spelled : spelled[i] # " "}
  IN IF no_collapse THEN s
     ELSE IF Inked = {} THEN <<>> ELSE SubSeq(spelled, Min(Inked), Max(Inked))

\* glob::Pattern: a star fits any text, two only if they are the whole pattern
\* (there are no path separators here), a bracket opens a class up to the first
\* closing one behind its first member; nothing is escaped.
Many == [kind |-> "many", of |-> {}]
One == [kind |-> "one", of |-> {}]
In(S) == [kind |-> "in", of |-> S]
BadToken == [kind |-> "bad", of |-> {}]

RECURSIVE GlobTokens(_)
GlobTokens(p) ==
  LET Closing == {j \in 3..Len(p) : p[j] = "]"}
      After(j) == GlobTokens(SubSeq(p, j + 1, Len(p)))
  IN
  CASE p = <<>> -> <<>>
    [] p # <<>> /\ Head(p) = "*" ->
         <<IF Len(p) > 1 /\ p[2] = "*" THEN BadToken ELSE Many>> \o After(1)
    [] p # <<>> /\ Head(p) = "?" -> <<One>> \o After(1)
    [] p # <<>> /\ Head(p) = "[" ->
         IF Closing = {} THEN <<BadToken>>
         ELSE <<In(Range(SubSeq(p, 2, Min(Closing) - 1)))>> \o After(Min(Closing))
    [] OTHER -> <<In({Head(p)})>> \o After(1)

Glob(p) == IF p = <<"*", "*">> THEN <<Many>> ELSE GlobTokens(p)
GlobFails(p) == BadToken \in Range(Glob(p))

\* From the places in v where the tokens before may end, to those of the next.
GlobMatches(p, v) ==
  LET Step(Ends, k) ==
        IF k = Many THEN {j \in 0..Len(v) : \E i \in Ends : i <= j}
        ELSE {i + 1 : i \in {i \in Ends : i < Len(v) /\ (k = One \/ v[i + 1] \in k.of)}}
  IN Len(v) \in FoldLeft(Step, {0}, Glob(p))

\* regex::Regex, of the expressions without groups, classes, anchors and escapes, none
\* of which safe_regex_compile() finds dangerous: characters, of which a dot fits any,
\* and after each of them any operators.  A lazy one fits the same texts.
Operator == {"*", "?"}
RegexTokens(p) ==
  LET Add(r, c) == CASE c = "*" -> [r EXCEPT ![Len(r)].optional = TRUE, ![Len(r)].repeats = TRUE]
                     [] c = "?" -> [r EXCEPT ![Len(r)].optional = TRUE]
                     [] OTHER -> Append(r, [of |-> c, optional |-> FALSE, repeats |-> FALSE])
  IN FoldLeft(Add, <<>>, p)

\* An empty expression, or an operator with nothing before it.
RegexFails(p) == p = <<>> \/ Head(p) \in Operator

\* is_match(): from any place in v on, as in GlobMatches, and to any.
RegexMatches(p, v) ==
  LET Times(k) == (IF k.optional THEN 0 ELSE 1) .. (IF k.repeats THEN Len(v) ELSE 1)
      Step(Ends, k) ==
        {j \in 0..Len(v) : \E i \in Ends : j - i \in Times(k) /\ \A n \in i + 1 .. j : k.of \in {".", v[n]}}
  IN FoldLeft(Step, 0..Len(v), RegexTokens(p)) # {}

------------------------------------------------------------------------------
(* The matchers of a pattern *)

Matcher(kind, token) == [kind |-> kind, token |-> token]
Invalid == Matcher("invalid", <<>>)
RegexPattern(p) == IF RegexFails(p) THEN Invalid ELSE Matcher("regex", p)
GlobPattern(p) == IF GlobFails(p) THEN Invalid ELSE Matcher("glob", p)
ContainsPattern(p) == GlobPattern(<<"*">> \o EscapeSigma(p) \o <<"*">>)

Slashed(p) == Len(p) > 2 /\ Head(p) = "/" /\ Last(p) = "/"
Inner(p) == SubSeq(p, 2, Len(p) - 1)

NewMatcher(modifier, p) ==
  CASE modifier = "Regex" -> RegexPattern(p)
    [] modifier = "Contains" -> ContainsPattern(p)
    [] modifier = "Suffix" -> Matcher("suffix", p)
    [] modifier = "Prefix" -> Matcher("prefix", p)
    [] OTHER ->
         IF Slashed(p) THEN RegexPattern(Inner(p))
         ELSE IF modifier = "Keyword" THEN ContainsPattern(p)
         ELSE IF "*" \in Range(p) THEN GlobPattern(EscapeSigma(p))
         ELSE Matcher("content", p)

NoMatcher == [all |-> FALSE, of |-> <<>>]

\* One pattern that cannot be compiled fails them all.
NewStringMatcher(modifier, all, patterns) ==
  LET matchers == [i \in DOMAIN patterns |-> NewMatcher(modifier, patterns[i])]
  IN IF Invalid \in Range(matchers) THEN NoMatcher ELSE [all |-> all, of |-> matchers]

\* Nobody in src asks for `lowercase`, so that the comparisons mind the case.
MatcherFits(m, value, no_collapse) ==
  LET v == HandleWhitespace(value, no_collapse) IN
  CASE m.kind = "content" -> v = m.token
    [] m.kind = "prefix" -> IsPrefix(m.token, v)
    [] m.kind = "suffix" -> IsSuffix(m.token, v)
    [] m.kind = "glob" -> GlobMatches(m.token, v)
    [] m.kind = "regex" -> RegexMatches(m.token, value)

StringMatch(matcher, value, no_collapse) ==
  IF matcher.all THEN \A i \in DOMAIN matcher.of : MatcherFits(matcher.of[i], value, no_collapse)
  ELSE \E i \in DOMAIN matcher.of : MatcherFits(matcher.of[i], value, no_collapse)

------------------------------------------------------------------------------
(* The event: its fields, and a value as a text or as an integer *)

\* A SimpleEvent has its fields by their whole names, a DynamicEvent finds a value
\* along the parts of a name; of an object or a list the text says nothing here.
Lookup(value, key) ==
  IF value.kind = "object" /\ key \in DOMAIN value.fields THEN value.fields[key] ELSE Absent

Select(e, name) ==
  IF ~e.nested THEN Lookup(e.data, name)
  ELSE IF name = <<>> \/ "" \in Range(name) THEN Absent
  ELSE FoldLeft(Lookup, e.data, name)

\* The strings of a SimpleEvent; the message, or else the alert's signature.
Keywords(e) ==
  LET Strings(V) == {v.text : v \in {v \in V : v.kind = "string"}}
      message == Strings({Select(e, <<"message">>)})
  IN IF ~e.nested THEN Strings(Range(e.data.fields))
     ELSE IF message # {} THEN message ELSE Strings({Select(e, <<"alert", "signature">>)})
KeywordsApply(e) == ~e.nested \/ Keywords(e) # {}

CoerceForStringMatch(v) ==
  CASE v.kind = "number" -> IF v.exact THEN v.text ELSE v.whole
    [] v.kind = "null" -> <<"null">>
    [] v.kind \in {"string", "bool"} -> v.text
    [] OTHER -> <<"opaque">>

ToIntMatch(v) ==
  CASE v.kind = "number" -> v.int
    [] v.kind = "string" /\ v.text = <<"1">> -> {1}
    [] OTHER -> {}

StringRule(name, modifier, all, patterns, no_collapse) ==
  LET matcher == NewStringMatcher(modifier, all, patterns) IN
  IF matcher = NoMatcher THEN Failed
  ELSE [e \in Events |->
         LET v == Select(e, name) IN
         IF v = Absent THEN NotApplicable
         ELSE Answer(StringMatch(matcher, CoerceForStringMatch(v), no_collapse), TRUE)]

NumericRule(name, n) ==
  [e \in Events |->
    LET v == Select(e, name) IN
    IF v = Absent THEN NotApplicable ELSE Answer(n \in ToIntMatch(v), TRUE)]

KeywordRule(keywords) ==
  [e \in Events |-> IF KeywordsApply(e) THEN Answer(keywords \subseteq Keywords(e), TRUE)
                    ELSE NotApplicable]

------------------------------------------------------------------------------
(* The parser's field rules *)

\* Every modifier that is known, of which the last counts; others are ignored.
ModifierOf ==
  [contains |-> "Contains", prefix |-> "Prefix", startswith |-> "Prefix", suffix |-> "Suffix",
   endswith |-> "Suffix", re |-> "Regex", regex |-> "Regex", keyword |-> "Keyword"]
ParseFieldModifier(modifiers) ==
  LET known == SelectSeq(modifiers, LAMBDA m : m \in DOMAIN ModifierOf)
  IN [modifier |-> IF known = <<>> THEN "None" ELSE ModifierOf[Last(known)],
      all |-> "all" \in Range(modifiers)]

Valid(branches) == SelectSeq(branches, LAMBDA b : b # Failed)
AllOf(branches) == [e \in Events |-> ReduceAnd([i \in DOMAIN branches |-> branches[i][e]])]
AnyOf(branches) == [e \in Events |-> ReduceOr([i \in DOMAIN branches |-> branches[i][e]])]

\* One value that is neither a list nor an object.  Only a string is matched by the
\* modifier, and an integer by its number.
ScalarRule(field, value, no_collapse) ==
  LET parsed == ParseFieldModifier(field.modifiers)
      TextRule(modifier, s) == StringRule(field.name, modifier, parsed.all, <<s>>, no_collapse)
  IN
  CASE value.kind = "string" ->
         TextRule(parsed.modifier, ProcessStringValue(value.text, no_collapse))
    [] value.kind = "number" /\ value.exact -> NumericRule(field.name, Min(value.int))
    [] OTHER -> TextRule("None", value.text)

\* A list of strings under `all` is one matcher; in every other list each value
\* has its own branch, those that fail are left out, and one of the rest must match.
RECURSIVE CreateRule(_, _, _)
ArrayRule(field, items, no_collapse) ==
  LET parsed == ParseFieldModifier(field.modifiers)
      Element(v) == CASE v.kind = "array" -> Failed
                      [] v.kind = "object" -> CreateRule(field, v, no_collapse)
                      [] OTHER -> ScalarRule(field, v, no_collapse)
      branches == Valid([i \in DOMAIN items |-> Element(items[i])])
  IN
  IF parsed.all /\ items # <<>> /\ \A i \in DOMAIN items : items[i].kind = "string"
  THEN StringRule(field.name, parsed.modifier, TRUE,
                  [i \in DOMAIN items |-> ProcessStringValue(items[i].text, no_collapse)],
                  no_collapse)
  ELSE IF branches = <<>> THEN Failed ELSE AnyOf(branches)

\* Mutant of ComplexRule: an entry that fails fails them all.
StrictRule(entries, no_collapse) ==
  LET branches == [i \in DOMAIN entries |->
                    CreateRule(entries[i].field, entries[i].value, no_collapse)]
  IN IF branches = <<>> \/ Failed \in Range(branches) THEN Failed ELSE AllOf(branches)

\* Of an object all entries must match, except those that fail.
ComplexRule(entries, no_collapse) ==
  LET branches == Valid([i \in DOMAIN entries |->
                          CreateRule(entries[i].field, entries[i].value, no_collapse)])
  IN IF branches = <<>> THEN Failed ELSE AllOf(branches)

\* create_rule_from_ident()
CreateRule(field, value, no_collapse) ==
  CASE value.kind = "array" -> ArrayRule(field, value.items, no_collapse)
    [] value.kind = "object" -> ComplexRule(value.entries, no_collapse)
    [] value.kind = "null" -> Failed
    [] OTHER -> ScalarRule(field, value, no_collapse)

------------------------------------------------------------------------------
(* The tree builder's *)

\* What follows the first bar must be one modifier.
ParseFieldKey(modifiers) ==
  LET Known == [contains |-> "Contains", startswith |-> "Prefix", endswith |-> "Suffix",
                re |-> "Regex", all |-> "All"]
  IN IF Len(modifiers) = 1 /\ modifiers[1] \in DOMAIN Known THEN Known[modifiers[1]] ELSE "None"

FieldPattern(field, value) ==
  LET TextRule(modifier, s) == StringRule(field.name, modifier, FALSE, <<s>>, FALSE) IN
  CASE value.kind = "string" -> TextRule(ParseFieldKey(field.modifiers), value.text)
    [] value.kind = "number" /\ value.exact -> NumericRule(field.name, Min(value.int))
    [] value.kind = "null" -> TextRule("None", <<"null">>)
    [] value.kind \in {"number", "bool"} -> TextRule("None", value.text)
    [] OTHER -> Failed

\* build_rule_from_ident(): a list holds keywords, an object fields, none of which
\* may fail.
BuildRule(value) ==
  LET keywords == {v.text : v \in {v \in Range(value.items) : v.kind = "string"}}
      fields == [i \in DOMAIN value.entries |->
                  FieldPattern(value.entries[i].field, value.entries[i].value)]
  IN
  CASE value.kind = "array" -> IF keywords = {} THEN Failed ELSE KeywordRule(keywords)
    [] value.kind = "object" ->
         IF fields = <<>> \/ Failed \in Range(fields) THEN Failed ELSE AllOf(fields)
    [] OTHER -> Failed

------------------------------------------------------------------------------

Init ==
  /\ builder \in {"parser", "tree"} /\ no_collapse_ws \in BOOLEAN
  /\ entry \in Entries
  /\ state = "build" /\ branch = Failed

Build ==
  /\ state = "build"
  /\ branch' = IF builder = "parser" THEN CreateRule(entry.field, entry.value, no_collapse_ws)
               ELSE BuildRule(entry.value)
  /\ state' = "built"
  /\ UNCHANGED <<builder, no_collapse_ws, entry>>

Next == Build
Spec == Init /\ [][Next]_vars
==============================================================================
