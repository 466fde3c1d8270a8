----------------------------- MODULE FieldMeaning -----------------------------
(***************************************************************************)
(* What an entry of a detection means, without matchers, globs, escapes    *)
(* and branches: the events that match it, and whether it can be built.    *)
(***************************************************************************)
EXTENDS FieldMatching

RECURSIVE Spread(_, _)
\* v is p with any texts in the places of its stars, any character in those of "?".
Spread(p, v) ==
  IF p = <<>> THEN v = <<>>
  ELSE IF Head(p) = "*" THEN \E k \in 0..Len(v) : Spread(Tail(p), SubSeq(v, k + 1, Len(v)))
  ELSE v # <<>> /\ Head(p) \in {"?", Head(v)} /\ Spread(Tail(p), Tail(v))

RECURSIVE Begins(_, _)
\* v begins with a text that the expression p describes: its first character, as often
\* as the operators behind it say, of which a star outdoes the others, then the rest.
Begins(p, v) ==
  LET Is(i) == i <= Len(p) /\ p[i] \in Operator
      Fits == v # <<>> /\ Head(p) \in {".", Head(v)}
      Rest == SubSeq(p, 3, Len(p))
  IN
  \/ p = <<>>
  \/ p # <<>> /\ ~Is(2) /\ Fits /\ Begins(Tail(p), Tail(v))
  \/ Is(2) /\ Is(3) /\ Begins(RemoveAt(p, IF p[2] = "*" THEN 3 ELSE 2), v)
  \/ Is(2) /\ ~Is(3) /\ (Begins(Rest, v) \/ (Fits /\ Begins(IF p[2] = "*" THEN p ELSE Rest, Tail(v))))
Describes(p, v) == \E i \in 0..Len(v) : Begins(p, SubSeq(v, i + 1, Len(v)))
NoExpression(p) == p = <<>> \/ p[1] \in {"*", "?"}

\* A text with a "?" and no star is met by itself only, as the factory of the matchers
\* has it (src/pattern/factory.rs:78); a comment of the tree builder
\* (src/tree/builder.rs:531-532) and a test (tests/modifier_tests.rs:163) count it
\* among the globs.
TextMeans(modifier, p, value) ==
  LET v == HandleWhitespace(value, no_collapse_ws) IN
  CASE modifier = "Regex" -> Describes(p, value)
    [] modifier = "Prefix" -> \E j \in 0..Len(v) : SubSeq(v, 1, j) = p
    [] modifier = "Suffix" -> \E i \in 0..Len(v) : SubSeq(v, i + 1, Len(v)) = p
    [] modifier # "Contains" /\ Slashed(p) -> Describes(Inner(p), value)
    [] modifier \in {"Contains", "Keyword"} ->
         \E i, j \in 0..Len(v) : i <= j /\ Spread(p, SubSeq(v, i + 1, j))
    [] OTHER -> IF "*" \in Range(p) THEN Spread(p, v) ELSE v = p

\* A text that the modifier cannot take: no expression, or two stars in a row.
StarsTouch(p) == \E i \in 1..Len(p) - 1 : p[i] = "*" /\ p[i + 1] = "*"
BadText(modifier, p) ==
  CASE modifier = "Regex" -> NoExpression(p)
    [] modifier \in {"Prefix", "Suffix"} -> FALSE
    [] modifier # "Contains" /\ Slashed(p) -> NoExpression(Inner(p))
    [] modifier \in {"Contains", "Keyword"} -> p # <<>> /\ StarsTouch(<<"*">> \o p \o <<"*">>)
    [] OTHER -> p # <<"*", "*">> /\ StarsTouch(p)

Listed(value) == IF value.kind = "array" THEN Range(value.items) ELSE {}
Uniform(field, value) ==
  "all" \in Range(field.modifiers) /\ Listed(value) # {}
  /\ \A v \in Listed(value) : v.kind = "string"
Modifier(field) == ParseFieldModifier(field.modifiers).modifier

\* What the parser rejects: a list under `all` for one bad text, another list or
\* an object only when nothing of it is left.
RECURSIVE Rejected(_, _)
Rejected(field, value) ==
  CASE value.kind = "string" ->
         BadText(Modifier(field), ProcessStringValue(value.text, no_collapse_ws))
    [] value.kind = "array" ->
         IF Uniform(field, value) THEN \E v \in Listed(value) : Rejected(field, v)
         ELSE \A v \in Listed(value) : v.kind # "null" /\ (v.kind = "array" \/ Rejected(field, v))
    [] value.kind = "object" -> \A x \in Range(value.entries) : Rejected(x.field, x.value)
    [] OTHER -> value.kind = "null"

RECURSIVE Means(_, _, _)
Means(field, value, e) ==
  LET v == Select(e, field.name) IN
  CASE value.kind = "string" ->
         /\ v # Absent
         /\ TextMeans(Modifier(field), ProcessStringValue(value.text, no_collapse_ws),
                      CoerceForStringMatch(v))
    [] value.kind = "number" -> v # Absent /\ value.int = ToIntMatch(v)
    [] value.kind = "array" ->
         IF Uniform(field, value) THEN \A x \in Listed(value) : Means(field, x, e)
         ELSE \E x \in Listed(value) :
                (x.kind = "null" \/ ~Rejected(field, x)) /\ Means(field, x, e)
    [] value.kind = "object" ->
         \A x \in Range(value.entries) : Rejected(x.field, x.value) \/ Means(x.field, x.value, e)
    [] OTHER -> v # Absent /\ CoerceForStringMatch(v) = value.text

\* The tree builder takes no list of values, and nothing is left out.
FieldRejected(x) ==
  \/ x.value.kind \in {"array", "object"}
  \/ x.value.kind = "string" /\ BadText(ParseFieldKey(x.field.modifiers), x.value.text)
FieldMeans(x, e) ==
  LET v == Select(e, x.field.name) IN
  /\ v # Absent
  /\ CASE x.value.kind = "string" ->
            TextMeans(ParseFieldKey(x.field.modifiers), x.value.text, CoerceForStringMatch(v))
       [] x.value.kind = "number" -> x.value.int = ToIntMatch(v)
       [] x.value.kind = "null" -> CoerceForStringMatch(v) = <<"null">>
       [] OTHER -> CoerceForStringMatch(v) = x.value.text
Words(value) == {v.text : v \in {v \in Listed(value) : v.kind = "string"}}

TreeRejected(value) ==
  CASE value.kind = "array" -> Words(value) = {}
    [] value.kind = "object" ->
         value.entries = <<>> \/ \E x \in Range(value.entries) : FieldRejected(x)
    [] OTHER -> TRUE
TreeMeans(value, e) ==
  IF value.kind = "array" THEN KeywordsApply(e) /\ Words(value) \subseteq Keywords(e)
  ELSE \A x \in Range(value.entries) : FieldMeans(x, e)

------------------------------------------------------------------------------
(* Properties *)

\* Values that both sides write the same: an integer, or a text that needs no
\* escape; that of a number with a fraction loses it on the event's side.
RECURSIVE Regular(_)
Regular(value) ==
  CASE value.kind = "number" -> value.exact
    [] value.kind = "string" -> Range(value.text) \cap (Bracket \cup {"\\"}) = {}
    [] value.kind = "array" -> \A v \in Range(value.items) : Regular(v)
    [] value.kind = "object" -> \A x \in Range(value.entries) : Regular(x.value)
    [] OTHER -> TRUE

\* The branch of an entry matches the events that the entry means, through globs,
\* coercion, the two ways to a list and the reductions; what cannot be built is
\* left out of a list and, alike, of an object, which then matches more.
MeansItsEntry ==
  state = "built" /\ Regular(entry.value) =>
    IF builder = "parser"
    THEN IF Rejected(entry.field, entry.value) THEN branch = Failed
         ELSE branch # Failed /\
              \A e \in Events : branch[e].matched <=> Means(entry.field, entry.value, e)
    ELSE ~no_collapse_ws =>
         IF TreeRejected(entry.value) THEN branch = Failed
         ELSE branch # Failed /\
              \A e \in Events : branch[e].matched <=> TreeMeans(entry.value, e)
==============================================================================
