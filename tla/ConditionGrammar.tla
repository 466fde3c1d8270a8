---------------------------- MODULE ConditionGrammar ----------------------------
(***************************************************************************)
(* What a condition means, by its grammar and without a parser: `or` of    *)
(* `and` of operands, an operand perhaps with a `not` before it, being an  *)
(* entry of the detection, a quantified one, or a group.  The meaning is   *)
(* the set of events that match; a text with no meaning is not well        *)
(* formed.  The part <<i, j>> of a text s is its tokens i + 1 to j.        *)
(***************************************************************************)
EXTENDS ConditionParser

Holds(entry) == {e \in Event : e[entry].matched}
Quantified(all, entries) ==
  {e \in Event : IF all THEN \A s \in entries : e[s].matched
                        ELSE \E s \in entries : e[s].matched}

Parts(s) == {p \in (0..Len(s)) \X (0..Len(s)) : p[1] <= p[2]}
Places(s, i, j, token) == {k \in (i + 1)..j : s[k].token = token}

\* The meanings of a part as an operand, when g has those of the shorter parts.
Operands(s, g, i, j) ==
  LET first == s[i + 1]
      last == s[j]
  IN
  CASE j = i + 1 -> IF first.token = "Identifier" THEN {Holds(entry) : entry \in first.value} ELSE {}
    [] j # i + 1 /\ first.token = "KeywordNot" ->
         IF s[i + 2].token = "KeywordNot" THEN {} ELSE {Event \ m : m \in g[<<i + 1, j>>].operand}
    [] j # i + 1 /\ first.token = "SepLpar" ->
         IF last.token = "SepRpar" THEN g[<<i + 1, j - 1>>].expression ELSE {}
    [] j = i + 2 /\ first.token \in Quantifier ->
         IF last.token = "Identifier" THEN {Holds(entry) : entry \in last.value}
         ELSE IF last.token \in Operand /\ Named(last) # {}
              THEN {Quantified(first.token = "StmtAllOf", Named(last))} ELSE {}
    [] OTHER -> {}

Meaning(s, g, i, j) ==
  LET operand == Operands(s, g, i, j)
      term == operand \cup UNION {{m \cap n : m \in g[<<i, k - 1>>].term, n \in g[<<k, j>>].operand}
                                  : k \in Places(s, i, j, "KeywordAnd")}
      expression == term \cup UNION {{m \cup n : m \in g[<<i, k - 1>>].expression, n \in g[<<k, j>>].term}
                                     : k \in Places(s, i, j, "KeywordOr")}
  IN [operand |-> operand, term |-> term, expression |-> expression]

\* The meanings of all parts, the longer from the shorter.
Grammar(s) ==
  LET UpTo[n \in 0..Len(s)] ==
        IF n = 0 THEN [p \in Parts(s) |-> [operand |-> {}, term |-> {}, expression |-> {}]]
        ELSE [p \in Parts(s) |-> IF p[2] - p[1] = n THEN Meaning(s, UpTo[n - 1], p[1], p[2])
                                 ELSE UpTo[n - 1][p]]
  IN UpTo

MeaningsOf(s) == Grammar(s)[Len(s)][<<0, Len(s)>>].expression
Meanings == MeaningsOf(Text)

------------------------------------------------------------------------------
(* Properties *)

\* The lexer keeps a word apart from what follows it only if a space, a right parenthesis or
\* the end does.
WordsApart(t) ==
  \A i \in 2..Len(t) : t[i - 1] \in Word => t[i].token \notin {"SepLpar"} \cup Quantifier

\* An event that has every field, so that the answers are those of logic.
Complete(e) == \A s \in Selection : e[s].applicable
NegationFree(s) == \A i \in DOMAIN s : s[i].token # "KeywordNot"

\* The tree matches the events that the condition means, through the lexer, the
\* channel, the recursion over groups, the pending `not` and quantifier and the
\* reductions; and without a `not` also those that lack some fields, in whatever
\* order a HashMap gave the entries.
MeansTheCondition ==
  phase = "ok" /\ WordsApart(condition) =>
    \A m \in Meanings : \A e \in Event :
      Complete(e) \/ NegationFree(Text) => (result[e].matched <=> e \in m)

\* The parentheses open after the first n tokens.
Height(s, n) ==
  Cardinality({i \in 1..n : s[i].token = "SepLpar"}) - Cardinality({i \in 1..n : s[i].token = "SepRpar"})

WithinLimits(s) == Len(s) <= MaxTokens /\ \A n \in DOMAIN s : Height(s, n) <= MaxDepth

\* A text that the parser rejects, other than for a lexer that was cut short, has
\* no meaning, or is too long or too deep: the checks on neighbouring tokens
\* exclude no good condition.  Only a word that check_keyword() cannot split does,
\* by its panic.
OnlyBadRejected ==
  phase = "err" /\ lex_state # "timeout" /\ WordsApart(condition) =>
    \/ Meanings = {} \/ ~WithinLimits(Text)
    \/ lex_state = "panicked" /\ \E i \in DOMAIN condition : ~condition[i].splits
==============================================================================
