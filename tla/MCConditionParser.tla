--------------------------- MODULE MCConditionParser ---------------------------
(* Instances of ConditionParser for TLC.  The conditions explored are every    *)
(* sequence of at most three tokens, every one of four over fewer tokens, and  *)
(* the well-formed conditions of up to three operands, with a `not` before     *)
(* some of them, a group around two and groups within groups, each written     *)
(* with spaces between its words and none inside a parenthesis; and conditions *)
(* of up to three operands of which one, anywhere, is a word that does not     *)
(* split.                                                                      *)
EXTENDS ConditionGrammar

Lexeme(t) == Item(t, {})
Name == {<<Item("Identifier", {s})>> : s \in Selection}
Missing == {Item("Identifier", {}), Item("IdentifierWithWildcard", {})}
Both == Item("IdentifierWithWildcard", Selection)
Connective == {<<Lexeme("KeywordAnd")>>, <<Lexeme("KeywordOr")>>}
Not(X) == {<<Lexeme("KeywordNot")>> \o x : x \in X}
Join(X, Y) == {x \o c \o y : x \in X, c \in Connective, y \in Y}
Group(X) == {<<Lexeme("SepLpar")>> \o x \o <<Lexeme("SepRpar")>> : x \in X}

Simple == Name \cup {<<Lexeme("StmtAllOf"), Both>>}
Atom == Simple \cup Not(Simple)
Grouped == Group(Join(Atom, Atom)) \cup Not(Group(Join(Atom, Name)))
Nested == Group(Join(Name, Not(Group(Join(Name, Name))))) \cup Group(Group(Name))
WellFormed ==
  Atom \cup Grouped \cup Join(Atom, Atom) \cup Join(Join(Name, Atom), Atom)
  \cup Join(Name, Grouped) \cup Join(Grouped, Simple)
  \cup Nested \cup Join(Name, Nested) \cup Group(Nested)

Few == UNION {{x[i] : i \in DOMAIN x} : x \in Name \cup Connective}
       \cup {Lexeme(t) : t \in {"KeywordNot", "SepLpar", "SepRpar"}}
All == Few \cup Missing \cup {Both} \cup {Lexeme(t) : t \in Separator \cup {"SepPipe", "IdentifierAll", "KeywordAgg"}}
Short == UNION {[1..n -> All] : n \in 0..3} \cup [1..4 -> Few]

\* An operand before, behind and between others, and in a group.
Odd == {<<x>> : x \in {x \in Unsplittable : x.token = "Identifier"}}
       \cup {<<Lexeme("StmtOneOf"), x>> : x \in {x \in Unsplittable : x.token # "Identifier"}}
Multibyte ==
  Odd \cup Not(Odd) \cup Join(Odd, Name) \cup Join(Join(Name, Odd), Name)
  \cup Group(Join(Name, Odd)) \cup Join(Group(Join(Odd, Name)), Name) \cup {x \o y : x \in Odd, y \in Name \cup Odd}
  \cup {x \o <<Lexeme("SepPipe")>> \o y : x \in Odd, y \in Name}

\* The text of a sequence of tokens: each but the last with the space after it.
Spaced(x, y) == x.token # "SepLpar" /\ y.token # "SepRpar"
Written(x) ==
  FlattenSeq([i \in DOMAIN x |->
    IF i < Len(x) /\ Spaced(x[i], x[i + 1]) THEN <<x[i], Space>> ELSE <<x[i]>>])

MCTexts == {Written(x) : x \in Short \cup WellFormed \cup Multibyte}

\* The same without the space before a left parenthesis: "not(s1 and s2)".
MCGlued ==
  {<<Head(Written(x))>> \o SubSeq(Written(x), 3, Len(Written(x))) : x \in Not(Group(Join(Name, Name)))}
==============================================================================
