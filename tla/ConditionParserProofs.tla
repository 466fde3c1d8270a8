------------------------- MODULE ConditionParserProofs -------------------------
(***************************************************************************)
(* What TLAPS proves of ConditionParser, for any conditions over any       *)
(* detection, any buffer of the channel and any limits: its types, with    *)
(* the depth of the calls; that the tree's matches apply; and that the     *)
(* tree means what the grammar says of the condition, and nothing with a   *)
(* meaning is rejected.  First come the laws of the match tree's answers,  *)
(* for any number of branches.                                             *)
(***************************************************************************)
EXTENDS ConditionGrammar, FiniteSetTheorems, SequenceTheorems, WellFoundedInduction, TLAPS

\* The answers in which a match applies: all that a tree gives.
Sane == {r \in MatchResult : r.matched => r.applicable}

------------------------------------------------------------------------------
LEMMA MinIsThere ==
  ASSUME NEW S, S \subseteq Nat, S # {}
  PROVE  Min(S) \in S /\ \A x \in S : Min(S) <= x
<1> DEFINE Less == {p \in Nat \X Nat : p[1] < p[2]}
<1>1. IsWellFoundedOn(Less, Nat)
  BY NatLessThanWellFounded DEF OpToRel
<1>2. \E x \in S : \A y \in S : ~ (<<y, x>> \in Less)
  <2> HIDE DEF Less
  <2> QED BY <1>1, WFMin
<1>3. PICK x \in S : \A y \in S : x <= y
  <2>1. PICK x \in S : \A y \in S : ~ (<<y, x>> \in Less)
    BY <1>2
  <2>2. ASSUME NEW y \in S PROVE x <= y
    <3>1. <<y, x>> \in Nat \X Nat /\ <<y, x>>[1] = y /\ <<y, x>>[2] = x
      OBVIOUS
    <3>2. ~ (y < x)
      BY <2>1, <3>1
    <3> QED
      BY <3>2
  <2> QED
    BY <2>2
<1>4. \A y \in S : Min(S) <= y
  BY <1>3, Zenon DEF Min
<1>5. Min(S) \in S
  BY <1>3, Zenon DEF Min
<1> QED
  BY <1>4, <1>5

LEMMA SaneMatch ==
  ASSUME NEW r \in Sane, r.matched
  PROVE  r = Matched
BY DEF Matched, Answer, Sane, MatchResult

LEMMA NodesAnswer ==
  ASSUME NEW l \in Sane, NEW r \in Sane
  PROVE  NodeAnd(l, r) \in Sane /\ NodeOr(l, r) \in Sane /\ NodeNot(l) \in Sane
BY DEF NodeAnd, NodeOr, NodeNot, Answer, Sane, MatchResult

\* NodeSimpleAnd answers as the first branch that does not match, if there is one.
LEMMA SimpleAndCases ==
  ASSUME NEW s \in Seq(Sane)
  PROVE  \/ /\ \A i \in DOMAIN s : s[i].matched
            /\ NodeSimpleAnd(s) = Matched
         \/ \E i \in DOMAIN s : /\ ~s[i].matched
                                /\ \A j \in 1..(i - 1) : s[j].matched
                                /\ NodeSimpleAnd(s) = s[i]
<1> DEFINE Stops == {i \in DOMAIN s : ~s[i].matched \/ ~s[i].applicable}
<1>1. \A i \in DOMAIN s : s[i] \in Sane
  OBVIOUS
<1>2. NodeSimpleAnd(s) = IF Stops = {} THEN Matched ELSE s[Min(Stops)]
  BY DEF NodeSimpleAnd
<1>3. Stops = {i \in DOMAIN s : ~s[i].matched}
  BY <1>1 DEF Sane
<1>4. Stops \subseteq Nat /\ DOMAIN s = 1..Len(s) /\ Len(s) \in Nat
  OBVIOUS
<1> HIDE DEF Stops
<1>5. CASE Stops = {}
  BY <1>2, <1>3, <1>5
<1>6. CASE Stops # {}
  <2>1. Min(Stops) \in Stops /\ \A x \in Stops : Min(Stops) <= x
    BY <1>4, <1>6, MinIsThere
  <2>2. \A j \in 1..(Min(Stops) - 1) : j \in DOMAIN s /\ j \notin Stops
    BY <2>1, <1>3, <1>4
  <2> QED
    BY <2>1, <2>2, <1>2, <1>3, <1>6
<1> QED
  BY <1>5, <1>6

LEMMA SimpleAndAnswers ==
  ASSUME NEW s \in Seq(Sane)
  PROVE  NodeSimpleAnd(s) \in Sane
<1>1. \A i \in DOMAIN s : s[i] \in Sane
  OBVIOUS
<1>2. Matched \in Sane
  BY DEF Matched, Answer, Sane, MatchResult
<1> QED
  BY <1>1, <1>2, SimpleAndCases

LEMMA SimpleOrAnswers ==
  ASSUME NEW s \in Seq(Sane)
  PROVE  NodeSimpleOr(s) \in Sane
BY DEF NodeSimpleOr, Matched, Answer, Sane, MatchResult

------------------------------------------------------------------------------
\* reduce() changes no answer: the node without a list that it makes of two AND
\* branches, and the branch that it makes of one, answer as the list would.
THEOREM ReduceAndChangesNothing ==
  ASSUME NEW s \in Seq(Sane), s # <<>>
  PROVE  ReduceAnd(s) = NodeSimpleAnd(s)
<1>1. \A i \in DOMAIN s : s[i] \in Sane
  OBVIOUS
<1>2. CASE Len(s) = 1
  <2>1. s[1] \in Sane /\ DOMAIN s = {1}
    BY <1>1, <1>2
  <2>2. NodeSimpleAnd(s) = IF s[1].matched THEN Matched ELSE s[1]
    BY <2>1, SimpleAndCases
  <2> QED
    BY <1>2, <2>1, <2>2, SaneMatch DEF ReduceAnd
<1>3. CASE Len(s) = 2
  <2>1. s[1] \in Sane /\ s[2] \in Sane /\ DOMAIN s = {1, 2}
    BY <1>1, <1>3
  <2>2. ReduceAnd(s) = NodeAnd(s[1], s[2])
    BY <1>3 DEF ReduceAnd
  <2>3. CASE ~s[1].matched
    <3>1. NodeSimpleAnd(s) = s[1]
      BY <2>1, <2>3, SimpleAndCases
    <3> QED
      BY <3>1, <2>1, <2>2, <2>3 DEF NodeAnd, Answer, Sane, MatchResult
  <2>4. CASE s[1].matched
    <3>1. NodeSimpleAnd(s) = IF s[2].matched THEN Matched ELSE s[2]
      BY <2>1, <2>4, SimpleAndCases
    <3> QED
      <4>1. NodeAnd(s[1], s[2]) = s[2]
        BY <2>1, <2>4 DEF NodeAnd, Answer, Sane, MatchResult
      <4> QED
        BY <3>1, <4>1, <2>1, <2>2, SaneMatch
  <2> QED
    BY <2>1, <2>3, <2>4 DEF Sane, MatchResult
<1>4. CASE Len(s) # 1 /\ Len(s) # 2
  BY <1>4 DEF ReduceAnd
<1> QED
  BY <1>2, <1>3, <1>4

\* The same of OR branches.
THEOREM ReduceOrChangesNothing ==
  ASSUME NEW s \in Seq(Sane), s # <<>>
  PROVE  ReduceOr(s) = NodeSimpleOr(s)
<1>1. \A i \in DOMAIN s : s[i] \in Sane
  OBVIOUS
<1>2. CASE Len(s) = 1
  BY <1>1, <1>2 DEF ReduceOr, NodeSimpleOr, Matched, Answer, Sane, MatchResult
<1>3. CASE Len(s) = 2
  <2>1. s[1] \in Sane /\ s[2] \in Sane /\ DOMAIN s = {1, 2}
    BY <1>1, <1>3
  <2> QED
    BY <1>3, <2>1 DEF ReduceOr, NodeOr, NodeSimpleOr, Matched, Answer, Sane, MatchResult
<1>4. CASE Len(s) # 1 /\ Len(s) # 2
  BY <1>4 DEF ReduceOr
<1> QED
  BY <1>2, <1>3, <1>4

\* Whether an AND or an OR of branches matches does not depend on their order,
\* nor on how often each comes: an AND matches when all of them do, an OR when
\* one does.  Nothing of the kind holds of `applicable` for an AND.
THEOREM MatchIsOrderFree ==
  ASSUME NEW s \in Seq(Sane)
  PROVE  /\ NodeSimpleAnd(s).matched <=> \A i \in DOMAIN s : s[i].matched
         /\ NodeSimpleOr(s).matched <=> \E i \in DOMAIN s : s[i].matched
<1>1. NodeSimpleAnd(s).matched <=> \A i \in DOMAIN s : s[i].matched
  BY SimpleAndCases DEF Matched, Answer
<1>2. NodeSimpleOr(s).matched <=> \E i \in DOMAIN s : s[i].matched
  BY DEF NodeSimpleOr, Matched, Answer
<1> QED
  BY <1>1, <1>2

\* Of an OR the whole answer is independent of the order: two lists with the same
\* branches answer alike.
THEOREM OrIsOrderFree ==
  ASSUME NEW s \in Seq(Sane), NEW t \in Seq(Sane),
         {s[i] : i \in DOMAIN s} = {t[i] : i \in DOMAIN t}
  PROVE  NodeSimpleOr(s) = NodeSimpleOr(t)
<1>1. (\E i \in DOMAIN s : s[i].matched) <=> (\E i \in DOMAIN t : t[i].matched)
  OBVIOUS
<1>2. (\E i \in DOMAIN s : s[i].applicable) <=> (\E i \in DOMAIN t : t[i].applicable)
  OBVIOUS
<1> QED
  BY <1>1, <1>2, Zenon DEF NodeSimpleOr

------------------------------------------------------------------------------
(* The parser *)

NoTwoWords(t) == \A i \in 2..Len(t) : ~(t[i - 1] \in Word /\ t[i] \in Word)

LexerInv ==
  /\ condition \in Seq(Symbol) /\ unread \in Seq(Symbol) /\ text \in Seq(Word)
  /\ lex_state \in LexStates
  /\ channel \in Seq(Tokens)
  /\ NoTwoWords(unread)

\* The trees whose matches apply, and the frames that hold only such trees.
SaneTree == [Event -> Sane]
SaneFrame == [and : Seq(SaneTree), or : Seq(SaneTree),
              negated : BOOLEAN, wildcard : Quantifier \cup {"None"}]

ParserInv ==
  /\ phase \in {"collect", "parse", "ok", "err"}
  /\ tokens \in Seq(Tokens)
  /\ stack \in Seq(SaneFrame)
  /\ phase = "ok" => result \in SaneTree

\* The calls in progress, and those that the tokens left will add, keep within the
\* limit that validate_parentheses() checked before the first of them.
NestInv ==
  phase = "parse" =>
    /\ stack # <<>>
    /\ \A n \in 0..Len(tokens) : Len(stack) - 1 + Depth(n) \in 0..MaxDepth

IInv == LexerInv /\ ParserInv /\ NestInv

------------------------------------------------------------------------------
(* The lexer *)

\* The words, whether they split or not.
LEMMA WordIs ==
  ASSUME NEW x \in Word
  PROVE  /\ x.token \in {"Identifier", "IdentifierWithWildcard"} \cup Keyword /\ x.value \subseteq Selection
         /\ x.token = "Identifier" => x.value = {} \/ \E s \in Selection : x.value = {s}
<1> DEFINE Good(y) == /\ y.token \in {"Identifier", "IdentifierWithWildcard"} \cup Keyword /\ y.value \subseteq Selection
                      /\ y.token = "Identifier" => y.value = {} \/ \E s \in Selection : y.value = {s}
<1>1. ASSUME NEW y \in Identifiers PROVE Good(y)
  <2>1. CASE \E s \in Selection : y = Item("Identifier", {s})
    <3>1. PICK s \in Selection : y = Item("Identifier", {s})
      BY <2>1
    <3>2. y.token = "Identifier" /\ y.value = {s}
      BY <3>1 DEF Item
    <3> QED BY <3>2
  <2>2. CASE y = Item("Identifier", {})
    BY <2>2 DEF Item
  <2>3. CASE \E w \in SUBSET Selection : y = Item("IdentifierWithWildcard", w)
    <3>1. PICK w \in SUBSET Selection : y = Item("IdentifierWithWildcard", w)
      BY <2>3
    <3>2. y.token = "IdentifierWithWildcard" /\ y.value = w
      BY <3>1 DEF Item
    <3> QED BY <3>2
  <2> QED BY <2>1, <2>2, <2>3, Zenon DEF Identifiers
<1>2. CASE x \in Identifiers
  BY <1>1, <1>2
<1>3. CASE x \in Unsplittable
  <2>1. PICK y \in Identifiers : x = [y EXCEPT !.splits = FALSE]
    BY <1>3, Zenon DEF Unsplittable
  <2>2. \E t, v : y = Item(t, v)
    BY Zenon DEF Identifiers
  <2>3. PICK t, v : y = [token |-> t, value |-> v, splits |-> TRUE]
    BY <2>2 DEF Item
  <2>4. x.token = y.token /\ x.value = y.value
    BY <2>1, <2>3
  <2>5. Good(y)
    BY <1>1
  <2> HIDE DEF Good
  <2> QED BY <2>4, <2>5 DEF Good
<1>4. CASE x \in {Item(k, {}) : k \in Keyword}
  <2>1. PICK k \in Keyword : x = Item(k, {})
    BY <1>4
  <2>2. x.token = k /\ x.value = {}
    BY <2>1 DEF Item
  <2> QED BY <2>2 DEF Keyword
<1> QED BY <1>2, <1>3, <1>4 DEF Word

LEMMA SymbolKinds ==
  /\ Word \subseteq Tokens
  /\ \A t \in Separator \cup {"SepPipe"} : Item(t, {}) \in Tokens
  /\ Item("Unsupported", {}) \in Tokens /\ Item("LitEof", {}) \in Tokens
  /\ \A x \in Symbol \ Word : x = Space \/ x.token \in Separator \cup {"SepPipe"}
<1>1. Space \notin Word
  BY WordIs DEF Space, Item, Keyword
<1>2. \A t \in Separator \cup {"SepPipe"} : Item(t, {}) # Space
  BY DEF Space, Item, Separator, Quantifier
<1>3. Word \subseteq Tokens
  BY <1>1 DEF Tokens, Symbol
<1>4. \A t \in Separator \cup {"SepPipe"} : Item(t, {}) \in Tokens
  BY <1>2, Zenon DEF Tokens, Symbol
<1>5. Item("Unsupported", {}) \in Tokens /\ Item("LitEof", {}) \in Tokens
  BY Zenon DEF Tokens
<1>6. ASSUME NEW x \in Symbol, x \notin Word, x # Space
      PROVE  x.token \in Separator \cup {"SepPipe"}
  <2>1. PICK t \in Separator \cup {"SepPipe"} : x = Item(t, {})
    BY <1>6, Zenon DEF Symbol
  <2> QED
    BY <2>1 DEF Item
<1> QED
  BY <1>3, <1>4, <1>5, <1>6

LEMMA LexStatesKept == \A x \in Symbol \ Word : LexStateAt(x) \in LexStates
BY SymbolKinds DEF LexStateAt, LexStates, Separator

LEMMA LexerInit == Init => LexerInv
BY ParserAssumption DEF Init, LexerInv, NoTwoWords, LexStates

LEMMA TailOfSpaced ==
  ASSUME NEW t \in Seq(Symbol), t # <<>>, NoTwoWords(t)
  PROVE  Tail(t) \in Seq(Symbol) /\ NoTwoWords(Tail(t))
<1>1. Tail(t) \in Seq(Symbol) /\ Len(Tail(t)) = Len(t) - 1
  OBVIOUS
<1>2. \A i \in 1..Len(Tail(t)) : Tail(t)[i] = t[i + 1]
  OBVIOUS
<1>3. ASSUME NEW i \in 2..Len(Tail(t)), Tail(t)[i - 1] \in Word, Tail(t)[i] \in Word
      PROVE  FALSE
  <2>1. i + 1 \in 2..Len(t) /\ i - 1 \in 1..Len(Tail(t)) /\ i \in 1..Len(Tail(t))
    BY <1>1
  <2>2. Tail(t)[i - 1] = t[(i + 1) - 1] /\ Tail(t)[i] = t[i + 1]
    BY <1>2, <2>1
  <2> QED
    BY <1>3, <2>1, <2>2 DEF NoTwoWords
<1> QED
  BY <1>1, <1>3 DEF NoTwoWords

LEMMA ConditionStep == LexerInv /\ LexCondition => LexerInv'
<1> SUFFICES ASSUME LexerInv, LexCondition PROVE LexerInv'
  OBVIOUS
<1> DEFINE collected == IF unread # <<>> /\ Head(unread) \in Word THEN <<Head(unread)>> ELSE <<>>
           rest == SubSeq(unread, Len(collected) + 1, Len(unread))
<1>0. unread \in Seq(Symbol) /\ NoTwoWords(unread) /\ condition \in Seq(Symbol)
      /\ channel \in Seq(Tokens)
  BY DEF LexerInv
<1>1. /\ text' = collected
      /\ IF rest = <<>> THEN unread' = <<>> /\ lex_state' = "eof"
         ELSE unread' = Tail(rest) /\ lex_state' = LexStateAt(Head(rest))
      /\ UNCHANGED <<condition, channel>>
  BY DEF LexCondition
<1>2. collected \in Seq(Word)
  OBVIOUS
<1>3. ASSUME collected = <<>>
      PROVE  /\ rest \in Seq(Symbol) /\ NoTwoWords(rest)
             /\ rest # <<>> => Head(rest) \in Symbol \ Word
  <2>1. rest = unread
    <3>1. Len(collected) + 1 = 1
      BY <1>3
    <3> HIDE DEF collected
    <3> QED BY <1>0, <3>1, SubSeqFull
  <2>2. unread # <<>> => Head(unread) \in Symbol \ Word
    <3>1. unread # <<>> => Head(unread) \notin Word
      <4>1. <<Head(unread)>> # <<>>
        OBVIOUS
      <4> QED
        BY <1>3, <4>1
    <3> QED
      BY <1>0, <3>1
  <2> QED
    BY <1>0, <2>1, <2>2
<1>4. ASSUME collected # <<>>
      PROVE  /\ rest \in Seq(Symbol) /\ NoTwoWords(rest)
             /\ rest # <<>> => Head(rest) \in Symbol \ Word
  <2>1. unread # <<>> /\ Head(unread) \in Word /\ Len(collected) = 1
    BY <1>4
  <2>2. rest = Tail(unread)
    <3> HIDE DEF collected
    <3> QED BY <1>0, <2>1, TailIsSubSeq
  <2>3. Tail(unread) # <<>> => Head(Tail(unread)) \in Symbol \ Word
    <3> SUFFICES ASSUME Tail(unread) # <<>> PROVE Head(Tail(unread)) \in Symbol \ Word
      OBVIOUS
    <3>1. 2 \in 2..Len(unread) /\ Head(Tail(unread)) = unread[2] /\ unread[2] \in Symbol
      BY <1>0, <2>1
    <3>2. Head(unread) = unread[2 - 1]
      BY <1>0, <2>1
    <3> QED
      BY <1>0, <2>1, <3>1, <3>2 DEF NoTwoWords
  <2> QED
    BY <1>0, <2>1, <2>2, <2>3, TailOfSpaced
<1>5. /\ rest \in Seq(Symbol) /\ NoTwoWords(rest)
      /\ rest # <<>> => Head(rest) \in Symbol \ Word
  <2> HIDE DEF collected, rest
  <2>1. CASE collected = <<>>
    BY <2>1, <1>3
  <2>2. CASE collected # <<>>
    BY <2>2, <1>4
  <2> QED
    BY <2>1, <2>2
<1> HIDE DEF collected, rest
<1>6. /\ unread' \in Seq(Symbol) /\ NoTwoWords(unread') /\ lex_state' \in LexStates
  <2>1. CASE rest = <<>>
    BY <1>1, <2>1 DEF NoTwoWords, LexStates
  <2>2. CASE rest # <<>>
    BY <1>1, <1>5, <2>2, TailOfSpaced, LexStatesKept
  <2> QED
    BY <2>1, <2>2
<1> QED
  BY <1>0, <1>1, <1>2, <1>6 DEF LexerInv

LEMMA EmitKeeps ==
  ASSUME LexerInv, NEW item \in Tokens, Emit(item)
  PROVE  channel' \in Seq(Tokens) /\ text' \in Seq(Word)
BY DEF LexerInv, Emit

LEMMA LexerSteps == LexerInv /\ (LexStep \/ LexTimeout) => LexerInv'
<1> SUFFICES ASSUME LexerInv, LexStep \/ LexTimeout PROVE LexerInv'
  OBVIOUS
<1>0. LexerEnds \subseteq LexStates /\ {"condition", "aggregation", "eof"} \subseteq LexStates
  BY DEF LexerEnds, LexStates
<1>1. text # <<>> => Head(text) \in Tokens
  BY SymbolKinds DEF LexerInv
<1>2. CASE LexWord
  BY <1>1, <1>2, EmitKeeps DEF LexWord, LexerInv
<1>3. CASE LexAccumulate
  <2>1. channel' \in Seq(Tokens) /\ text' \in Seq(Word)
    BY <1>1, <1>3, EmitKeeps DEF LexAccumulate, LexerInv
  <2> QED
    BY <1>0, <1>3, <2>1 DEF LexAccumulate, LexerInv
<1>4. CASE LexRpar
  <2>1. channel' \in Seq(Tokens) /\ text' \in Seq(Word)
    BY <1>4, SymbolKinds, EmitKeeps DEF LexRpar, Separator
  <2> QED
    BY <1>0, <1>4, <2>1 DEF LexRpar, LexerInv
<1>5. CASE LexSeparator
  <2>1. channel' \in Seq(Tokens) /\ text' \in Seq(Word)
    BY <1>5, SymbolKinds, EmitKeeps DEF LexSeparator, Separator
  <2> QED
    BY <1>0, <1>5, <2>1 DEF LexSeparator, LexerInv
<1>6. CASE LexPipe
  <2>1. channel' \in Seq(Tokens) /\ text' \in Seq(Word)
    BY <1>6, SymbolKinds, EmitKeeps DEF LexPipe
  <2> QED
    BY <1>0, <1>6, <2>1 DEF LexPipe, LexerInv
<1>7. CASE LexAggregation
  <2>1. channel' \in Seq(Tokens) /\ text' \in Seq(Word)
    BY <1>7, SymbolKinds, EmitKeeps DEF LexAggregation
  <2> QED
    BY <1>0, <1>7, <2>1 DEF LexAggregation, LexerInv, NoTwoWords
<1>8. CASE LexEof
  <2>1. channel' \in Seq(Tokens) /\ text' \in Seq(Word)
    BY <1>8, SymbolKinds, EmitKeeps DEF LexEof
  <2> QED
    BY <1>0, <1>8, <2>1 DEF LexEof, LexerInv, LexerEnds
<1>9. CASE LexSendFails \/ LexTimeout \/ LexPanics
  BY <1>0, <1>9 DEF LexSendFails, LexTimeout, LexPanics, LexerInv, LexerEnds
<1> QED
  BY <1>2, <1>3, <1>4, <1>5, <1>6, <1>7, <1>8, <1>9, ConditionStep DEF LexStep

------------------------------------------------------------------------------
(* The trees that the parser builds *)

LEMMA AtAnswers ==
  ASSUME NEW bs \in Seq(SaneTree), NEW e \in Event
  PROVE  /\ At(bs, e) \in Seq(Sane) /\ Len(At(bs, e)) = Len(bs)
         /\ \A i \in 1..Len(bs) : At(bs, e)[i] = bs[i][e]
<1>1. DOMAIN bs = 1..Len(bs) /\ Len(bs) \in Nat
  OBVIOUS
<1>2. \A i \in 1..Len(bs) : bs[i][e] \in Sane
  BY DEF SaneTree
<1> QED
  BY <1>1, <1>2 DEF At

LEMMA ReductionsAnswer ==
  ASSUME NEW s \in Seq(Sane)
  PROVE  ReduceAnd(s) \in Sane /\ ReduceOr(s) \in Sane
<1>1. CASE s = <<>>
  <2>1. Len(s) # 1 /\ Len(s) # 2
    BY <1>1
  <2>2. ReduceAnd(s) = NodeSimpleAnd(s) /\ ReduceOr(s) = NodeSimpleOr(s)
    BY <2>1 DEF ReduceAnd, ReduceOr
  <2> QED
    BY <2>2, SimpleAndAnswers, SimpleOrAnswers
<1>2. CASE s # <<>>
  BY <1>2, SimpleAndAnswers, SimpleOrAnswers, ReduceAndChangesNothing, ReduceOrChangesNothing
<1> QED
  BY <1>1, <1>2

LEMMA TreesAreSane ==
  ASSUME NEW bs \in Seq(SaneTree)
  PROVE  /\ ReducedAnd(bs) \in SaneTree /\ ReducedOr(bs) \in SaneTree
         /\ AndOf(bs) \in SaneTree /\ OrOf(bs) \in SaneTree
<1>1. \A e \in Event : At(bs, e) \in Seq(Sane)
  BY AtAnswers
<1>2. \A e \in Event : ReduceAnd(At(bs, e)) \in Sane /\ ReduceOr(At(bs, e)) \in Sane
  BY <1>1, ReductionsAnswer
<1>3. \A e \in Event : NodeSimpleAnd(At(bs, e)) \in Sane /\ NodeSimpleOr(At(bs, e)) \in Sane
  BY <1>1, SimpleAndAnswers, SimpleOrAnswers
<1> QED
  BY <1>2, <1>3 DEF ReducedAnd, ReducedOr, AndOf, OrOf, SaneTree

LEMMA NegationIsSane ==
  ASSUME NEW b \in SaneTree
  PROVE  Negated(b) \in SaneTree
BY NodesAnswer DEF Negated, SaneTree

LEMMA LeafIsSane ==
  ASSUME NEW s \in Selection
  PROVE  Leaf(s) \in SaneTree
<1>1. \A r \in FieldAnswer : r \in Sane
  <2>1. Matched \in Sane
    BY DEF Matched, Answer, Sane, MatchResult
  <2>2. NotMatched \in Sane
    BY DEF NotMatched, Answer, Sane, MatchResult
  <2>3. NotApplicable \in Sane
    BY DEF NotApplicable, Answer, Sane, MatchResult
  <2> QED
    BY <2>1, <2>2, <2>3 DEF FieldAnswer
<1>2. \A e \in Event : e[s] \in FieldAnswer
  BY DEF Event
<1>3. \A e \in Event : e[s] \in Sane
  BY <1>1, <1>2
<1> QED
  BY <1>3 DEF Leaf, SaneTree

LEMMA QuantifiedIsSane ==
  ASSUME NEW S, S \subseteq Selection, NEW order \in SetToSeqs(S), NEW w
  PROVE  QuantifiedNode(w, order) \in SaneTree
<1> DEFINE branches == [i \in DOMAIN order |-> Leaf(order[i])]
<1>1. Cardinality(S) \in Nat
  BY ParserAssumption, FS_Subset, FS_CardinalityType
<1>2. DOMAIN order = 1..Cardinality(S) /\ \A i \in DOMAIN order : order[i] \in S
  BY DEF SetToSeqs
<1>3. branches \in Seq(SaneTree)
  BY <1>1, <1>2, LeafIsSane
<1> HIDE DEF branches
<1>4. AndOf(branches) \in SaneTree /\ OrOf(branches) \in SaneTree
  BY <1>3, TreesAreSane
<1> QED
  BY <1>4 DEF QuantifiedNode, branches

LEMMA FrameKeepsSane ==
  ASSUME NEW f \in SaneFrame, NEW b \in SaneTree
  PROVE  WithBranch(f, b) \in SaneFrame
<1>1. Append(f.and, IF f.negated THEN Negated(b) ELSE b) \in Seq(SaneTree)
  BY NegationIsSane DEF SaneFrame
<1> QED
  BY <1>1, Zenon DEF WithBranch, SaneFrame

LEMMA BranchesAreSane ==
  ASSUME NEW f \in SaneFrame
  PROVE  Branches(f) \in Seq(SaneTree)
<1>1. f.and \in Seq(SaneTree) /\ f.or \in Seq(SaneTree)
  BY DEF SaneFrame
<1>2. ReducedAnd(f.and) \in SaneTree
  BY <1>1, TreesAreSane
<1>3. Append(f.or, ReducedAnd(f.and)) \in Seq(SaneTree)
  BY <1>1, <1>2
<1> QED
  BY <1>1, <1>3 DEF Branches

LEMMA EmptyFrameIsSane == EmptyFrame \in SaneFrame
BY DEF EmptyFrame, SaneFrame

LEMMA TokenValues ==
  ASSUME NEW item \in Tokens
  PROVE  item.value \subseteq Selection /\ Named(item) \subseteq Selection
<1>1. ASSUME NEW x \in Word PROVE x.value \subseteq Selection
  BY WordIs
<1>2. item.value \subseteq Selection
  BY <1>1 DEF Tokens, Symbol, Space, Item
<1> QED
  BY <1>2 DEF Named

------------------------------------------------------------------------------
(* The depth of the calls *)

LEMMA DepthOfNone == Depth(0) = 0
<1>1. /\ {i \in 1..0 : tokens[i].token = "SepLpar"} = {}
      /\ {i \in 1..0 : tokens[i].token = "SepRpar"} = {}
  OBVIOUS
<1> QED
  BY <1>1, FS_EmptySet DEF Depth

LEMMA CountOfTail ==
  ASSUME NEW t \in Seq(Tokens), t # <<>>, NEW n \in 0..(Len(t) - 1), NEW k
  PROVE  LET count == Cardinality({i \in 1..(n + 1) : t[i].token = k})
             tail == Cardinality({i \in 1..n : Tail(t)[i].token = k})
         IN count \in Nat /\ tail \in Nat
            /\ count = tail + (IF Head(t).token = k THEN 1 ELSE 0)
<1> DEFINE S == {i \in 1..n : Tail(t)[i].token = k}
           T == {i \in 2..(n + 1) : t[i].token = k}
           A == {i \in 1..(n + 1) : t[i].token = k}
<1>0. n \in Nat /\ Len(t) \in Nat
  OBVIOUS
<1>1. IsFiniteSet(S) /\ IsFiniteSet(T) /\ IsFiniteSet(A)
  <2>1. IsFiniteSet(1..(n + 1))
    BY <1>0, FS_Interval
  <2>2. S \in SUBSET (1..(n + 1)) /\ T \in SUBSET (1..(n + 1)) /\ A \in SUBSET (1..(n + 1))
    BY <1>0
  <2> QED
    BY <2>1, <2>2, FS_Subset
<1>2. \A i \in 1..n : Tail(t)[i] = t[i + 1]
  OBVIOUS
<1>3. Cardinality(T) = Cardinality(S)
  <2> DEFINE f == [i \in S |-> i + 1]
  <2>1. f \in Bijection(S, T)
    <3>1. \A i \in S : i + 1 \in T
      BY <1>0, <1>2
    <3>2. \A j \in T : j - 1 \in S /\ f[j - 1] = j
      BY <1>0, <1>2
    <3>3. \A i, j \in S : f[i] = f[j] => i = j
      BY <1>0
    <3>4. f \in [S -> T]
      BY <3>1
    <3>5. f \in Injection(S, T)
      BY <3>3, <3>4 DEF Injection, IsInjective
    <3>6. f \in Surjection(S, T)
      <4> HIDE DEF f, S, T
      <4> QED BY <3>2, <3>4 DEF Surjection
    <3> QED
      BY <3>5, <3>6 DEF Bijection
  <2>2. ExistsBijection(S, T)
    BY <2>1 DEF ExistsBijection
  <2> QED
    BY <1>1, <2>2, FS_Bijection
<1>4. A = IF Head(t).token = k THEN T \cup {1} ELSE T
  BY <1>0
<1>5. 1 \notin T
  OBVIOUS
<1>6. Cardinality(A) = Cardinality(T) + (IF Head(t).token = k THEN 1 ELSE 0)
  <2> HIDE DEF A, T
  <2>1. Cardinality(T) \in Nat
    BY <1>1, FS_CardinalityType
  <2> QED
    BY <1>1, <1>4, <1>5, <2>1, FS_AddElement
<1> HIDE DEF A, S
<1>7. Cardinality(A) \in Nat /\ Cardinality(S) \in Nat
  BY <1>1, FS_CardinalityType
<1> QED
  BY <1>3, <1>6, <1>7 DEF A, S

LEMMA DepthOfTail ==
  ASSUME tokens \in Seq(Tokens), tokens # <<>>, tokens' = Tail(tokens),
         NEW n \in 0..(Len(tokens) - 1)
  PROVE  /\ Depth(n)' \in Int /\ Depth(n + 1) \in Int
         /\ Depth(n + 1) = Depth(n)' + (IF Head(tokens).token = "SepLpar" THEN 1
                                        ELSE IF Head(tokens).token = "SepRpar" THEN -1 ELSE 0)
<1> DEFINE count(k) == Cardinality({i \in 1..(n + 1) : tokens[i].token = k})
           tail(k) == Cardinality({i \in 1..n : Tail(tokens)[i].token = k})
<1>1. ASSUME NEW k \in {"SepLpar", "SepRpar"}
      PROVE  /\ count(k) \in Nat /\ tail(k) \in Nat
             /\ count(k) = tail(k) + (IF Head(tokens).token = k THEN 1 ELSE 0)
  BY CountOfTail
<1>2. Depth(n)' = tail("SepLpar") - tail("SepRpar")
  BY DEF Depth
<1>3. Depth(n + 1) = count("SepLpar") - count("SepRpar")
  BY DEF Depth
<1> HIDE DEF count, tail
<1>4. /\ count("SepLpar") \in Nat /\ tail("SepLpar") \in Nat
      /\ count("SepLpar") = tail("SepLpar") + (IF Head(tokens).token = "SepLpar" THEN 1 ELSE 0)
  BY <1>1
<1>5. /\ count("SepRpar") \in Nat /\ tail("SepRpar") \in Nat
      /\ count("SepRpar") = tail("SepRpar") + (IF Head(tokens).token = "SepRpar" THEN 1 ELSE 0)
  BY <1>1
<1> QED
  BY <1>2, <1>3, <1>4, <1>5, SMTT(60)

------------------------------------------------------------------------------
(* The parser *)

LEMMA ParserInit == Init => ParserInv /\ NestInv
BY DEF Init, ParserInv, NestInv

\* A token that is no parenthesis: the calls in progress stay as many.
LEMMA GoesOnKeeps ==
  ASSUME LexerInv, ParserInv, NestInv, phase = "parse", tokens # <<>>,
         Head(tokens).token \notin {"SepLpar", "SepRpar"},
         NEW f \in SaneFrame, GoesOn(f)
  PROVE  ParserInv' /\ NestInv'
<1>1. stack # <<>> /\ stack \in Seq(SaneFrame) /\ tokens \in Seq(Tokens) /\ phase = "parse"
  BY DEF ParserInv, NestInv, Parsing
<1>2. stack' \in Seq(SaneFrame) /\ Len(stack') = Len(stack) /\ stack' # <<>>
  BY <1>1 DEF GoesOn
<1>3. tokens' = Tail(tokens) /\ tokens' \in Seq(Tokens) /\ Len(tokens') = Len(tokens) - 1
  BY <1>1 DEF GoesOn
<1>4. ASSUME NEW n \in 0..Len(tokens') PROVE (Len(stack) - 1 + Depth(n) \in 0..MaxDepth)'
  <2>1. n \in 0..(Len(tokens) - 1) /\ n + 1 \in 0..Len(tokens)
    BY <1>1, <1>3
  <2>2. Depth(n)' \in Int /\ Depth(n + 1) = Depth(n)'
    BY <1>1, <1>3, <2>1, DepthOfTail, SMTT(60)
  <2>3. Len(stack) - 1 + Depth(n + 1) \in 0..MaxDepth
    BY <1>1, <2>1 DEF NestInv
  <2> QED
    BY <1>2, <2>2, <2>3
<1>5. phase' = "parse" /\ UNCHANGED result
  BY <1>1 DEF GoesOn
<1>6. ParserInv'
  BY <1>2, <1>3, <1>5 DEF ParserInv
<1> QED
  BY <1>2, <1>4, <1>6 DEF NestInv

LEMMA FailsKeeps ==
  ASSUME ParserInv, Fails
  PROVE  ParserInv' /\ NestInv'
BY DEF ParserInv, NestInv, Fails

LEMMA CollectKeeps ==
  ASSUME LexerInv, ParserInv, NestInv, Collect \/ CollectFails \/ StartParse
  PROVE  ParserInv' /\ NestInv'
<1>1. CASE Collect
  <2>1. tokens' \in Seq(Tokens)
    BY <1>1 DEF Collect, LexerInv, ParserInv
  <2> QED
    BY <1>1, <2>1 DEF Collect, ParserInv, NestInv
<1>2. CASE CollectFails
  BY <1>2, FailsKeeps DEF CollectFails
<1>3. CASE StartParse /\ CollectOk
  <2>1. phase' = "parse" /\ stack' = <<EmptyFrame>> /\ UNCHANGED <<tokens, result>>
    BY <1>3 DEF StartParse
  <2>2. Len(stack') = 1 /\ stack' \in Seq(SaneFrame) /\ stack' # <<>>
    BY <2>1, EmptyFrameIsSane
  <2>3. Depth(0) = 0
    BY DepthOfNone
  <2>4. MaxDepth \in Nat /\ tokens \in Seq(Tokens)
    BY ParserAssumption DEF ParserInv
  <2>5. \A n \in 0..Len(tokens) : Depth(n) \in 0..MaxDepth
    BY <1>3, <2>3, <2>4 DEF CollectOk, ParenthesesValid
  <2>6. \A n \in 0..Len(tokens) : (Len(stack) - 1 + Depth(n) \in 0..MaxDepth)'
    <3>1. ASSUME NEW n \in 0..Len(tokens) PROVE Depth(n)' = Depth(n)
      BY <2>1 DEF Depth
    <3> QED
      BY <2>2, <2>5, <3>1
  <2> QED
    BY <2>1, <2>2, <2>4, <2>6 DEF ParserInv, NestInv
<1>4. CASE StartParse /\ ~CollectOk
  BY <1>4, FailsKeeps DEF StartParse
<1> QED
  BY <1>1, <1>2, <1>3, <1>4

LEMMA GroupKeeps ==
  ASSUME LexerInv, ParserInv, NestInv, ParseGroup
  PROVE  ParserInv' /\ NestInv'
<1>1. /\ phase = "parse" /\ tokens # <<>> /\ tokens \in Seq(Tokens)
      /\ stack \in Seq(SaneFrame) /\ Head(tokens).token = "SepLpar"
  BY DEF ParserInv, ParseGroup, Parsing
<1>2. stack' \in Seq(SaneFrame) /\ Len(stack') = Len(stack) + 1 /\ stack' # <<>>
  BY <1>1, EmptyFrameIsSane DEF ParseGroup
<1>3. /\ tokens' = Tail(tokens) /\ tokens' \in Seq(Tokens) /\ Len(tokens') = Len(tokens) - 1
      /\ UNCHANGED <<phase, result>>
  BY <1>1 DEF ParseGroup
<1>4. ASSUME NEW n \in 0..Len(tokens') PROVE (Len(stack) - 1 + Depth(n) \in 0..MaxDepth)'
  <2>1. n \in 0..(Len(tokens) - 1) /\ n + 1 \in 0..Len(tokens)
    BY <1>1, <1>3
  <2>2. Depth(n)' \in Int /\ Depth(n + 1) = Depth(n)' + 1
    BY <1>1, <1>3, <2>1, DepthOfTail
  <2>3. Len(stack) - 1 + Depth(n + 1) \in 0..MaxDepth
    BY <1>1, <2>1 DEF NestInv
  <2> QED
    BY <1>1, <1>2, <2>2, <2>3, SMTT(60)
<1> QED
  BY <1>1, <1>2, <1>3, <1>4 DEF ParserInv, NestInv

LEMMA TwoTails ==
  ASSUME NEW S, NEW s \in Seq(S), Len(s) > 1
  PROVE  Tail(Tail(s)) \in Seq(S) /\ Len(Tail(Tail(s))) = Len(s) - 2
<1> DEFINE t == Tail(s)
<1>1. s # <<>> /\ Len(s) \in Nat
  OBVIOUS
<1>2. t \in Seq(S) /\ Len(t) = Len(s) - 1
  BY <1>1
<1> HIDE DEF t
<1>3. Len(t) # 0
  BY <1>1, <1>2, SMTT(60)
<1>4. t # <<>>
  BY <1>2, <1>3
<1>5. Tail(t) \in Seq(S) /\ Len(Tail(t)) = Len(t) - 1
  BY <1>2, <1>4
<1> QED
  BY <1>1, <1>2, <1>5 DEF t

LEMMA GroupEndsKeeps ==
  ASSUME LexerInv, ParserInv, NestInv, ParseGroupEnds
  PROVE  ParserInv' /\ NestInv'
<1>1. /\ phase = "parse" /\ tokens # <<>> /\ tokens \in Seq(Tokens)
      /\ stack \in Seq(SaneFrame) /\ Len(stack) > 1 /\ Head(tokens).token = "SepRpar"
  BY DEF ParserInv, ParseGroupEnds, Parsing
<1> DEFINE f == WithBranch(stack[2], ReducedOr(Branches(Top)))
<1>2. f \in SaneFrame
  <2>1. Top \in SaneFrame /\ stack[2] \in SaneFrame
    BY <1>1 DEF Top
  <2>2. ReducedOr(Branches(Top)) \in SaneTree
    BY <2>1, BranchesAreSane, TreesAreSane
  <2> QED
    BY <2>1, <2>2, FrameKeepsSane
<1>3. stack' = <<f>> \o Tail(Tail(stack)) /\ UNCHANGED <<phase, result>>
  BY <1>1 DEF ParseGroupEnds
<1> HIDE DEF f
<1>4. stack' \in Seq(SaneFrame) /\ Len(stack') = Len(stack) - 1 /\ stack' # <<>>
  <2>1. Tail(Tail(stack)) \in Seq(SaneFrame) /\ Len(Tail(Tail(stack))) = Len(stack) - 2
    BY <1>1, TwoTails
  <2> QED
    BY <1>1, <1>2, <1>3, <2>1
<1>5. tokens' = Tail(tokens) /\ tokens' \in Seq(Tokens) /\ Len(tokens') = Len(tokens) - 1
  BY <1>1 DEF ParseGroupEnds
<1>6. ASSUME NEW n \in 0..Len(tokens') PROVE (Len(stack) - 1 + Depth(n) \in 0..MaxDepth)'
  <2>1. n \in 0..(Len(tokens) - 1) /\ n + 1 \in 0..Len(tokens)
    BY <1>1, <1>5
  <2>2. Depth(n)' \in Int /\ Depth(n + 1) = Depth(n)' - 1
    BY <1>1, <1>5, <2>1, DepthOfTail
  <2>3. Len(stack) - 1 + Depth(n + 1) \in 0..MaxDepth
    BY <1>1, <2>1 DEF NestInv
  <2> QED
    BY <1>1, <1>4, <2>2, <2>3, SMTT(60)
<1> QED
  BY <1>1, <1>3, <1>4, <1>5, <1>6 DEF ParserInv, NestInv

LEMMA ParseKeeps ==
  ASSUME LexerInv, ParserInv, NestInv, ParseStep
  PROVE  ParserInv' /\ NestInv'
<1>1. phase = "parse" => Top \in SaneFrame
  BY DEF ParserInv, NestInv, Top
<1>2. tokens # <<>> => Head(tokens) \in Tokens
  BY DEF ParserInv
<1>3. CASE ParseIdentifier
  <2>1. PICK s \in Head(tokens).value : GoesOn(WithBranch(Top, Leaf(s)))
    BY <1>3 DEF ParseIdentifier
  <2>2. /\ phase = "parse" /\ tokens # <<>>
        /\ Head(tokens).token \notin {"SepLpar", "SepRpar"}
    BY <1>3 DEF ParseIdentifier, Parsing
  <2>3. s \in Selection
    BY <1>2, <2>1, <2>2, TokenValues
  <2>4. WithBranch(Top, Leaf(s)) \in SaneFrame
    BY <1>1, <2>2, <2>3, LeafIsSane, FrameKeepsSane
  <2> QED
    BY <2>1, <2>2, <2>4, GoesOnKeeps
<1>4. CASE ParseAnd
  BY <1>1, <1>4, GoesOnKeeps DEF ParseAnd, Parsing
<1>5. CASE ParseOr
  <2>1. /\ phase = "parse" /\ tokens # <<>>
        /\ Head(tokens).token \notin {"SepLpar", "SepRpar"}
        /\ GoesOn([Top EXCEPT !.or = Append(@, ReducedAnd(Top.and)), !.and = <<>>])
    BY <1>5 DEF ParseOr, Parsing
  <2>2. Top.and \in Seq(SaneTree) /\ Top.or \in Seq(SaneTree)
    BY <1>1, <2>1 DEF SaneFrame
  <2>3. Append(Top.or, ReducedAnd(Top.and)) \in Seq(SaneTree)
    BY <2>2, TreesAreSane
  <2>4. [Top EXCEPT !.or = Append(@, ReducedAnd(Top.and)), !.and = <<>>] \in SaneFrame
    <3>1. <<>> \in Seq(SaneTree)
      OBVIOUS
    <3>2. Top \in [and : Seq(SaneTree), or : Seq(SaneTree),
                   negated : BOOLEAN, wildcard : Quantifier \cup {"None"}]
      BY <1>1, <2>1 DEF SaneFrame
    <3> DEFINE rest == Append(Top.or, ReducedAnd(Top.and))
    <3>3. rest \in Seq(SaneTree)
      BY <2>3
    <3> HIDE DEF rest
    <3>4. [Top EXCEPT !.or = rest, !.and = <<>>] \in SaneFrame
      BY <3>1, <3>2, <3>3 DEF SaneFrame
    <3> QED
      BY <3>4 DEF rest
  <2> QED
    BY <2>1, <2>4, GoesOnKeeps
<1>6. CASE ParseNot
  <2>1. /\ phase = "parse" /\ tokens # <<>>
        /\ Head(tokens).token \notin {"SepLpar", "SepRpar"}
        /\ GoesOn([Top EXCEPT !.negated = TRUE])
    BY <1>6 DEF ParseNot, Parsing
  <2>2. [Top EXCEPT !.negated = TRUE] \in SaneFrame
    BY <1>1, <2>1 DEF SaneFrame
  <2> QED
    BY <2>1, <2>2, GoesOnKeeps
<1>7. CASE ParseQuantifier
  <2>1. /\ phase = "parse" /\ tokens # <<>> /\ Head(tokens).token \in Quantifier
        /\ Head(tokens).token \notin {"SepLpar", "SepRpar"}
        /\ GoesOn([Top EXCEPT !.wildcard = Head(tokens).token])
    BY <1>7 DEF ParseQuantifier, Parsing, Quantifier
  <2>2. [Top EXCEPT !.wildcard = Head(tokens).token] \in SaneFrame
    BY <1>1, <2>1 DEF SaneFrame
  <2> QED
    BY <2>1, <2>2, GoesOnKeeps
<1>8. CASE ParseQuantified
  <2>1. /\ phase = "parse" /\ tokens # <<>>
        /\ Head(tokens).token \notin {"SepLpar", "SepRpar"}
    BY <1>8 DEF ParseQuantified, AtQuantified, Parsing
  <2>2. PICK order \in SetToSeqs(Named(Head(tokens))) :
          GoesOn([WithBranch(Top, QuantifiedNode(Top.wildcard, order)) EXCEPT !.wildcard = "None"])
    BY <1>8 DEF ParseQuantified
  <2>3. Named(Head(tokens)) \subseteq Selection
    BY <1>2, <2>1, TokenValues
  <2>4. QuantifiedNode(Top.wildcard, order) \in SaneTree
    BY <2>3, QuantifiedIsSane
  <2>5. WithBranch(Top, QuantifiedNode(Top.wildcard, order)) \in SaneFrame
    BY <1>1, <2>1, <2>4, FrameKeepsSane
  <2>6. [WithBranch(Top, QuantifiedNode(Top.wildcard, order)) EXCEPT !.wildcard = "None"]
          \in SaneFrame
    BY <2>5 DEF SaneFrame
  <2> QED
    BY <2>1, <2>2, <2>6, GoesOnKeeps
<1>9. CASE ParseEnds
  <2>1. ReducedOr(Branches(Top)) \in SaneTree
    BY <1>1, <1>9, BranchesAreSane, TreesAreSane DEF ParseEnds
  <2>2. phase' = "ok" /\ result' \in SaneTree /\ stack' = <<>> /\ UNCHANGED tokens
    BY <1>9, <2>1 DEF ParseEnds
  <2> QED
    BY <2>2 DEF ParserInv, NestInv
<1>10. CASE ParseFails
  BY <1>10, FailsKeeps DEF ParseFails, Rejects
<1> QED
  BY <1>3, <1>4, <1>5, <1>6, <1>7, <1>8, <1>9, <1>10, CollectKeeps, GroupKeeps, GroupEndsKeeps
     DEF ParseStep

\* The parser leaves the lexer's part alone, but for the tokens it takes.
LEMMA ParserLeavesLexer == LexerInv /\ ParseStep => LexerInv'
<1> SUFFICES ASSUME LexerInv, ParseStep PROVE LexerInv'
  OBVIOUS
<1>1. UNCHANGED <<condition, unread, text, lex_state>>
  BY DEF ParseStep, Collect, CollectFails, StartParse, ParseIdentifier, ParseAnd, ParseOr, ParseNot,
         ParseQuantifier, ParseQuantified, ParseGroup, ParseGroupEnds, ParseEnds, ParseFails,
         Rejects, Fails, GoesOn, lexer
<1>2. channel' \in Seq(Tokens)
  <2>1. CASE Collect \/ CollectFails
    <3>1. channel \in Seq(Tokens) /\ channel # <<>> /\ channel' \in {Tail(channel), <<>>}
      BY <2>1 DEF LexerInv, Collect, CollectFails
    <3>2. Tail(channel) \in Seq(Tokens) /\ <<>> \in Seq(Tokens)
      BY <3>1
    <3> QED
      BY <3>1, <3>2
  <2>2. CASE UNCHANGED channel
    BY <2>2 DEF LexerInv
  <2> QED
    BY <2>1, <2>2 DEF ParseStep, StartParse, ParseIdentifier, ParseAnd, ParseOr, ParseNot,
         ParseQuantifier, ParseQuantified, ParseGroup, ParseGroupEnds, ParseEnds, ParseFails,
         Rejects, GoesOn
<1> QED
  BY <1>1, <1>2, SMTT(60) DEF LexerInv, NoTwoWords

\* The lexer leaves the parser's part alone.
LEMMA LexerLeavesParser ==
  ASSUME ParserInv, NestInv, UNCHANGED parser
  PROVE  ParserInv' /\ NestInv'
<1>1. \A n : Depth(n)' = Depth(n)
  BY DEF Depth, parser
<1> QED
  BY <1>1 DEF ParserInv, NestInv, parser

------------------------------------------------------------------------------
LEMMA Inductive == IInv /\ [Next]_vars => IInv'
<1> SUFFICES ASSUME IInv, [Next]_vars PROVE IInv'
  OBVIOUS
<1> USE DEF IInv
<1>1. CASE LexStep \/ LexTimeout
  <2>1. UNCHANGED parser
    BY <1>1 DEF LexStep, LexTimeout, LexCondition, LexWord, LexAccumulate, LexRpar, LexSeparator,
           LexPipe, LexAggregation, LexEof, LexSendFails, LexPanics
  <2> QED
    BY <1>1, <2>1, LexerSteps, LexerLeavesParser
<1>2. CASE ParseStep
  BY <1>2, ParseKeeps, ParserLeavesLexer
<1>3. CASE UNCHANGED vars
  <2>1. UNCHANGED parser /\ UNCHANGED lexer /\ UNCHANGED channel
    BY <1>3 DEF vars
  <2>2. LexerInv'
    BY <2>1 DEF LexerInv, NoTwoWords, lexer
  <2> QED
    BY <2>1, <2>2, LexerLeavesParser
<1> QED
  BY <1>1, <1>2, <1>3 DEF Next

LEMMA Invariant == Spec => []IInv
<1>1. Init => IInv
  BY LexerInit, ParserInit DEF IInv
<1> QED
  BY <1>1, Inductive, PTL DEF Spec

\* The variables keep their types, and the calls of new_branch() never nest deeper
\* than the limit, whatever the condition, the buffer and the limits.
THEOREM TypeCorrect == Spec => []TypeOK
<1>1. SaneTree \subseteq [Event -> MatchResult]
  BY DEF SaneTree, Sane
<1>2. \A s \in Seq(SaneTree) : s \in Seq([Event -> MatchResult])
  BY <1>1, SeqMonotonic
<1>3. SaneFrame \subseteq Frame
  BY <1>2 DEF SaneFrame, Frame
<1>4. IInv => TypeOK
  <2> SUFFICES ASSUME IInv PROVE TypeOK
    OBVIOUS
  <2>1. stack \in Seq(Frame)
    BY <1>3, SeqMonotonic DEF IInv, ParserInv
  <2>2. phase = "parse" => stack # <<>> /\ Len(stack) <= MaxDepth + 1
    <3> SUFFICES ASSUME phase = "parse" PROVE stack # <<>> /\ Len(stack) <= MaxDepth + 1
      OBVIOUS
    <3>1. Depth(0) = 0
      BY DepthOfNone
    <3>2. 0 \in 0..Len(tokens) /\ Len(stack) \in Nat /\ MaxDepth \in Nat
      BY ParserAssumption DEF IInv, ParserInv
    <3>3. Len(stack) - 1 + Depth(0) \in 0..MaxDepth /\ stack # <<>>
      BY <3>2 DEF IInv, NestInv
    <3> QED
      BY <3>1, <3>2, <3>3
  <2> QED
    BY <1>1, <2>1, <2>2 DEF IInv, LexerInv, ParserInv, TypeOK
<1> QED
  BY <1>4, Invariant, PTL

\* Every tree that the parser makes of any condition gives only matches that apply.
THEOREM TreesAnswerSanely == Spec => []MatchesApply
<1>1. IInv => MatchesApply
  BY DEF IInv, ParserInv, MatchesApply, SaneTree, Sane
<1> QED
  BY <1>1, Invariant, PTL

------------------------------------------------------------------------------
(* The grammar *)

LEMMA Induction ==
  ASSUME NEW S, 0 \in S, \A n \in Nat : n \in S => n + 1 \in S
  PROVE  \A n \in Nat : n \in S
<1> DEFINE out == Nat \ S
<1>1. ASSUME out # {} PROVE FALSE
  <2>1. Min(out) \in out /\ \A x \in out : Min(out) <= x
    BY <1>1, MinIsThere
  <2>2. PICK m : m = Min(out)
    OBVIOUS
  <2>3. m \in Nat /\ m # 0 /\ m \notin S /\ \A x \in out : m <= x
    BY <2>1, <2>2
  <2>4. m - 1 \in Nat /\ m - 1 \notin out /\ (m - 1) + 1 = m
    BY <2>3
  <2> QED BY <2>3, <2>4
<1> QED BY <1>1

Meaningless(s) == [p \in Parts(s) |-> [operand |-> {}, term |-> {}, expression |-> {}]]
Longer(s, n, g) ==
  [p \in Parts(s) |-> IF p[2] - p[1] = n THEN Meaning(s, g, p[1], p[2]) ELSE g[p]]

\* The meanings up to each of n lengths, given as a function.
GrammarUpTo(s, n, f) ==
  f = [i \in 0..n |-> IF i = 0 THEN Meaningless(s) ELSE Longer(s, i, f[i - 1])]

LEMMA GrammarIsThere ==
  ASSUME NEW s
  PROVE  \A n \in Nat : \E f : GrammarUpTo(s, n, f)
<1> DEFINE S == {n \in Nat : \E f : GrammarUpTo(s, n, f)}
<1>1. 0 \in S
  <2> DEFINE f == [i \in 0..0 |-> Meaningless(s)]
  <2>1. GrammarUpTo(s, 0, f)
    BY DEF GrammarUpTo
  <2> QED BY <2>1
<1>2. ASSUME NEW n \in Nat, n \in S PROVE n + 1 \in S
  <2>1. PICK f : GrammarUpTo(s, n, f)
    BY <1>2
  <2> DEFINE g == [i \in 0..(n + 1) |-> IF i = n + 1 THEN Longer(s, n + 1, f[n]) ELSE f[i]]
  <2>2. \A i \in 0..(n + 1) : g[i] = IF i = 0 THEN Meaningless(s) ELSE Longer(s, i, g[i - 1])
    <3> SUFFICES ASSUME NEW i \in 0..(n + 1)
                 PROVE  g[i] = IF i = 0 THEN Meaningless(s) ELSE Longer(s, i, g[i - 1])
      OBVIOUS
    <3>1. CASE i = n + 1
      <4>1. i - 1 = n /\ n \in 0..(n + 1) /\ n # n + 1 /\ i # 0
        BY <3>1
      <4>2. g[i - 1] = f[n] /\ g[i] = Longer(s, n + 1, f[n])
        BY <3>1, <4>1
      <4> QED BY <3>1, <4>1, <4>2
    <3>2. CASE i # n + 1
      <4>1. i \in 0..n /\ g[i] = f[i]
        BY <3>2
      <4>2. i # 0 => i - 1 \in 0..n /\ i - 1 # n + 1 /\ g[i - 1] = f[i - 1]
        BY <4>1
      <4>3. f[i] = IF i = 0 THEN Meaningless(s) ELSE Longer(s, i, f[i - 1])
        BY <2>1, <4>1 DEF GrammarUpTo
      <4> HIDE DEF g
      <4> QED BY <4>1, <4>2, <4>3
    <3> QED BY <3>1, <3>2
  <2>3. g = [i \in 0..(n + 1) |-> g[i]]
    OBVIOUS
  <2> HIDE DEF g
  <2>4. GrammarUpTo(s, n + 1, g)
    BY <2>2, <2>3 DEF GrammarUpTo
  <2> QED BY <2>4
<1> HIDE DEF S
<1>3. \A n \in Nat : n \in S
  BY <1>1, <1>2, Induction
<1> QED BY <1>3 DEF S

LEMMA GrammarOf ==
  ASSUME NEW s, Len(s) \in Nat
  PROVE  /\ Grammar(s)[0] = Meaningless(s)
         /\ \A n \in 1..Len(s) : Grammar(s)[n] = Longer(s, n, Grammar(s)[n - 1])
<1> DEFINE f == CHOOSE g : GrammarUpTo(s, Len(s), g)
<1>1. GrammarUpTo(s, Len(s), f)
  BY GrammarIsThere
<1>2. Grammar(s) = f
  BY DEF Grammar, GrammarUpTo, Meaningless, Longer
<1> HIDE DEF f
<1>3. \A n \in 0..Len(s) : f[n] = IF n = 0 THEN Meaningless(s) ELSE Longer(s, n, f[n - 1])
  BY <1>1 DEF GrammarUpTo
<1>4. 0 \in 0..Len(s) /\ \A n \in 1..Len(s) : n \in 0..Len(s) /\ n # 0
  OBVIOUS
<1> QED BY <1>2, <1>3, <1>4

\* A text and its parts, by their cuts.
IsPart(s, i, j) == i \in 0..Len(s) /\ j \in 0..Len(s) /\ i <= j
Means(s, i, j) == Grammar(s)[Len(s)][<<i, j>>]

LEMMA GrammarGrows ==
  ASSUME NEW s, Len(s) \in Nat, NEW i, NEW j, IsPart(s, i, j)
  PROVE  \A n \in 0..Len(s) : j - i <= n => Grammar(s)[n][<<i, j>>] = Grammar(s)[j - i][<<i, j>>]
<1> DEFINE S == {n \in Nat : n <= Len(s) /\ j - i <= n => Grammar(s)[n][<<i, j>>] = Grammar(s)[j - i][<<i, j>>]}
<1>0. i \in Nat /\ j \in Nat /\ i <= j /\ j - i \in 0..Len(s) /\ <<i, j>> \in Parts(s)
  BY DEF IsPart, Parts
<1>1. 0 \in S
  BY <1>0
<1>2. ASSUME NEW n \in Nat, n \in S PROVE n + 1 \in S
  <2> SUFFICES ASSUME n + 1 <= Len(s), j - i <= n + 1
               PROVE  Grammar(s)[n + 1][<<i, j>>] = Grammar(s)[j - i][<<i, j>>]
    OBVIOUS
  <2>1. CASE j - i = n + 1
    BY <2>1
  <2>2. CASE j - i # n + 1
    <3>1. n + 1 \in 1..Len(s) /\ (n + 1) - 1 = n /\ j - i <= n /\ n <= Len(s)
      BY <1>0, <2>2
    <3>2. Grammar(s)[n + 1] = Longer(s, n + 1, Grammar(s)[n])
      BY <3>1, GrammarOf
    <3>3. Grammar(s)[n + 1][<<i, j>>] = Grammar(s)[n][<<i, j>>]
      BY <1>0, <2>2, <3>2 DEF Longer
    <3> QED BY <1>2, <3>1, <3>3
  <2> QED BY <2>1, <2>2
<1> HIDE DEF S
<1>3. \A n \in Nat : n \in S
  BY <1>1, <1>2, Induction
<1> QED BY <1>3 DEF S

LEMMA MeansIs ==
  ASSUME NEW s, Len(s) \in Nat, NEW i, NEW j, IsPart(s, i, j)
  PROVE  /\ i = j => Means(s, i, j) = [operand |-> {}, term |-> {}, expression |-> {}]
         /\ i # j => \E g : /\ Means(s, i, j) = Meaning(s, g, i, j)
                            /\ \A x, y : IsPart(s, x, y) /\ y - x < j - i => g[<<x, y>>] = Means(s, x, y)
<1>0. i \in Nat /\ j \in Nat /\ i <= j /\ j - i \in 0..Len(s) /\ <<i, j>> \in Parts(s) /\ Len(s) \in 0..Len(s)
  BY DEF IsPart, Parts
<1>1. Means(s, i, j) = Grammar(s)[j - i][<<i, j>>]
  BY <1>0, GrammarGrows DEF Means
<1>2. CASE i = j
  <2>1. Means(s, i, j) = Meaningless(s)[<<i, j>>] /\ <<i, j>> \in Parts(s)
    BY <1>0, <1>1, <1>2, GrammarOf
  <2>2. Means(s, i, j) = [operand |-> {}, term |-> {}, expression |-> {}]
    BY <2>1 DEF Meaningless
  <2> QED BY <1>2, <2>2
<1>3. CASE i # j
  <2> DEFINE g == Grammar(s)[(j - i) - 1]
  <2>1. j - i \in 1..Len(s) /\ (j - i) - 1 \in 0..Len(s)
    BY <1>0, <1>3
  <2>2. Grammar(s)[j - i] = Longer(s, j - i, g)
    BY <2>1, GrammarOf
  <2>3. Means(s, i, j) = Meaning(s, g, i, j)
    <3> HIDE DEF g
    <3> QED BY <1>0, <1>1, <2>2 DEF Longer
  <2>4. ASSUME NEW x, NEW y, IsPart(s, x, y), y - x < j - i PROVE g[<<x, y>>] = Means(s, x, y)
    <3>1. y - x \in 0..Len(s) /\ y - x <= (j - i) - 1 /\ y - x <= Len(s)
      BY <1>0, <2>4 DEF IsPart
    <3>2. g[<<x, y>>] = Grammar(s)[y - x][<<x, y>>]
      BY <2>1, <2>4, <3>1, GrammarGrows
    <3>3. Means(s, x, y) = Grammar(s)[y - x][<<x, y>>]
      BY <1>0, <2>4, <3>1, GrammarGrows DEF Means
    <3> QED BY <3>2, <3>3
  <2> HIDE DEF g
  <2> QED BY <1>3, <2>3, <2>4
<1> QED BY <1>2, <1>3

\* The meanings of a part as an operand, a term and an expression.
OperandOf(s, i, j) == Means(s, i, j).operand
TermOf(s, i, j) == Means(s, i, j).term
ExpressionOf(s, i, j) == Means(s, i, j).expression

\* What each of them is, in terms of shorter parts.
WordMeans(s, i, j, m) == j = i + 1 /\ s[j].token = "Identifier" /\ \E entry \in s[j].value : m = Holds(entry)
NotMeans(s, i, j, m) ==
  /\ j # i + 1 /\ s[i + 1].token = "KeywordNot" /\ s[i + 2].token # "KeywordNot"
  /\ \E n \in OperandOf(s, i + 1, j) : m = Event \ n
GroupMeans(s, i, j, m) ==
  /\ j # i + 1 /\ s[i + 1].token = "SepLpar" /\ s[j].token = "SepRpar"
  /\ m \in ExpressionOf(s, i + 1, j - 1)
QuantifiedMeans(s, i, j, m) ==
  /\ j = i + 2 /\ s[i + 1].token \in Quantifier
  /\ \/ s[j].token = "Identifier" /\ \E entry \in s[j].value : m = Holds(entry)
     \/ /\ s[j].token \in Operand \ {"Identifier"} /\ Named(s[j]) # {}
        /\ m = Quantified(s[i + 1].token = "StmtAllOf", Named(s[j]))
OperandMeans(s, i, j, m) ==
  i < j /\ (WordMeans(s, i, j, m) \/ NotMeans(s, i, j, m) \/ GroupMeans(s, i, j, m) \/ QuantifiedMeans(s, i, j, m))
AndMeans(s, i, j, m) ==
  \E k \in Places(s, i, j, "KeywordAnd") :
    \E n1 \in TermOf(s, i, k - 1) : \E n2 \in OperandOf(s, k, j) : m = n1 \cap n2
OrMeans(s, i, j, m) ==
  \E k \in Places(s, i, j, "KeywordOr") :
    \E n1 \in ExpressionOf(s, i, k - 1) : \E n2 \in TermOf(s, k, j) : m = n1 \cup n2

LEMMA PlaceIs ==
  ASSUME NEW s, Len(s) \in Nat, NEW i, NEW j, IsPart(s, i, j), NEW t, NEW k \in Places(s, i, j, t)
  PROVE  /\ k \in Nat /\ i < k /\ k <= j /\ s[k].token = t
         /\ IsPart(s, i, k - 1) /\ IsPart(s, k, j)
         /\ (k - 1) - i < j - i /\ j - k < j - i
BY DEF Places, IsPart

LEMMA OperandIs ==
  ASSUME NEW s, Len(s) \in Nat, NEW i, NEW j, IsPart(s, i, j), NEW m
  PROVE  m \in OperandOf(s, i, j) <=> OperandMeans(s, i, j, m)
<1>0. i \in Nat /\ j \in Nat /\ i <= j
  BY DEF IsPart
<1>1. CASE i = j
  BY <1>0, <1>1, MeansIs DEF OperandOf, OperandMeans
<1>2. CASE i # j
  <2>1. PICK g : /\ Means(s, i, j) = Meaning(s, g, i, j)
                 /\ \A x, y : IsPart(s, x, y) /\ y - x < j - i => g[<<x, y>>] = Means(s, x, y)
    BY <1>2, MeansIs
  <2>2. OperandOf(s, i, j) = Operands(s, g, i, j)
    BY <2>1 DEF OperandOf, Meaning
  <2>3. i < j
    BY <1>0, <1>2
  <2>4. CASE j = i + 1
    BY <2>2, <2>3, <2>4, <1>0 DEF Operands, OperandMeans, WordMeans, NotMeans, GroupMeans, QuantifiedMeans
  <2>5. CASE j # i + 1
    <3>1. IsPart(s, i + 1, j) /\ j - (i + 1) < j - i /\ IsPart(s, i + 1, j - 1) /\ (j - 1) - (i + 1) < j - i
      BY <1>0, <2>3, <2>5 DEF IsPart
    <3>2. g[<<i + 1, j>>] = Means(s, i + 1, j) /\ g[<<i + 1, j - 1>>] = Means(s, i + 1, j - 1)
      BY <2>1, <3>1
    <3>3. CASE s[i + 1].token = "KeywordNot"
      <4>1. Operands(s, g, i, j) = IF s[i + 2].token = "KeywordNot" THEN {}
                                   ELSE {Event \ n : n \in OperandOf(s, i + 1, j)}
        <5>1. g[<<i + 1, j>>].operand = OperandOf(s, i + 1, j)
          BY <3>2 DEF OperandOf
        <5>2. Operands(s, g, i, j) = IF s[i + 2].token = "KeywordNot" THEN {}
                                     ELSE {Event \ n : n \in g[<<i + 1, j>>].operand}
          BY <2>5, <3>3 DEF Operands, Quantifier
        <5> QED BY <5>1, <5>2, Zenon
      <4> QED BY <2>2, <2>3, <2>5, <3>3, <4>1
              DEF OperandMeans, WordMeans, NotMeans, GroupMeans, QuantifiedMeans, Quantifier
    <3>4. CASE s[i + 1].token = "SepLpar"
      <4>1. Operands(s, g, i, j) = IF s[j].token = "SepRpar" THEN ExpressionOf(s, i + 1, j - 1) ELSE {}
        <5>1. g[<<i + 1, j - 1>>].expression = ExpressionOf(s, i + 1, j - 1)
          BY <3>2 DEF ExpressionOf
        <5>2. Operands(s, g, i, j) = IF s[j].token = "SepRpar" THEN g[<<i + 1, j - 1>>].expression ELSE {}
          BY <2>5, <3>4 DEF Operands, Quantifier
        <5> QED BY <5>1, <5>2
      <4> QED BY <2>2, <2>3, <2>5, <3>4, <4>1
              DEF OperandMeans, WordMeans, NotMeans, GroupMeans, QuantifiedMeans, Quantifier
    <3>5. CASE j = i + 2 /\ s[i + 1].token \in Quantifier
      <4>1. Operands(s, g, i, j) = IF s[j].token = "Identifier" THEN {Holds(entry) : entry \in s[j].value}
         ELSE IF s[j].token \in Operand /\ Named(s[j]) # {}
              THEN {Quantified(s[i + 1].token = "StmtAllOf", Named(s[j]))} ELSE {}
        BY <2>5, <3>5 DEF Operands, Quantifier
      <4> QED BY <2>2, <2>3, <2>5, <3>5, <4>1
              DEF OperandMeans, WordMeans, NotMeans, GroupMeans, QuantifiedMeans, Quantifier
    <3>6. CASE s[i + 1].token \notin {"KeywordNot", "SepLpar"} /\ ~(j = i + 2 /\ s[i + 1].token \in Quantifier)
      <4>1. Operands(s, g, i, j) = {}
        BY <2>5, <3>6 DEF Operands
      <4> QED BY <2>2, <2>5, <3>6, <4>1
              DEF OperandMeans, WordMeans, NotMeans, GroupMeans, QuantifiedMeans
    <3> QED BY <3>3, <3>4, <3>5, <3>6
  <2> QED BY <2>4, <2>5
<1> QED BY <1>1, <1>2

LEMMA TermIs ==
  ASSUME NEW s, Len(s) \in Nat, NEW i, NEW j, IsPart(s, i, j), NEW m
  PROVE  m \in TermOf(s, i, j) <=> m \in OperandOf(s, i, j) \/ AndMeans(s, i, j, m)
<1>0. i \in Nat /\ j \in Nat /\ i <= j
  BY DEF IsPart
<1>1. CASE i = j
  <2>1. Places(s, i, j, "KeywordAnd") = {}
    BY <1>0, <1>1 DEF Places
  <2> QED BY <1>0, <1>1, <2>1, MeansIs DEF OperandOf, TermOf, AndMeans
<1>2. CASE i # j
  <2>1. PICK g : /\ Means(s, i, j) = Meaning(s, g, i, j)
                 /\ \A x, y : IsPart(s, x, y) /\ y - x < j - i => g[<<x, y>>] = Means(s, x, y)
    BY <1>2, MeansIs
  <2>2. OperandOf(s, i, j) = Operands(s, g, i, j)
    BY <2>1 DEF OperandOf, Meaning
  <2>3. TermOf(s, i, j) = Operands(s, g, i, j)
          \cup UNION {{n1 \cap n2 : n1 \in g[<<i, k - 1>>].term, n2 \in g[<<k, j>>].operand}
                                  : k \in Places(s, i, j, "KeywordAnd")}
    BY <2>1 DEF TermOf, Meaning
  <2>4. \A k \in Places(s, i, j, "KeywordAnd") :
          g[<<i, k - 1>>].term = TermOf(s, i, k - 1) /\ g[<<k, j>>].operand = OperandOf(s, k, j)
    BY <2>1, PlaceIs DEF TermOf, OperandOf
  <2> DEFINE both(k) == {n1 \cap n2 : n1 \in g[<<i, k - 1>>].term, n2 \in g[<<k, j>>].operand}
  <2> DEFINE all == UNION {both(k) : k \in Places(s, i, j, "KeywordAnd")}
  <2>5. m \in all
        <=> \E k \in Places(s, i, j, "KeywordAnd") :
              \E n1 \in g[<<i, k - 1>>].term : \E n2 \in g[<<k, j>>].operand : m = n1 \cap n2
    <3>1. \A k : m \in both(k) <=>
            \E n1 \in g[<<i, k - 1>>].term : \E n2 \in g[<<k, j>>].operand : m = n1 \cap n2
      OBVIOUS
    <3> HIDE DEF both
    <3> QED BY <3>1
  <2>6. AndMeans(s, i, j, m) <=> \E k \in Places(s, i, j, "KeywordAnd") :
              \E n1 \in g[<<i, k - 1>>].term : \E n2 \in g[<<k, j>>].operand : m = n1 \cap n2
    BY <2>4, Zenon DEF AndMeans
  <2>7. TermOf(s, i, j) = OperandOf(s, i, j) \cup all
    BY <2>2, <2>3
  <2> HIDE DEF all
  <2>8. m \in all <=> AndMeans(s, i, j, m)
    BY <2>5, <2>6
  <2> QED BY <2>7, <2>8
<1> QED BY <1>1, <1>2

LEMMA ExpressionIs ==
  ASSUME NEW s, Len(s) \in Nat, NEW i, NEW j, IsPart(s, i, j), NEW m
  PROVE  m \in ExpressionOf(s, i, j) <=> m \in TermOf(s, i, j) \/ OrMeans(s, i, j, m)
<1>0. i \in Nat /\ j \in Nat /\ i <= j
  BY DEF IsPart
<1>1. CASE i = j
  <2>1. Places(s, i, j, "KeywordOr") = {}
    BY <1>0, <1>1 DEF Places
  <2> QED BY <1>0, <1>1, <2>1, MeansIs DEF ExpressionOf, TermOf, OrMeans
<1>2. CASE i # j
  <2>1. PICK g : /\ Means(s, i, j) = Meaning(s, g, i, j)
                 /\ \A x, y : IsPart(s, x, y) /\ y - x < j - i => g[<<x, y>>] = Means(s, x, y)
    BY <1>2, MeansIs
  <2> DEFINE ands == UNION {{n1 \cap n2 : n1 \in g[<<i, k - 1>>].term, n2 \in g[<<k, j>>].operand}
                            : k \in Places(s, i, j, "KeywordAnd")}
             ors == UNION {{n1 \cup n2 : n1 \in g[<<i, k - 1>>].expression, n2 \in g[<<k, j>>].term}
                           : k \in Places(s, i, j, "KeywordOr")}
             meant == Operands(s, g, i, j)
  <2>2. /\ TermOf(s, i, j) = meant \cup ands
        /\ ExpressionOf(s, i, j) = (meant \cup ands) \cup ors
    <3>1. Meaning(s, g, i, j) = [operand |-> meant, term |-> meant \cup ands,
                                 expression |-> (meant \cup ands) \cup ors]
      BY DEF Meaning
    <3> HIDE DEF ands, ors, meant
    <3> QED BY <2>1, <3>1 DEF TermOf, ExpressionOf
  <2>3. ExpressionOf(s, i, j) = TermOf(s, i, j)
          \cup UNION {{n1 \cup n2 : n1 \in g[<<i, k - 1>>].expression, n2 \in g[<<k, j>>].term}
                                  : k \in Places(s, i, j, "KeywordOr")}
    BY <2>2
  <2>4. \A k \in Places(s, i, j, "KeywordOr") :
          g[<<i, k - 1>>].expression = ExpressionOf(s, i, k - 1) /\ g[<<k, j>>].term = TermOf(s, k, j)
    BY <2>1, PlaceIs DEF TermOf, ExpressionOf
  <2> DEFINE both(k) == {n1 \cup n2 : n1 \in g[<<i, k - 1>>].expression, n2 \in g[<<k, j>>].term}
  <2> DEFINE all == UNION {both(k) : k \in Places(s, i, j, "KeywordOr")}
  <2>5. m \in all
        <=> \E k \in Places(s, i, j, "KeywordOr") :
              \E n1 \in g[<<i, k - 1>>].expression : \E n2 \in g[<<k, j>>].term : m = n1 \cup n2
    <3>1. \A k : m \in both(k) <=>
            \E n1 \in g[<<i, k - 1>>].expression : \E n2 \in g[<<k, j>>].term : m = n1 \cup n2
      OBVIOUS
    <3> HIDE DEF both
    <3> QED BY <3>1
  <2>6. OrMeans(s, i, j, m) <=> \E k \in Places(s, i, j, "KeywordOr") :
              \E n1 \in g[<<i, k - 1>>].expression : \E n2 \in g[<<k, j>>].term : m = n1 \cup n2
    BY <2>4, Zenon DEF OrMeans
  <2>7. ExpressionOf(s, i, j) = TermOf(s, i, j) \cup all
    BY <2>3
  <2> HIDE DEF all
  <2>8. m \in all <=> OrMeans(s, i, j, m)
    BY <2>5, <2>6
  <2> QED BY <2>7, <2>8
<1> QED BY <1>1, <1>2

------------------------------------------------------------------------------
(* The shape of a text that has a meaning *)

Count(s, k, n) == Cardinality({i \in 1..n : s[i].token = k})

LEMMA CountGrows ==
  ASSUME NEW s, NEW n \in Nat, NEW k
  PROVE  /\ Count(s, k, n) \in Nat
         /\ Count(s, k, n + 1) = Count(s, k, n) + (IF s[n + 1].token = k THEN 1 ELSE 0)
<1> DEFINE A == {i \in 1..n : s[i].token = k}
           B == {i \in 1..(n + 1) : s[i].token = k}
<1>1. IsFiniteSet(A)
  <2>1. IsFiniteSet(1..n) /\ A \in SUBSET (1..n)
    BY FS_Interval
  <2> QED BY <2>1, FS_Subset
<1>2. B = IF s[n + 1].token = k THEN A \cup {n + 1} ELSE A
  OBVIOUS
<1>3. n + 1 \notin A
  OBVIOUS
<1> HIDE DEF A, B
<1>4. Cardinality(A) \in Nat
  BY <1>1, FS_CardinalityType
<1>5. CASE s[n + 1].token = k
  <2>1. B = A \cup {n + 1} /\ Cardinality(A \cup {n + 1}) = Cardinality(A) + 1
    BY <1>1, <1>2, <1>3, <1>5, FS_AddElement
  <2> QED BY <1>4, <1>5, <2>1 DEF A, B, Count
<1>6. CASE s[n + 1].token # k
  <2>1. B = A
    BY <1>2, <1>6
  <2> QED BY <1>4, <1>6, <2>1 DEF A, B, Count
<1> QED BY <1>5, <1>6

Rise(t) == IF t = "SepLpar" THEN 1 ELSE IF t = "SepRpar" THEN -1 ELSE 0

LEMMA HeightIs ==
  ASSUME NEW s
  PROVE  /\ Height(s, 0) = 0
         /\ \A n \in Nat : Height(s, n) \in Int /\ Height(s, n + 1) = Height(s, n) + Rise(s[n + 1].token)
<1>1. Height(s, 0) = 0
  <2>1. {i \in 1..0 : s[i].token = "SepLpar"} = {} /\ {i \in 1..0 : s[i].token = "SepRpar"} = {}
    OBVIOUS
  <2> QED BY <2>1, FS_EmptySet DEF Height
<1>2. ASSUME NEW n \in Nat
      PROVE  Height(s, n) \in Int /\ Height(s, n + 1) = Height(s, n) + Rise(s[n + 1].token)
  <2>1. /\ Count(s, "SepLpar", n) \in Nat
        /\ Count(s, "SepLpar", n + 1) = Count(s, "SepLpar", n) + (IF s[n + 1].token = "SepLpar" THEN 1 ELSE 0)
    BY CountGrows
  <2>2. /\ Count(s, "SepRpar", n) \in Nat
        /\ Count(s, "SepRpar", n + 1) = Count(s, "SepRpar", n) + (IF s[n + 1].token = "SepRpar" THEN 1 ELSE 0)
    BY CountGrows
  <2>3. /\ Height(s, n) = Count(s, "SepLpar", n) - Count(s, "SepRpar", n)
        /\ Height(s, n + 1) = Count(s, "SepLpar", n + 1) - Count(s, "SepRpar", n + 1)
    BY DEF Height, Count
  <2> QED BY <2>1, <2>2, <2>3 DEF Rise
<1> QED BY <1>1, <1>2

Starter == {"Identifier", "KeywordNot", "SepLpar"} \cup Quantifier
Ender == Operand \cup {"SepRpar"}
Plain == {"KeywordAnd", "KeywordOr"} \cup Starter \cup Ender

\* The tokens x - 1 and x may follow each other.
Neighbours(s, x) ==
  /\ s[x - 1].token \in Precedes(s[x].token)
  /\ s[x - 1].token = "SepLpar" => s[x].token # "SepRpar"

\* An entry that is there, and a quantified one with its quantifier.
InPlace(s, i, x) ==
  /\ s[x].token \in Plain
  /\ s[x].token = "Identifier" => s[x].value # {}
  /\ s[x].token \in Operand \ {"Identifier"} =>
       x > i + 1 /\ s[x - 1].token \in Quantifier /\ Named(s[x]) # {}

Whole(s, i, j) ==
  /\ i < j /\ s[i + 1].token \in Starter /\ s[j].token \in Ender
  /\ Height(s, j) = Height(s, i)
  /\ \A x \in i..j : Height(s, x) >= Height(s, i)
  /\ \A x \in (i + 2)..j : Neighbours(s, x)
  /\ \A x \in (i + 1)..j : InPlace(s, i, x)

\* None of the tokens of the part has the height of what comes before it.
Quiet(s, h, i, j, token) == \A x \in (i + 1)..j : s[x].token = token => Height(s, x) # h

Shaped(s, i, j) ==
  /\ OperandOf(s, i, j) # {} => Whole(s, i, j) /\ Quiet(s, Height(s, i), i, j, "KeywordAnd")
                                /\ Quiet(s, Height(s, i), i, j, "KeywordOr")
  /\ TermOf(s, i, j) # {} => Whole(s, i, j) /\ Quiet(s, Height(s, i), i, j, "KeywordOr")
  /\ ExpressionOf(s, i, j) # {} => Whole(s, i, j)

LEMMA StarterFollows ==
  /\ \A t \in Starter : "SepLpar" \in Precedes(t) /\ "KeywordAnd" \in Precedes(t) /\ "KeywordOr" \in Precedes(t)
                        /\ t # "SepRpar"
  /\ \A t \in Starter \ {"KeywordNot"} : "KeywordNot" \in Precedes(t)
  /\ \A t \in Ender : t # "SepLpar" /\ t \in Precedes("SepRpar") /\ t \in Precedes("KeywordAnd")
                      /\ t \in Precedes("KeywordOr") /\ t \in Precedes("LitEof")
  /\ \A t \in Operand : \A u \in Quantifier : u \in Precedes(t)
<1>1. \A t \in Starter : "SepLpar" \in Precedes(t) /\ "KeywordAnd" \in Precedes(t) /\ "KeywordOr" \in Precedes(t)
                        /\ t # "SepRpar"
  BY DEF Starter, Precedes, Opening, Quantifier
<1>2. \A t \in Starter \ {"KeywordNot"} : "KeywordNot" \in Precedes(t)
  BY DEF Starter, Precedes, Opening, Quantifier
<1>3. \A t \in Ender : t # "SepLpar" /\ t \in Precedes("SepRpar") /\ t \in Precedes("KeywordAnd")
                      /\ t \in Precedes("KeywordOr") /\ t \in Precedes("LitEof")
  BY DEF Ender, Precedes, Operand, Quantifier
<1>4. \A t \in Operand : \A u \in Quantifier : u \in Precedes(t)
  BY DEF Precedes, Operand, Quantifier
<1> QED BY <1>1, <1>2, <1>3, <1>4

\* Two parts with a connective between them.
LEMMA JoinIsWhole ==
  ASSUME NEW s, NEW i \in Nat, NEW k \in Nat, NEW j \in Nat,
         s[k].token \in {"KeywordAnd", "KeywordOr"}, Whole(s, i, k - 1), Whole(s, k, j)
  PROVE  Whole(s, i, j) /\ Height(s, k) = Height(s, i) /\ Height(s, k - 1) = Height(s, i) /\ i < k /\ k < j
<1>1. i < k - 1 /\ k < j /\ k - 1 \in Nat /\ (k - 1) + 1 = k
  BY DEF Whole
<1>2. Height(s, k) = Height(s, k - 1)
  BY <1>1, HeightIs DEF Rise
<1>3. Height(s, j) = Height(s, i) /\ Height(s, k) = Height(s, i) /\ Height(s, k - 1) = Height(s, i)
  BY <1>2 DEF Whole
<1>4. \A x \in i..j : Height(s, x) >= Height(s, i)
  <2>1. \A x \in i..(k - 1) : Height(s, x) >= Height(s, i)
    BY DEF Whole
  <2>2. \A x \in k..j : Height(s, x) >= Height(s, i)
    BY <1>3 DEF Whole
  <2> QED BY <1>1, <2>1, <2>2
<1>5. \A x \in (i + 2)..j : Neighbours(s, x)
  <2>1. \A x \in (i + 2)..(k - 1) : Neighbours(s, x)
    BY DEF Whole
  <2>2. \A x \in (k + 2)..j : Neighbours(s, x)
    BY DEF Whole
  <2>3. s[k - 1].token \in Ender /\ s[k + 1].token \in Starter
    BY DEF Whole
  <2>4. Neighbours(s, k)
    BY <2>3, StarterFollows DEF Neighbours
  <2>5. Neighbours(s, k + 1)
    <3>1. (k + 1) - 1 = k
      OBVIOUS
    <3> QED BY <2>3, <3>1, StarterFollows DEF Neighbours
  <2> QED BY <1>1, <2>1, <2>2, <2>4, <2>5
<1>6. \A x \in (i + 1)..j : InPlace(s, i, x)
  <2>1. \A x \in (i + 1)..(k - 1) : InPlace(s, i, x)
    BY DEF Whole
  <2>2. \A x \in (k + 1)..j : InPlace(s, i, x)
    <3> SUFFICES ASSUME NEW x \in (k + 1)..j PROVE InPlace(s, i, x)
      OBVIOUS
    <3>1. InPlace(s, k, x)
      BY DEF Whole
    <3> QED BY <1>1, <3>1 DEF InPlace
  <2>3. InPlace(s, i, k)
    BY DEF InPlace, Plain, Operand
  <2> QED BY <1>1, <2>1, <2>2, <2>3
<1> QED BY <1>1, <1>3, <1>4, <1>5, <1>6 DEF Whole

\* A part with one token before it, of the same height.
LEMMA NotIsWhole ==
  ASSUME NEW s, NEW i \in Nat, NEW j \in Nat, s[i + 1].token = "KeywordNot", s[i + 2].token # "KeywordNot",
         Whole(s, i + 1, j)
  PROVE  Whole(s, i, j) /\ Height(s, i + 1) = Height(s, i)
<1>1. i + 1 < j
  BY DEF Whole
<1>2. Height(s, i + 1) = Height(s, i)
  <2>1. Rise(s[i + 1].token) = 0
    BY DEF Rise
  <2> QED BY <2>1, HeightIs
<1>3. \A x \in i..j : Height(s, x) >= Height(s, i)
  <2>1. \A x \in (i + 1)..j : Height(s, x) >= Height(s, i)
    BY <1>2 DEF Whole
  <2>2. Height(s, i) \in Int
    BY HeightIs
  <2> QED BY <1>1, <2>1, <2>2
<1>4. \A x \in (i + 2)..j : Neighbours(s, x)
  <2>1. \A x \in ((i + 1) + 2)..j : Neighbours(s, x)
    BY DEF Whole
  <2>2. s[i + 2].token \in Starter \ {"KeywordNot"} /\ (i + 2) - 1 = i + 1
    <3>1. (i + 1) + 1 = i + 2
      OBVIOUS
    <3> QED BY <3>1 DEF Whole
  <2>3. Neighbours(s, i + 2)
    BY <2>2, StarterFollows DEF Neighbours
  <2> QED BY <2>1, <2>3
<1>5. \A x \in (i + 1)..j : InPlace(s, i, x)
  <2>1. \A x \in (i + 2)..j : InPlace(s, i, x)
    <3> SUFFICES ASSUME NEW x \in (i + 2)..j PROVE InPlace(s, i, x)
      OBVIOUS
    <3>1. InPlace(s, i + 1, x)
      BY DEF Whole
    <3> QED BY <3>1 DEF InPlace
  <2>2. InPlace(s, i, i + 1)
    BY DEF InPlace, Plain, Starter, Operand
  <2> QED BY <2>1, <2>2
<1>6. Height(s, j) = Height(s, i) /\ s[j].token \in Ender
  BY <1>2 DEF Whole
<1> QED BY <1>1, <1>2, <1>3, <1>4, <1>5, <1>6 DEF Whole, Starter

LEMMA GroupIsWhole ==
  ASSUME NEW s, NEW i \in Nat, NEW j \in Nat, s[i + 1].token = "SepLpar", s[j].token = "SepRpar",
         Whole(s, i + 1, j - 1)
  PROVE  Whole(s, i, j) /\ \A x \in (i + 1)..(j - 1) : Height(s, x) > Height(s, i)
<1>1. i + 1 < j - 1 /\ (j - 1) + 1 = j /\ j - 1 \in Nat
  BY DEF Whole
<1>2. /\ Height(s, i) \in Int /\ Height(s, i + 1) = Height(s, i) + 1
      /\ Height(s, j - 1) \in Int /\ Height(s, j) = Height(s, j - 1) - 1
  BY <1>1, HeightIs DEF Rise
<1>3. Height(s, j) = Height(s, i)
  BY <1>2 DEF Whole
<1>4. \A x \in (i + 1)..(j - 1) : Height(s, x) > Height(s, i)
  <2> SUFFICES ASSUME NEW x \in (i + 1)..(j - 1) PROVE Height(s, x) > Height(s, i)
    OBVIOUS
  <2>1. x \in Nat /\ Height(s, x) >= Height(s, i + 1)
    BY DEF Whole
  <2>2. Height(s, x) \in Int
    BY <2>1, HeightIs
  <2> QED BY <1>2, <2>1, <2>2
<1>5. \A x \in i..j : Height(s, x) >= Height(s, i)
  <2> SUFFICES ASSUME NEW x \in i..j PROVE Height(s, x) >= Height(s, i)
    OBVIOUS
  <2>1. CASE x = i \/ x = j
    BY <1>2, <1>3, <2>1
  <2>2. CASE x # i /\ x # j
    <3>1. x \in (i + 1)..(j - 1) /\ x \in Nat
      BY <2>2
    <3>2. Height(s, x) > Height(s, i) /\ Height(s, x) \in Int
      BY <1>4, <3>1, HeightIs
    <3> QED BY <1>2, <3>2
  <2> QED BY <2>1, <2>2
<1>6. \A x \in (i + 2)..j : Neighbours(s, x)
  <2>1. \A x \in ((i + 1) + 2)..(j - 1) : Neighbours(s, x)
    BY DEF Whole
  <2>2. s[i + 2].token \in Starter /\ (i + 2) - 1 = i + 1 /\ s[j - 1].token \in Ender
    <3>1. (i + 1) + 1 = i + 2
      OBVIOUS
    <3> QED BY <3>1 DEF Whole
  <2>3. Neighbours(s, i + 2)
    BY <2>2, StarterFollows DEF Neighbours
  <2>4. Neighbours(s, j)
    BY <2>2, StarterFollows DEF Neighbours
  <2> QED BY <1>1, <2>1, <2>3, <2>4
<1>7. \A x \in (i + 1)..j : InPlace(s, i, x)
  <2>1. \A x \in (i + 2)..(j - 1) : InPlace(s, i, x)
    <3> SUFFICES ASSUME NEW x \in (i + 2)..(j - 1) PROVE InPlace(s, i, x)
      OBVIOUS
    <3>1. InPlace(s, i + 1, x)
      BY DEF Whole
    <3> QED BY <3>1 DEF InPlace
  <2>2. InPlace(s, i, i + 1) /\ InPlace(s, i, j)
    BY DEF InPlace, Plain, Starter, Ender, Operand
  <2> QED BY <1>1, <2>1, <2>2
<1> QED BY <1>1, <1>3, <1>4, <1>5, <1>6, <1>7 DEF Whole, Starter, Ender

LEMMA WordIsWhole ==
  ASSUME NEW s, NEW i \in Nat, NEW j \in Nat, NEW m, WordMeans(s, i, j, m)
  PROVE  Whole(s, i, j) /\ \A x \in (i + 1)..j : s[x].token \notin {"KeywordAnd", "KeywordOr"}
<1>1. j = i + 1 /\ s[j].token = "Identifier" /\ s[j].value # {}
  BY DEF WordMeans
<1>2. Height(s, j) = Height(s, i) /\ Height(s, i) \in Int
  BY <1>1, HeightIs DEF Rise
<1>3. \A x \in i..j : Height(s, x) >= Height(s, i)
  BY <1>1, <1>2
<1>4. \A x \in (i + 1)..j : x = j
  BY <1>1
<1>5. InPlace(s, i, j)
  BY <1>1 DEF InPlace, Plain, Starter
<1> QED BY <1>1, <1>2, <1>3, <1>4, <1>5 DEF Whole, Starter, Ender, Operand

LEMMA QuantifiedIsWhole ==
  ASSUME NEW s, NEW i \in Nat, NEW j \in Nat, NEW m, QuantifiedMeans(s, i, j, m)
  PROVE  Whole(s, i, j) /\ \A x \in (i + 1)..j : s[x].token \notin {"KeywordAnd", "KeywordOr"}
<1>1. /\ j = i + 2 /\ j - 1 = i + 1 /\ s[i + 1].token \in Quantifier
      /\ s[j].token \in Operand
      /\ s[j].token = "Identifier" => s[j].value # {}
      /\ s[j].token # "Identifier" => Named(s[j]) # {}
  BY DEF QuantifiedMeans, Operand
<1>2. Rise(s[i + 1].token) = 0 /\ Rise(s[i + 2].token) = 0 /\ i + 1 \in Nat /\ (i + 1) + 1 = i + 2
  BY <1>1 DEF Rise, Quantifier, Operand
<1>3. Height(s, i) \in Int /\ Height(s, i + 1) = Height(s, i) /\ Height(s, j) = Height(s, i)
  BY <1>1, <1>2, HeightIs
<1>4. \A x \in i..j : Height(s, x) >= Height(s, i)
  <2>1. \A x \in i..j : x = i \/ x = i + 1 \/ x = j
    BY <1>1
  <2> QED BY <1>3, <2>1
<1>5. \A x \in (i + 1)..j : x = i + 1 \/ x = j
  BY <1>1
<1>6. InPlace(s, i, j) /\ InPlace(s, i, i + 1)
  BY <1>1 DEF InPlace, Plain, Starter, Ender, Operand, Quantifier
<1>7. \A x \in (i + 1)..j : InPlace(s, i, x)
  BY <1>5, <1>6
<1>8. \A x \in (i + 2)..j : Neighbours(s, x)
  <2>1. s[j - 1].token \in Precedes(s[j].token) /\ s[j - 1].token # "SepLpar"
    BY <1>1, StarterFollows DEF Quantifier
  <2>2. Neighbours(s, j)
    BY <2>1 DEF Neighbours
  <2> QED BY <1>1, <2>2
<1>9. s[i + 1].token \in Starter /\ s[j].token \in Ender /\ i < j
  BY <1>1 DEF Starter, Ender
<1>10. \A x \in (i + 1)..j : s[x].token \notin {"KeywordAnd", "KeywordOr"}
  BY <1>1, <1>5 DEF Quantifier, Operand
<1> QED BY <1>3, <1>4, <1>7, <1>8, <1>9, <1>10 DEF Whole

\* All shorter parts have their shape.
ShorterShaped(s, i, j) == \A x, y : IsPart(s, x, y) /\ y - x < j - i => Shaped(s, x, y)

LEMMA OperandShaped ==
  ASSUME NEW s, Len(s) \in Nat, NEW i, NEW j, IsPart(s, i, j), ShorterShaped(s, i, j), OperandOf(s, i, j) # {}
  PROVE  Whole(s, i, j) /\ Quiet(s, Height(s, i), i, j, "KeywordAnd") /\ Quiet(s, Height(s, i), i, j, "KeywordOr")
<1>0. i \in Nat /\ j \in Nat /\ i <= j /\ j <= Len(s)
  BY DEF IsPart
<1>1. PICK m : OperandMeans(s, i, j, m)
  BY OperandIs
<1>2. CASE WordMeans(s, i, j, m)
  BY <1>0, <1>2, WordIsWhole DEF Quiet
<1>3. CASE QuantifiedMeans(s, i, j, m)
  BY <1>0, <1>3, QuantifiedIsWhole DEF Quiet
<1>4. CASE NotMeans(s, i, j, m)
  <2>1. /\ i < j /\ j # i + 1 /\ s[i + 1].token = "KeywordNot" /\ s[i + 2].token # "KeywordNot"
        /\ OperandOf(s, i + 1, j) # {}
    BY <1>1, <1>4 DEF NotMeans, OperandMeans
  <2>2. IsPart(s, i + 1, j) /\ j - (i + 1) < j - i
    BY <1>0, <2>1 DEF IsPart
  <2>3. Shaped(s, i + 1, j)
    BY <2>2, Zenon DEF ShorterShaped
  <2>4. /\ Whole(s, i + 1, j) /\ Quiet(s, Height(s, i + 1), i + 1, j, "KeywordAnd")
        /\ Quiet(s, Height(s, i + 1), i + 1, j, "KeywordOr")
    BY <2>1, <2>3 DEF Shaped
  <2>5. Whole(s, i, j) /\ Height(s, i + 1) = Height(s, i)
    BY <1>0, <2>1, <2>4, NotIsWhole
  <2>6. \A x \in (i + 1)..j : x = i + 1 \/ x \in ((i + 1) + 1)..j
    BY <1>0
  <2> QED BY <2>1, <2>4, <2>5, <2>6 DEF Quiet
<1>5. CASE GroupMeans(s, i, j, m)
  <2>1. /\ i < j /\ j # i + 1 /\ s[i + 1].token = "SepLpar" /\ s[j].token = "SepRpar"
        /\ ExpressionOf(s, i + 1, j - 1) # {}
    BY <1>1, <1>5 DEF GroupMeans, OperandMeans
  <2>2. IsPart(s, i + 1, j - 1) /\ (j - 1) - (i + 1) < j - i
    BY <1>0, <2>1, SMTT(60) DEF IsPart
  <2>3. Shaped(s, i + 1, j - 1)
    BY <2>2, Zenon DEF ShorterShaped
  <2>4. Whole(s, i + 1, j - 1)
    BY <2>1, <2>3 DEF Shaped
  <2>5. Whole(s, i, j) /\ \A x \in (i + 1)..(j - 1) : Height(s, x) > Height(s, i)
    BY <1>0, <2>1, <2>4, GroupIsWhole
  <2>6. \A x \in (i + 1)..j : x = j \/ (x \in (i + 1)..(j - 1) /\ x \in Nat)
    BY <1>0
  <2>7. Height(s, i) \in Int /\ \A x \in Nat : Height(s, x) \in Int
    BY <1>0, HeightIs
  <2>8. \A x \in (i + 1)..j : x = j \/ Height(s, x) # Height(s, i)
    BY <2>5, <2>6, <2>7
  <2> QED BY <2>1, <2>5, <2>8 DEF Quiet
<1> QED BY <1>1, <1>2, <1>3, <1>4, <1>5 DEF OperandMeans

LEMMA TermShaped ==
  ASSUME NEW s, Len(s) \in Nat, NEW i, NEW j, IsPart(s, i, j), ShorterShaped(s, i, j), TermOf(s, i, j) # {}
  PROVE  Whole(s, i, j) /\ Quiet(s, Height(s, i), i, j, "KeywordOr")
<1>0. i \in Nat /\ j \in Nat /\ i <= j /\ j <= Len(s)
  BY DEF IsPart
<1>1. PICK m : m \in OperandOf(s, i, j) \/ AndMeans(s, i, j, m)
  BY TermIs
<1>2. CASE m \in OperandOf(s, i, j)
  BY <1>2, OperandShaped
<1>3. CASE AndMeans(s, i, j, m)
  <2>1. PICK k \in Places(s, i, j, "KeywordAnd") : TermOf(s, i, k - 1) # {} /\ OperandOf(s, k, j) # {}
    BY <1>3 DEF AndMeans
  <2>2. /\ k \in Nat /\ s[k].token = "KeywordAnd" /\ IsPart(s, i, k - 1) /\ IsPart(s, k, j)
        /\ (k - 1) - i < j - i /\ j - k < j - i
    BY <2>1, PlaceIs
  <2>3. Shaped(s, i, k - 1) /\ Shaped(s, k, j)
    BY <2>2, Zenon DEF ShorterShaped
  <2>4. /\ Whole(s, i, k - 1) /\ Quiet(s, Height(s, i), i, k - 1, "KeywordOr")
        /\ Whole(s, k, j) /\ Quiet(s, Height(s, k), k, j, "KeywordOr")
    BY <2>1, <2>3 DEF Shaped
  <2>5. Whole(s, i, j) /\ Height(s, k) = Height(s, i) /\ k < j
    BY <1>0, <2>2, <2>4, JoinIsWhole
  <2>6. \A x \in (i + 1)..j : x \in (i + 1)..(k - 1) \/ x = k \/ x \in (k + 1)..j
    BY <1>0, <2>2
  <2> QED BY <2>2, <2>4, <2>5, <2>6 DEF Quiet
<1> QED BY <1>1, <1>2, <1>3

LEMMA ExpressionShaped ==
  ASSUME NEW s, Len(s) \in Nat, NEW i, NEW j, IsPart(s, i, j), ShorterShaped(s, i, j), ExpressionOf(s, i, j) # {}
  PROVE  Whole(s, i, j)
<1>0. i \in Nat /\ j \in Nat /\ i <= j /\ j <= Len(s)
  BY DEF IsPart
<1>1. PICK m : m \in TermOf(s, i, j) \/ OrMeans(s, i, j, m)
  BY ExpressionIs
<1>2. CASE m \in TermOf(s, i, j)
  BY <1>2, TermShaped
<1>3. CASE OrMeans(s, i, j, m)
  <2>1. PICK k \in Places(s, i, j, "KeywordOr") : ExpressionOf(s, i, k - 1) # {} /\ TermOf(s, k, j) # {}
    BY <1>3 DEF OrMeans
  <2>2. /\ k \in Nat /\ s[k].token = "KeywordOr" /\ IsPart(s, i, k - 1) /\ IsPart(s, k, j)
        /\ (k - 1) - i < j - i /\ j - k < j - i
    BY <2>1, PlaceIs
  <2>3. Shaped(s, i, k - 1) /\ Shaped(s, k, j)
    BY <2>2, Zenon DEF ShorterShaped
  <2>4. Whole(s, i, k - 1) /\ Whole(s, k, j)
    BY <2>1, <2>3 DEF Shaped
  <2> QED BY <1>0, <2>2, <2>4, JoinIsWhole
<1> QED BY <1>1, <1>2, <1>3

\* Every part that means something has the shape that the parser checks.
LEMMA MeaningIsShaped ==
  ASSUME NEW s, Len(s) \in Nat
  PROVE  \A i, j : IsPart(s, i, j) => Shaped(s, i, j)
<1> DEFINE S == {n \in Nat : \A i, j : IsPart(s, i, j) /\ j - i < n => Shaped(s, i, j)}
<1>1. 0 \in S
  BY DEF IsPart
<1>2. ASSUME NEW n \in Nat, n \in S PROVE n + 1 \in S
  <2> SUFFICES ASSUME NEW i, NEW j, IsPart(s, i, j), j - i < n + 1 PROVE Shaped(s, i, j)
    OBVIOUS
  <2>1. ASSUME NEW x, NEW y, IsPart(s, x, y), y - x < j - i PROVE Shaped(s, x, y)
    <3>1. y - x < n
      BY <2>1 DEF IsPart
    <3> QED BY <1>2, <2>1, <3>1
  <2>2. ShorterShaped(s, i, j)
    BY <2>1, Zenon DEF ShorterShaped
  <2>3. OperandOf(s, i, j) # {} => Whole(s, i, j) /\ Quiet(s, Height(s, i), i, j, "KeywordAnd")
                                /\ Quiet(s, Height(s, i), i, j, "KeywordOr")
    BY <2>2, OperandShaped
  <2>4. TermOf(s, i, j) # {} => Whole(s, i, j) /\ Quiet(s, Height(s, i), i, j, "KeywordOr")
    BY <2>2, TermShaped
  <2>5. ExpressionOf(s, i, j) # {} => Whole(s, i, j)
    BY <2>2, ExpressionShaped
  <2> QED BY <2>3, <2>4, <2>5 DEF Shaped
<1> HIDE DEF S
<1>3. \A n \in Nat : n \in S
  BY <1>1, <1>2, Induction
<1>4. ASSUME NEW i, NEW j, IsPart(s, i, j) PROVE Shaped(s, i, j)
  <2>1. (j - i) + 1 \in S /\ j - i < (j - i) + 1
    BY <1>3, <1>4 DEF IsPart
  <2> QED BY <1>4, <2>1 DEF S
<1> QED BY <1>4

------------------------------------------------------------------------------
(* Which answers the trees give, by those of their branches *)

SomeMatch(bs, e) == \E i \in DOMAIN bs : bs[i][e].matched
AllMatch(bs, e) == \A i \in DOMAIN bs : bs[i][e].matched
AllApply(bs, e) == \A i \in DOMAIN bs : bs[i][e].applicable

LEMMA ReducedMatches ==
  ASSUME NEW bs \in Seq(SaneTree), bs # <<>>, NEW e \in Event
  PROVE  /\ ReducedAnd(bs)[e].matched <=> AllMatch(bs, e)
         /\ ReducedOr(bs)[e].matched <=> SomeMatch(bs, e)
         /\ AllApply(bs, e) => ReducedAnd(bs)[e].applicable /\ ReducedOr(bs)[e].applicable
         /\ AndOf(bs)[e] = ReducedAnd(bs)[e] /\ OrOf(bs)[e] = ReducedOr(bs)[e]
<1> DEFINE a == At(bs, e)
<1>1. a \in Seq(Sane) /\ Len(a) = Len(bs) /\ \A i \in 1..Len(bs) : a[i] = bs[i][e]
  BY AtAnswers
<1>2. DOMAIN bs = 1..Len(bs) /\ Len(bs) \in Nat /\ Len(bs) # 0
  OBVIOUS
<1> HIDE DEF a
<1>3. DOMAIN a = DOMAIN bs /\ a # <<>> /\ \A i \in DOMAIN bs : a[i] = bs[i][e]
  BY <1>1, <1>2
<1>4. ReduceAnd(a) = NodeSimpleAnd(a) /\ ReduceOr(a) = NodeSimpleOr(a)
  BY <1>1, <1>3, ReduceAndChangesNothing, ReduceOrChangesNothing
<1>5. ReducedAnd(bs)[e] = NodeSimpleAnd(a) /\ ReducedOr(bs)[e] = NodeSimpleOr(a)
  BY <1>4 DEF ReducedAnd, ReducedOr, a
<1>6. /\ NodeSimpleAnd(a).matched <=> \A i \in DOMAIN a : a[i].matched
      /\ NodeSimpleOr(a).matched <=> \E i \in DOMAIN a : a[i].matched
  BY <1>1, MatchIsOrderFree
<1>7. (\A i \in DOMAIN a : a[i].applicable) => NodeSimpleAnd(a).applicable
  BY <1>1, SimpleAndCases DEF Matched, Answer
<1>8. (\A i \in DOMAIN a : a[i].applicable) => NodeSimpleOr(a).applicable
  <2>1. 1 \in DOMAIN a
    BY <1>2, <1>3
  <2> QED BY <2>1 DEF NodeSimpleOr, Matched, Answer
<1>9. AndOf(bs)[e] = NodeSimpleAnd(a) /\ OrOf(bs)[e] = NodeSimpleOr(a)
  BY DEF AndOf, OrOf, a
<1> QED BY <1>3, <1>5, <1>6, <1>7, <1>8, <1>9 DEF AllMatch, SomeMatch, AllApply

LEMMA MoreMatches ==
  ASSUME NEW bs \in Seq(SaneTree), NEW b \in SaneTree, NEW e \in Event
  PROVE  /\ Append(bs, b) \in Seq(SaneTree) /\ Append(bs, b) # <<>>
         /\ AllMatch(Append(bs, b), e) <=> AllMatch(bs, e) /\ b[e].matched
         /\ SomeMatch(Append(bs, b), e) <=> SomeMatch(bs, e) \/ b[e].matched
         /\ AllApply(Append(bs, b), e) <=> AllApply(bs, e) /\ b[e].applicable
<1> DEFINE t == Append(bs, b)
<1>1. t \in Seq(SaneTree) /\ DOMAIN bs = 1..Len(bs) /\ Len(bs) \in Nat /\ DOMAIN t = 1..(Len(bs) + 1)
  OBVIOUS
<1>2. t[Len(bs) + 1] = b /\ \A i \in 1..Len(bs) : t[i] = bs[i]
  OBVIOUS
<1>3. t # <<>>
  BY <1>1
<1> HIDE DEF t
<1>4. \A i \in DOMAIN t : i = Len(bs) + 1 \/ i \in DOMAIN bs
  BY <1>1
<1>5. \A i \in DOMAIN bs : i \in DOMAIN t
  BY <1>1
<1>6. Len(bs) + 1 \in DOMAIN t
  BY <1>1
<1>7. AllMatch(t, e) <=> AllMatch(bs, e) /\ b[e].matched
  BY <1>1, <1>2, <1>4, <1>5, <1>6 DEF AllMatch
<1>8. SomeMatch(t, e) <=> SomeMatch(bs, e) \/ b[e].matched
  BY <1>1, <1>2, <1>4, <1>5, <1>6 DEF SomeMatch
<1>9. AllApply(t, e) <=> AllApply(bs, e) /\ b[e].applicable
  BY <1>1, <1>2, <1>4, <1>5, <1>6 DEF AllApply
<1> QED BY <1>1, <1>3, <1>7, <1>8, <1>9 DEF t

LEMMA NegationMatches ==
  ASSUME NEW b \in SaneTree, NEW e \in Event
  PROVE  /\ b[e].applicable => (Negated(b)[e].matched <=> ~b[e].matched)
         /\ Negated(b)[e].applicable <=> b[e].applicable
<1>1. Negated(b)[e] = NodeNot(b[e]) /\ b[e] \in Sane
  BY DEF Negated, SaneTree
<1>2. PICK r : r = b[e]
  OBVIOUS
<1>3. r \in Sane /\ Negated(b)[e] = NodeNot(r)
  BY <1>1, <1>2
<1>4. CASE r.applicable
  <2>1. NodeNot(r) = [matched |-> ~r.matched, applicable |-> r.applicable]
    BY <1>4 DEF NodeNot, Answer
  <2>2. NodeNot(r).matched = ~r.matched /\ NodeNot(r).applicable = r.applicable
    BY <2>1
  <2> QED BY <1>2, <1>3, <1>4, <2>2
<1>5. CASE ~r.applicable
  <2>1. NodeNot(r) = r
    BY <1>5 DEF NodeNot
  <2> QED BY <1>2, <1>3, <1>5, <2>1
<1> QED BY <1>4, <1>5

------------------------------------------------------------------------------
(* How a term and an expression end *)

\* The last connective of the part, outside of its groups, is p, or there is none.
LastIs(s, b, p, c, connective) ==
  /\ p \in Nat /\ b <= p /\ p < c
  /\ p = b \/ (s[p].token = connective /\ Height(s, p) = Height(s, b))
  /\ Quiet(s, Height(s, b), p, c, connective)

LEMMA ExpressionEnds ==
  ASSUME NEW s, Len(s) \in Nat, NEW b, NEW p, NEW c, IsPart(s, b, c),
         LastIs(s, b, p, c, "KeywordOr"), NEW m \in ExpressionOf(s, b, c)
  PROVE  \/ p = b /\ m \in TermOf(s, p, c)
         \/ /\ p > b
            /\ \E n1 \in ExpressionOf(s, b, p - 1) : \E n2 \in TermOf(s, p, c) : m = n1 \cup n2
<1>0. b \in Nat /\ c \in Nat /\ c <= Len(s)
  BY DEF IsPart
<1> USE DEF LastIs
<1>1. CASE m \in TermOf(s, b, c)
  <2>1. Quiet(s, Height(s, b), b, c, "KeywordOr")
    BY <1>1, MeaningIsShaped DEF Shaped
  <2>2. p # b => p \in (b + 1)..c
    BY <1>0
  <2>3. p = b
    BY <2>1, <2>2 DEF Quiet
  <2> QED BY <1>1, <2>3
<1>2. CASE OrMeans(s, b, c, m)
  <2>1. PICK k \in Places(s, b, c, "KeywordOr") :
              \E n1 \in ExpressionOf(s, b, k - 1) : \E n2 \in TermOf(s, k, c) : m = n1 \cup n2
    BY <1>2 DEF OrMeans
  <2>2. /\ k \in Nat /\ s[k].token = "KeywordOr" /\ b < k /\ k <= c
        /\ IsPart(s, b, k - 1) /\ IsPart(s, k, c)
    BY <2>1, PlaceIs
  <2>3. Whole(s, b, k - 1) /\ Whole(s, k, c) /\ Quiet(s, Height(s, k), k, c, "KeywordOr")
    BY <2>1, <2>2, MeaningIsShaped DEF Shaped
  <2>4. Height(s, k) = Height(s, b)
    BY <1>0, <2>2, <2>3, JoinIsWhole
  <2>5. k <= p
    <3>1. k > p => k \in (p + 1)..c
      BY <1>0, <2>2
    <3> QED BY <2>2, <2>4, <3>1 DEF Quiet
  <2>6. p <= k
    <3>1. k < p => p \in (k + 1)..c /\ p # b
      BY <1>0, <2>2
    <3> QED BY <2>2, <2>3, <2>4, <3>1 DEF Quiet
  <2>7. k = p
    BY <2>2, <2>5, <2>6
  <2> QED BY <2>1, <2>2, <2>7
<1> QED BY <1>1, <1>2, ExpressionIs

LEMMA TermEnds ==
  ASSUME NEW s, Len(s) \in Nat, NEW p, NEW o, NEW c, IsPart(s, p, c),
         LastIs(s, p, o, c, "KeywordAnd"), NEW m \in TermOf(s, p, c)
  PROVE  \/ o = p /\ m \in OperandOf(s, o, c)
         \/ /\ o > p
            /\ \E n1 \in TermOf(s, p, o - 1) : \E n2 \in OperandOf(s, o, c) : m = n1 \cap n2
<1>0. p \in Nat /\ c \in Nat /\ c <= Len(s)
  BY DEF IsPart
<1> USE DEF LastIs
<1>1. CASE m \in OperandOf(s, p, c)
  <2>1. Quiet(s, Height(s, p), p, c, "KeywordAnd")
    BY <1>1, MeaningIsShaped DEF Shaped
  <2>2. o # p => o \in (p + 1)..c
    BY <1>0
  <2>3. o = p
    BY <2>1, <2>2 DEF Quiet
  <2> QED BY <1>1, <2>3
<1>2. CASE AndMeans(s, p, c, m)
  <2>1. PICK k \in Places(s, p, c, "KeywordAnd") :
              \E n1 \in TermOf(s, p, k - 1) : \E n2 \in OperandOf(s, k, c) : m = n1 \cap n2
    BY <1>2 DEF AndMeans
  <2>2. /\ k \in Nat /\ s[k].token = "KeywordAnd" /\ p < k /\ k <= c
        /\ IsPart(s, p, k - 1) /\ IsPart(s, k, c)
    BY <2>1, PlaceIs
  <2>3. Whole(s, p, k - 1) /\ Whole(s, k, c) /\ Quiet(s, Height(s, k), k, c, "KeywordAnd")
    BY <2>1, <2>2, MeaningIsShaped DEF Shaped
  <2>4. Height(s, k) = Height(s, p)
    BY <1>0, <2>2, <2>3, JoinIsWhole
  <2>5. k <= o
    <3>1. k > o => k \in (o + 1)..c
      BY <1>0, <2>2
    <3> QED BY <2>2, <2>4, <3>1 DEF Quiet
  <2>6. o <= k
    <3>1. k < o => o \in (k + 1)..c /\ o # p
      BY <1>0, <2>2
    <3> QED BY <2>2, <2>3, <2>4, <3>1 DEF Quiet
  <2>7. k = o
    BY <2>2, <2>5, <2>6
  <2> QED BY <2>1, <2>2, <2>7
<1> QED BY <1>1, <1>2, TermIs

------------------------------------------------------------------------------
(* A call of new_branch() *)

\* The events for which the tree has to answer as the condition means.
Asked(s, e) == Complete(e) \/ NegationFree(s)

\* A tree, the AND of trees and the OR of trees answer as each of the meanings M.
Fits(s, b, M) == \A m \in M : \A e \in Event : Asked(s, e) => (b[e].matched <=> e \in m)
AllFit(s, bs, M) == \A m \in M : \A e \in Event : Asked(s, e) => (AllMatch(bs, e) <=> e \in m)
SomeFit(s, bs, M) == \A m \in M : \A e \in Event : Asked(s, e) => (SomeMatch(bs, e) <=> e \in m)

\* A call that began after the token b and has come to the token c, both outside of
\* any group that it contains.
Framed(s, f, b, c) ==
  /\ s \in Seq(Tokens) /\ f \in SaneFrame /\ IsPart(s, b, c)
  /\ b # 0 => s[b].token = "SepLpar"
  /\ Height(s, c) = Height(s, b)
  /\ \A e \in Event : Complete(e) => AllApply(f.and, e) /\ AllApply(f.or, e)

\* The call's alternatives up to the last `or`, p.
Alternatives(s, f, b, p, c) ==
  /\ p \in b..c
  /\ \/ p = b /\ f.or = <<>>
     \/ /\ p > b /\ s[p].token = "KeywordOr" /\ Height(s, p) = Height(s, b)
        /\ SomeFit(s, f.or, ExpressionOf(s, b, p - 1))
  /\ Quiet(s, Height(s, b), p, c, "KeywordOr")

\* The operands since then up to the last `and`, o.
Conjuncts(s, f, b, p, o, c) ==
  /\ o \in p..c
  /\ \/ o = p /\ f.and = <<>>
     \/ /\ o > p /\ s[o].token = "KeywordAnd" /\ Height(s, o) = Height(s, b)
        /\ AllFit(s, f.and, TermOf(s, p, o - 1))
  /\ Quiet(s, Height(s, b), o, c, "KeywordAnd")

\* What has come of an operand: a `not`, a quantifier, or both.
Pending(s, f, o, q, c) ==
  /\ \/ q = o /\ ~f.negated
     \/ q = o + 1 /\ q <= c /\ s[q].token = "KeywordNot" /\ f.negated
  /\ c = q \/ (c = q + 1 /\ s[c].token \in Quantifier /\ f.wildcard = s[c].token)

\* The call awaits an operand, or follows one.
Awaits(s, f, b, c) ==
  /\ Framed(s, f, b, c)
  /\ \E p, o, q \in Nat : Alternatives(s, f, b, p, c) /\ Conjuncts(s, f, b, p, o, c) /\ Pending(s, f, o, q, c)
Follows(s, f, b, c) ==
  /\ Framed(s, f, b, c) /\ ~f.negated /\ f.and # <<>> /\ s[c].token \in Ender
  /\ \E p \in Nat : p < c /\ Alternatives(s, f, b, p, c) /\ AllFit(s, f.and, TermOf(s, p, c))

LEMMA QuietOn ==
  ASSUME NEW s, NEW h, NEW i \in Nat, NEW c \in Nat, NEW d \in Nat, NEW t, i <= c,
         Quiet(s, h, i, c, t), Quiet(s, h, c, d, t)
  PROVE  Quiet(s, h, i, d, t)
<1>1. \A x \in (i + 1)..d : x \in (i + 1)..c \/ x \in (c + 1)..d
  OBVIOUS
<1> QED BY <1>1 DEF Quiet

LEMMA QuietOver ==
  ASSUME NEW s, NEW h, NEW c \in Nat, NEW t, s[c + 1].token # t
  PROVE  Quiet(s, h, c, c + 1, t) /\ Quiet(s, h, c, c, t)
<1>1. (\A x \in (c + 1)..(c + 1) : x = c + 1) /\ (\A x \in (c + 1)..c : FALSE)
  OBVIOUS
<1> QED BY <1>1 DEF Quiet

\* Before an operand come a connective, a `not`, a quantifier or the call's beginning.
LEMMA AwaitsAfter ==
  ASSUME NEW s, NEW f, NEW b, NEW c, Awaits(s, f, b, c)
  PROVE  c = 0 \/ s[c].token \in {"SepLpar", "KeywordAnd", "KeywordOr", "KeywordNot"} \cup Quantifier
<1>1. PICK p, o, q \in Nat : Alternatives(s, f, b, p, c) /\ Conjuncts(s, f, b, p, o, c) /\ Pending(s, f, o, q, c)
  BY DEF Awaits
<1>2. p = b \/ s[p].token = "KeywordOr"
  BY <1>1 DEF Alternatives
<1>3. o = p \/ s[o].token = "KeywordAnd"
  BY <1>1 DEF Conjuncts
<1>4. q = o \/ s[q].token = "KeywordNot"
  BY <1>1 DEF Pending
<1>5. c = q \/ s[c].token \in Quantifier
  BY <1>1 DEF Pending
<1>6. b = 0 \/ s[b].token = "SepLpar"
  BY DEF Awaits, Framed
<1> QED BY <1>2, <1>3, <1>4, <1>5, <1>6

\* The branches of a call that follows an operand answer as what it has read.
LEMMA CallFits ==
  ASSUME NEW s, NEW f, NEW b, NEW c, Follows(s, f, b, c)
  PROVE  /\ Branches(f) = Append(f.or, ReducedAnd(f.and))
         /\ Branches(f) \in Seq(SaneTree) /\ Branches(f) # <<>>
         /\ \A e \in Event : Complete(e) => AllApply(Branches(f), e)
         /\ SomeFit(s, Branches(f), ExpressionOf(s, b, c))
<1>0. /\ s \in Seq(Tokens) /\ IsPart(s, b, c) /\ f.and \in Seq(SaneTree) /\ f.or \in Seq(SaneTree)
      /\ f.and # <<>> /\ \A e \in Event : Complete(e) => AllApply(f.and, e) /\ AllApply(f.or, e)
  BY DEF Follows, Framed, SaneFrame
<1>1. b \in Nat /\ c \in Nat /\ Len(s) \in Nat /\ c <= Len(s) /\ b <= c
  BY <1>0 DEF IsPart
<1>2. PICK p \in Nat : p < c /\ Alternatives(s, f, b, p, c) /\ AllFit(s, f.and, TermOf(s, p, c))
  BY DEF Follows
<1>3. PICK last : last = ReducedAnd(f.and)
  OBVIOUS
<1>4. Branches(f) = Append(f.or, last) /\ last \in SaneTree
  BY <1>0, <1>3, TreesAreSane DEF Branches
<1>5. Branches(f) \in Seq(SaneTree) /\ Branches(f) # <<>>
  BY <1>0, <1>4
<1>6. ASSUME NEW e \in Event
      PROVE  /\ last[e].matched <=> AllMatch(f.and, e)
             /\ AllApply(f.and, e) => last[e].applicable
             /\ SomeMatch(Branches(f), e) <=> SomeMatch(f.or, e) \/ AllMatch(f.and, e)
             /\ AllApply(Branches(f), e) <=> AllApply(f.or, e) /\ last[e].applicable
  <2>1. (last[e].matched <=> AllMatch(f.and, e)) /\ (AllApply(f.and, e) => last[e].applicable)
    BY <1>0, <1>3, ReducedMatches
  <2>2. /\ SomeMatch(Append(f.or, last), e) <=> SomeMatch(f.or, e) \/ last[e].matched
        /\ AllApply(Append(f.or, last), e) <=> AllApply(f.or, e) /\ last[e].applicable
    BY <1>0, <1>4, MoreMatches
  <2> QED BY <1>4, <2>1, <2>2
<1>7. ASSUME NEW m \in ExpressionOf(s, b, c), NEW e \in Event, Asked(s, e)
      PROVE  SomeMatch(Branches(f), e) <=> e \in m
  <2>1. LastIs(s, b, p, c, "KeywordOr")
    BY <1>1, <1>2 DEF Alternatives, LastIs
  <2>2. \/ p = b /\ m \in TermOf(s, p, c)
        \/ /\ p > b
           /\ \E n1 \in ExpressionOf(s, b, p - 1) : \E n2 \in TermOf(s, p, c) : m = n1 \cup n2
    BY <1>0, <1>1, <1>2, <2>1, ExpressionEnds
  <2>3. CASE p = b /\ m \in TermOf(s, p, c)
    <3>1. AllMatch(f.and, e) <=> e \in m
      BY <1>2, <1>7, <2>3 DEF AllFit
    <3>2. f.or = <<>>
      BY <1>2, <2>3 DEF Alternatives
    <3>3. ~SomeMatch(f.or, e)
      BY <3>2 DEF SomeMatch
    <3> QED BY <1>6, <3>1, <3>3
  <2>4. CASE p > b /\ \E n1 \in ExpressionOf(s, b, p - 1) : \E n2 \in TermOf(s, p, c) : m = n1 \cup n2
    <3>1. PICK n1 \in ExpressionOf(s, b, p - 1), n2 \in TermOf(s, p, c) : m = n1 \cup n2
      BY <2>4
    <3>2. AllMatch(f.and, e) <=> e \in n2
      BY <1>2, <1>7 DEF AllFit
    <3>3. SomeMatch(f.or, e) <=> e \in n1
      <4>1. SomeFit(s, f.or, ExpressionOf(s, b, p - 1))
        BY <1>1, <1>2, <2>4 DEF Alternatives
      <4> QED BY <1>7, <4>1 DEF SomeFit
    <3> QED BY <1>6, <3>1, <3>2, <3>3
  <2> QED BY <2>2, <2>3, <2>4
<1> QED BY <1>0, <1>3, <1>4, <1>5, <1>6, <1>7 DEF SomeFit

\* The tokens from c + 1 to d are an operand, apart from a `not` and a quantifier before
\* it, for which the parser has made the tree t.
Operates(s, f, b, c, d, t) ==
  /\ d \in Nat /\ c < d /\ d <= Len(s)
  /\ t \in SaneTree /\ \A e \in Event : Complete(e) => t[e].applicable
  /\ s[d].token \in Ender /\ Height(s, d) = Height(s, b)
  /\ Quiet(s, Height(s, b), c, d, "KeywordAnd") /\ Quiet(s, Height(s, b), c, d, "KeywordOr")
  /\ (c = 0 \/ s[c].token \notin Quantifier) => Fits(s, t, OperandOf(s, c, d))
  /\ (c # 0 /\ s[c].token \in Quantifier /\ f.wildcard = s[c].token) => Fits(s, t, OperandOf(s, c - 1, d))

\* The frame g is f with one more branch; its quantifier does not matter any more.
Extends(f, g, t) == g \in SaneFrame /\ g.and = WithBranch(f, t).and /\ g.or = f.or /\ ~g.negated

LEMMA NegationFits ==
  ASSUME NEW s \in Seq(Tokens), NEW o \in Nat, NEW d, IsPart(s, o, d), s[o + 1].token = "KeywordNot", o < d,
         NEW t \in SaneTree, \A e \in Event : Complete(e) => t[e].applicable,
         Fits(s, t, OperandOf(s, o + 1, d))
  PROVE  Fits(s, Negated(t), OperandOf(s, o, d))
<1> SUFFICES ASSUME NEW m \in OperandOf(s, o, d), NEW e \in Event, Asked(s, e)
             PROVE  Negated(t)[e].matched <=> e \in m
  BY DEF Fits
<1>1. Len(s) \in Nat /\ d \in Nat /\ d <= Len(s) /\ o + 1 \in DOMAIN s
  BY DEF IsPart
<1>2. OperandMeans(s, o, d, m)
  BY <1>1, OperandIs
<1>3. NotMeans(s, o, d, m)
  <2>1. ~WordMeans(s, o, d, m)
    BY DEF WordMeans
  <2>2. ~GroupMeans(s, o, d, m) /\ ~QuantifiedMeans(s, o, d, m)
    BY DEF GroupMeans, QuantifiedMeans, Quantifier
  <2> QED BY <1>2, <2>1, <2>2 DEF OperandMeans
<1>4. PICK n \in OperandOf(s, o + 1, d) : m = Event \ n
  BY <1>3 DEF NotMeans
<1>5. t[e].matched <=> e \in n
  BY DEF Fits
<1>6. Complete(e)
  BY <1>1 DEF Asked, NegationFree
<1>7. Negated(t)[e].matched <=> ~t[e].matched
  BY <1>6, NegationMatches
<1> QED BY <1>4, <1>5, <1>7

LEMMA OperandTaken ==
  ASSUME NEW s, NEW f, NEW b, NEW c, NEW d, NEW t, NEW g,
         Awaits(s, f, b, c), Operates(s, f, b, c, d, t), Extends(f, g, t)
  PROVE  Follows(s, g, b, d)
<1>0. /\ s \in Seq(Tokens) /\ f \in SaneFrame /\ IsPart(s, b, c) /\ f.and \in Seq(SaneTree) /\ f.or \in Seq(SaneTree)
      /\ (b # 0 => s[b].token = "SepLpar")
      /\ Height(s, c) = Height(s, b) /\ \A e \in Event : Complete(e) => AllApply(f.and, e) /\ AllApply(f.or, e)
  BY DEF Awaits, Framed, SaneFrame
<1>1. /\ b \in Nat /\ c \in Nat /\ d \in Nat /\ Len(s) \in Nat /\ b <= c /\ c < d /\ d <= Len(s)
      /\ t \in SaneTree
  BY <1>0 DEF IsPart, Operates
<1>2. PICK p, o, q \in Nat : Alternatives(s, f, b, p, c) /\ Conjuncts(s, f, b, p, o, c) /\ Pending(s, f, o, q, c)
  BY DEF Awaits
<1>3. b <= p /\ p <= o /\ o <= q /\ q <= c
  BY <1>1, <1>2 DEF Alternatives, Conjuncts, Pending
<1>4. PICK new : new = IF f.negated THEN Negated(t) ELSE t
  OBVIOUS
<1>5. new \in SaneTree /\ \A e \in Event : Complete(e) => new[e].applicable
  <2>1. \A e \in Event : Complete(e) => t[e].applicable
    BY DEF Operates
  <2>2. Negated(t) \in SaneTree /\ \A e \in Event : Complete(e) => Negated(t)[e].applicable
    BY <1>1, <2>1, NegationIsSane, NegationMatches
  <2> QED BY <1>1, <1>4, <2>1, <2>2
<1>6. g.and = Append(f.and, new) /\ g.or = f.or /\ g \in SaneFrame /\ ~g.negated
  <2>1. WithBranch(f, t).and = Append(f.and, new)
    BY <1>0, <1>4 DEF WithBranch, SaneFrame
  <2> QED BY <2>1 DEF Extends
<1>7. Fits(s, t, OperandOf(s, q, d))
  <2>1. CASE c = q
    <3>1. c = 0 \/ s[c].token \notin Quantifier
      <4>1. s[b].token = "SepLpar" \/ b = 0
        BY <1>0
      <4>2. p = b \/ s[p].token = "KeywordOr"
        BY <1>2 DEF Alternatives
      <4>3. o = p \/ s[o].token = "KeywordAnd"
        BY <1>2 DEF Conjuncts
      <4>4. q = o \/ s[q].token = "KeywordNot"
        BY <1>2 DEF Pending
      <4> QED BY <2>1, <4>1, <4>2, <4>3, <4>4 DEF Quantifier
    <3> QED BY <2>1, <3>1 DEF Operates
  <2>2. CASE c # q
    <3>1. c = q + 1 /\ s[c].token \in Quantifier /\ f.wildcard = s[c].token
      BY <1>2, <2>2 DEF Pending
    <3>2. c # 0 /\ c - 1 = q
      BY <3>1
    <3> QED BY <3>1, <3>2 DEF Operates
  <2> QED BY <2>1, <2>2
<1>8. Fits(s, new, OperandOf(s, o, d))
  <2>1. CASE ~f.negated
    BY <1>2, <1>4, <1>7, <2>1 DEF Pending
  <2>2. CASE f.negated
    <3>1. q = o + 1 /\ s[o + 1].token = "KeywordNot"
      BY <1>2, <2>2 DEF Pending
    <3>2. IsPart(s, o, d) /\ o < d
      BY <1>1, <1>3 DEF IsPart
    <3>3. \A e \in Event : Complete(e) => t[e].applicable
      BY DEF Operates
    <3> QED BY <1>0, <1>1, <1>4, <1>7, <2>2, <3>1, <3>2, <3>3, NegationFits
  <2> QED BY <2>1, <2>2
<1>9. /\ Quiet(s, Height(s, b), p, d, "KeywordOr") /\ Quiet(s, Height(s, b), o, d, "KeywordAnd")
  <2>1. Quiet(s, Height(s, b), p, c, "KeywordOr") /\ Quiet(s, Height(s, b), o, c, "KeywordAnd")
    BY <1>2 DEF Alternatives, Conjuncts
  <2>2. Quiet(s, Height(s, b), c, d, "KeywordAnd") /\ Quiet(s, Height(s, b), c, d, "KeywordOr")
    BY DEF Operates
  <2>3. p <= c /\ o <= c
    BY <1>1, <1>3
  <2> QED BY <1>1, <2>1, <2>2, <2>3, QuietOn
<1>10. AllFit(s, g.and, TermOf(s, p, d))
  <2> SUFFICES ASSUME NEW m \in TermOf(s, p, d), NEW e \in Event, Asked(s, e)
               PROVE  AllMatch(g.and, e) <=> e \in m
    BY DEF AllFit
  <2>1. AllMatch(g.and, e) <=> AllMatch(f.and, e) /\ new[e].matched
    BY <1>0, <1>5, <1>6, MoreMatches
  <2>2. Height(s, p) = Height(s, b) /\ IsPart(s, p, d)
    BY <1>1, <1>2, <1>3 DEF Alternatives, IsPart
  <2>3. LastIs(s, p, o, d, "KeywordAnd")
    BY <1>1, <1>2, <1>3, <1>9, <2>2 DEF LastIs, Conjuncts
  <2>4. \/ o = p /\ m \in OperandOf(s, o, d)
        \/ /\ o > p
           /\ \E n1 \in TermOf(s, p, o - 1) : \E n2 \in OperandOf(s, o, d) : m = n1 \cap n2
    BY <1>1, <2>2, <2>3, TermEnds
  <2>5. CASE o = p /\ m \in OperandOf(s, o, d)
    <3>1. f.and = <<>>
      BY <1>2, <2>5 DEF Conjuncts
    <3>2. AllMatch(f.and, e)
      BY <3>1 DEF AllMatch
    <3>3. new[e].matched <=> e \in m
      BY <1>8, <2>5 DEF Fits
    <3> QED BY <2>1, <3>2, <3>3
  <2>6. CASE o > p /\ \E n1 \in TermOf(s, p, o - 1) : \E n2 \in OperandOf(s, o, d) : m = n1 \cap n2
    <3>1. PICK n1 \in TermOf(s, p, o - 1), n2 \in OperandOf(s, o, d) : m = n1 \cap n2
      BY <2>6
    <3>2. AllFit(s, f.and, TermOf(s, p, o - 1))
      BY <1>2, <2>6 DEF Conjuncts
    <3>3. AllMatch(f.and, e) <=> e \in n1
      BY <3>2 DEF AllFit
    <3>4. new[e].matched <=> e \in n2
      BY <1>8 DEF Fits
    <3> QED BY <2>1, <3>1, <3>3, <3>4
  <2> QED BY <2>4, <2>5, <2>6
<1>11. Alternatives(s, g, b, p, d)
  BY <1>1, <1>2, <1>3, <1>6, <1>9 DEF Alternatives
<1>12. \A e \in Event : Complete(e) => AllApply(g.and, e) /\ AllApply(g.or, e)
  BY <1>0, <1>5, <1>6, MoreMatches
<1>13. Framed(s, g, b, d)
  <2>1. IsPart(s, b, d) /\ Height(s, d) = Height(s, b)
    BY <1>0, <1>1 DEF IsPart, Operates
  <2> QED BY <1>0, <1>6, <1>12, <2>1 DEF Framed
<1>14. g.and # <<>> /\ s[d].token \in Ender /\ p < d
  <2>1. Append(f.and, new) # <<>>
    BY <1>0, <1>5, SMTT(60)
  <2>2. s[d].token \in Ender /\ p < d
    BY <1>1, <1>3 DEF Operates
  <2> QED BY <1>6, <2>1, <2>2
<1> QED BY <1>6, <1>10, <1>11, <1>13, <1>14 DEF Follows

\* The next token is one that no operand begins or ends with.
NextIs(s, b, c, token) == c + 1 <= Len(s) /\ s[c + 1].token = token /\ Rise(token) = 0

LEMMA FramedOn ==
  ASSUME NEW s, NEW f, NEW g, NEW b, NEW c, NEW token, Framed(s, f, b, c), NextIs(s, b, c, token),
         g \in SaneFrame, \A e \in Event : Complete(e) => AllApply(g.and, e) /\ AllApply(g.or, e)
  PROVE  Framed(s, g, b, c + 1)
<1>1. c \in Nat /\ IsPart(s, b, c + 1)
  BY DEF Framed, IsPart, NextIs
<1>2. Height(s, c + 1) = Height(s, c)
  <2>1. Height(s, c) \in Int /\ Height(s, c + 1) = Height(s, c) + Rise(s[c + 1].token)
    BY <1>1, HeightIs
  <2>2. Rise(s[c + 1].token) = 0
    BY DEF NextIs
  <2> QED BY <2>1, <2>2
<1> QED BY <1>1, <1>2 DEF Framed

\* One more token, that is no connective, leaves the connectives before it the last.
LEMMA StillAlternatives ==
  ASSUME NEW s, NEW f, NEW g, NEW b \in Nat, NEW p \in Nat, NEW c \in Nat,
         Alternatives(s, f, b, p, c), g.or = f.or, s[c + 1].token # "KeywordOr"
  PROVE  Alternatives(s, g, b, p, c + 1)
<1>1. p <= c /\ p \in b..(c + 1) /\ c + 1 \in Nat
  BY DEF Alternatives
<1>2. Quiet(s, Height(s, b), c, c + 1, "KeywordOr")
  BY QuietOver
<1>3. Quiet(s, Height(s, b), p, c, "KeywordOr")
  BY DEF Alternatives
<1>4. Quiet(s, Height(s, b), p, c + 1, "KeywordOr")
  BY <1>1, <1>2, <1>3, QuietOn
<1> QED BY <1>1, <1>4 DEF Alternatives

LEMMA StillConjuncts ==
  ASSUME NEW s, NEW f, NEW g, NEW b \in Nat, NEW p \in Nat, NEW o \in Nat, NEW c \in Nat,
         Conjuncts(s, f, b, p, o, c), g.and = f.and, s[c + 1].token # "KeywordAnd"
  PROVE  Conjuncts(s, g, b, p, o, c + 1)
<1>1. o <= c /\ o \in p..(c + 1) /\ c + 1 \in Nat
  BY DEF Conjuncts
<1>2. Quiet(s, Height(s, b), c, c + 1, "KeywordAnd")
  BY QuietOver
<1>3. Quiet(s, Height(s, b), o, c, "KeywordAnd")
  BY DEF Conjuncts
<1>4. Quiet(s, Height(s, b), o, c + 1, "KeywordAnd")
  BY <1>1, <1>2, <1>3, QuietOn
<1> QED BY <1>1, <1>4 DEF Conjuncts

LEMMA NotTaken ==
  ASSUME NEW s, NEW f, NEW b, NEW c, Awaits(s, f, b, c), NextIs(s, b, c, "KeywordNot"),
         c = 0 \/ s[c].token \in Opening, NEW g, g = [f EXCEPT !.negated = TRUE]
  PROVE  Awaits(s, g, b, c + 1)
<1>1. /\ Framed(s, f, b, c) /\ f \in SaneFrame /\ c \in Nat /\ b \in Nat /\ b <= c
  BY DEF Awaits, Framed, IsPart
<1>2. PICK p, o, q \in Nat : Alternatives(s, f, b, p, c) /\ Conjuncts(s, f, b, p, o, c) /\ Pending(s, f, o, q, c)
  BY DEF Awaits
<1>3. /\ g.and = f.and /\ g.or = f.or /\ g.negated /\ g.wildcard = f.wildcard /\ g \in SaneFrame
  BY <1>1 DEF SaneFrame
<1>4. c = q /\ q = o
  BY <1>2 DEF Pending, Opening, Quantifier
<1>5. Framed(s, g, b, c + 1)
  <2>1. \A e \in Event : Complete(e) => AllApply(g.and, e) /\ AllApply(g.or, e)
    BY <1>1, <1>3 DEF Framed
  <2> QED BY <1>1, <1>3, <2>1, FramedOn
<1>6. s[c + 1].token # "KeywordOr" /\ s[c + 1].token # "KeywordAnd"
  BY DEF NextIs
<1>7. Alternatives(s, g, b, p, c + 1)
  BY <1>1, <1>2, <1>3, <1>6, StillAlternatives
<1>8. Conjuncts(s, g, b, p, o, c + 1)
  BY <1>1, <1>2, <1>3, <1>6, StillConjuncts
<1>9. Pending(s, g, o, q + 1, c + 1) /\ q + 1 \in Nat
  BY <1>3, <1>4 DEF Pending, NextIs
<1> QED BY <1>5, <1>7, <1>8, <1>9 DEF Awaits

LEMMA QuantifierTaken ==
  ASSUME NEW s, NEW f, NEW b, NEW c, NEW token \in Quantifier, Awaits(s, f, b, c), NextIs(s, b, c, token),
         c = 0 \/ s[c].token \in Opening \cup {"KeywordNot"}, NEW g, g = [f EXCEPT !.wildcard = token]
  PROVE  Awaits(s, g, b, c + 1)
<1>1. /\ Framed(s, f, b, c) /\ f \in SaneFrame /\ c \in Nat /\ b \in Nat /\ b <= c
  BY DEF Awaits, Framed, IsPart
<1>2. PICK p, o, q \in Nat : Alternatives(s, f, b, p, c) /\ Conjuncts(s, f, b, p, o, c) /\ Pending(s, f, o, q, c)
  BY DEF Awaits
<1>3. /\ g.and = f.and /\ g.or = f.or /\ g.negated = f.negated /\ g.wildcard = token /\ g \in SaneFrame
  BY <1>1 DEF SaneFrame
<1>4. c = q
  BY <1>2 DEF Pending, Opening, Quantifier
<1>5. Framed(s, g, b, c + 1)
  <2>1. \A e \in Event : Complete(e) => AllApply(g.and, e) /\ AllApply(g.or, e)
    BY <1>1, <1>3 DEF Framed
  <2> QED BY <1>1, <1>3, <2>1, FramedOn
<1>6. s[c + 1].token # "KeywordOr" /\ s[c + 1].token # "KeywordAnd"
  BY DEF NextIs, Quantifier
<1>7. Alternatives(s, g, b, p, c + 1)
  BY <1>1, <1>2, <1>3, <1>6, StillAlternatives
<1>8. Conjuncts(s, g, b, p, o, c + 1)
  BY <1>1, <1>2, <1>3, <1>6, StillConjuncts
<1>9. Pending(s, g, o, q, c + 1)
  BY <1>2, <1>3, <1>4 DEF Pending, NextIs
<1> QED BY <1>5, <1>7, <1>8, <1>9 DEF Awaits

LEMMA AndTaken ==
  ASSUME NEW s, NEW f, NEW b, NEW c, Follows(s, f, b, c), NextIs(s, b, c, "KeywordAnd")
  PROVE  Awaits(s, f, b, c + 1)
<1>1. /\ Framed(s, f, b, c) /\ f \in SaneFrame /\ c \in Nat /\ b \in Nat /\ b <= c
  BY DEF Follows, Framed, IsPart
<1>2. PICK p \in Nat : p < c /\ Alternatives(s, f, b, p, c) /\ AllFit(s, f.and, TermOf(s, p, c))
  BY DEF Follows
<1>3. Framed(s, f, b, c + 1)
  BY <1>1, FramedOn DEF Framed
<1>4. Alternatives(s, f, b, p, c + 1)
  <2>1. Quiet(s, Height(s, b), c, c + 1, "KeywordOr")
    BY <1>1, QuietOver DEF NextIs
  <2> QED BY <1>1, <1>2, <2>1, QuietOn DEF Alternatives
<1>5. Conjuncts(s, f, b, p, c + 1, c + 1)
  <2>1. Quiet(s, Height(s, b), c + 1, c + 1, "KeywordAnd")
    BY <1>1 DEF Quiet
  <2>2. c + 1 \in p..(c + 1) /\ c + 1 > p /\ (c + 1) - 1 = c /\ s[c + 1].token = "KeywordAnd"
    BY <1>1, <1>2 DEF NextIs
  <2>3. Height(s, c + 1) = Height(s, b)
    BY <1>3 DEF Framed
  <2> QED BY <1>2, <2>1, <2>2, <2>3 DEF Conjuncts
<1>6. Pending(s, f, c + 1, c + 1, c + 1)
  BY DEF Pending, Follows
<1>7. c + 1 \in Nat
  BY <1>1
<1> QED BY <1>2, <1>3, <1>4, <1>5, <1>6, <1>7 DEF Awaits

LEMMA OrTaken ==
  ASSUME NEW s, NEW f, NEW b, NEW c, Follows(s, f, b, c), NextIs(s, b, c, "KeywordOr"),
         NEW g, g = [f EXCEPT !.or = Append(@, ReducedAnd(f.and)), !.and = <<>>]
  PROVE  Awaits(s, g, b, c + 1)
<1>1. /\ Framed(s, f, b, c) /\ f \in SaneFrame /\ c \in Nat /\ b \in Nat /\ b <= c /\ ~f.negated
  BY DEF Follows, Framed, IsPart
<1>2. PICK all : all = Branches(f)
  OBVIOUS
<1>3. /\ all = Append(f.or, ReducedAnd(f.and)) /\ all \in Seq(SaneTree)
      /\ \A e \in Event : Complete(e) => AllApply(all, e)
      /\ SomeFit(s, all, ExpressionOf(s, b, c))
  BY <1>2, CallFits
<1>4. /\ g.and = <<>> /\ g.or = all /\ ~g.negated /\ g \in SaneFrame
  <2>1. <<>> \in Seq(SaneTree)
    OBVIOUS
  <2>2. g = [f EXCEPT !.or = all, !.and = <<>>]
    BY <1>1, <1>3 DEF SaneFrame
  <2> QED BY <1>1, <1>3, <2>1, <2>2 DEF SaneFrame
<1>5. Framed(s, g, b, c + 1)
  <2>1. \A e \in Event : Complete(e) => AllApply(g.and, e) /\ AllApply(g.or, e)
    BY <1>3, <1>4 DEF AllApply
  <2> QED BY <1>1, <1>4, <2>1, FramedOn
<1>6. Alternatives(s, g, b, c + 1, c + 1)
  <2>1. Quiet(s, Height(s, b), c + 1, c + 1, "KeywordOr")
    BY <1>1 DEF Quiet
  <2>2. c + 1 \in b..(c + 1) /\ c + 1 > b /\ (c + 1) - 1 = c /\ s[c + 1].token = "KeywordOr"
    BY <1>1 DEF NextIs
  <2>3. Height(s, c + 1) = Height(s, b)
    BY <1>5 DEF Framed
  <2> QED BY <1>3, <1>4, <2>1, <2>2, <2>3 DEF Alternatives
<1>7. Conjuncts(s, g, b, c + 1, c + 1, c + 1)
  <2>1. Quiet(s, Height(s, b), c + 1, c + 1, "KeywordAnd")
    BY <1>1 DEF Quiet
  <2>2. c + 1 \in (c + 1)..(c + 1)
    BY <1>1
  <2> QED BY <1>4, <2>1, <2>2 DEF Conjuncts
<1>8. Pending(s, g, c + 1, c + 1, c + 1)
  BY <1>4 DEF Pending
<1>9. c + 1 \in Nat
  BY <1>1
<1> QED BY <1>5, <1>6, <1>7, <1>8, <1>9 DEF Awaits

\* A call that has just begun.
LEMMA CallBegins ==
  ASSUME NEW s \in Seq(Tokens), NEW b \in Nat, b <= Len(s), b # 0 => s[b].token = "SepLpar"
  PROVE  Awaits(s, EmptyFrame, b, b)
<1>1. EmptyFrame \in SaneFrame /\ EmptyFrame.and = <<>> /\ EmptyFrame.or = <<>> /\ ~EmptyFrame.negated
  BY EmptyFrameIsSane DEF EmptyFrame
<1>2. Framed(s, EmptyFrame, b, b)
  <2>1. \A e : AllApply(<<>>, e)
    BY DEF AllApply
  <2>2. IsPart(s, b, b)
    BY DEF IsPart
  <2> QED BY <1>1, <2>1, <2>2 DEF Framed
<1>3. \A t : Quiet(s, Height(s, b), b, b, t)
  BY DEF Quiet
<1>4. Alternatives(s, EmptyFrame, b, b, b) /\ Conjuncts(s, EmptyFrame, b, b, b, b) /\ Pending(s, EmptyFrame, b, b, b)
  BY <1>1, <1>3 DEF Alternatives, Conjuncts, Pending
<1> QED BY <1>2, <1>4 DEF Awaits

LEMMA IdentifierValue ==
  ASSUME NEW item \in Tokens, item.token = "Identifier", NEW x \in item.value
  PROVE  item.value = {x} /\ x \in Selection
<1>1. item \in Word
  BY DEF Tokens, Symbol, Space, Item, Separator, Quantifier
<1>2. item.value = {} \/ \E y \in Selection : item.value = {y}
  BY <1>1, WordIs
<1> QED BY <1>2

\* The order of a HashMap's entries has all of them.
LEMMA OrderHasAll ==
  ASSUME NEW S, S \subseteq Selection, NEW order \in SetToSeqs(S)
  PROVE  /\ Cardinality(S) \in Nat /\ DOMAIN order = 1..Cardinality(S)
         /\ \A i \in DOMAIN order : order[i] \in S
         /\ \A x \in S : \E i \in DOMAIN order : order[i] = x
<1>1. IsFiniteSet(S)
  BY ParserAssumption, FS_Subset
<1>2. PICK n : n = Cardinality(S)
  OBVIOUS
<1>3. n \in Nat
  BY <1>1, <1>2, FS_CardinalityType
<1>4. order \in [1..n -> S] /\ \A i, j \in 1..n : i # j => order[i] # order[j]
  BY <1>2 DEF SetToSeqs
<1>5. order \in Injection(1..n, S)
  BY <1>4 DEF Injection, IsInjective
<1>6. Cardinality(1..n) = n
  BY <1>3, FS_Interval
<1>7. order \in Surjection(1..n, S)
  BY <1>1, <1>2, <1>5, <1>6, FS_Injection
<1>8. \A x \in S : \E i \in 1..n : order[i] = x
  BY <1>7 DEF Surjection
<1> QED BY <1>2, <1>3, <1>4, <1>8

LEMMA NodeMatches ==
  ASSUME NEW S, S \subseteq Selection, S # {}, NEW order \in SetToSeqs(S), NEW w \in Quantifier, NEW e \in Event
  PROVE  /\ QuantifiedNode(w, order)[e].matched <=> e \in Quantified(w = "StmtAllOf", S)
         /\ Complete(e) => QuantifiedNode(w, order)[e].applicable
<1> DEFINE bs == [i \in DOMAIN order |-> Leaf(order[i])]
<1>1. /\ Cardinality(S) \in Nat /\ DOMAIN order = 1..Cardinality(S)
      /\ \A i \in DOMAIN order : order[i] \in S
      /\ \A x \in S : \E i \in DOMAIN order : order[i] = x
  BY OrderHasAll
<1>2. \A i \in DOMAIN order : Leaf(order[i]) \in SaneTree /\ Leaf(order[i])[e] = e[order[i]]
  BY <1>1, LeafIsSane DEF Leaf
<1>3. bs \in Seq(SaneTree) /\ DOMAIN bs = DOMAIN order /\ \A i \in DOMAIN order : bs[i][e] = e[order[i]]
  BY <1>1, <1>2
<1>4. bs # <<>>
  BY <1>1, <1>3
<1>5. QuantifiedNode(w, order) = IF w = "StmtAllOf" THEN AndOf(bs) ELSE OrOf(bs)
  BY DEF QuantifiedNode
<1> HIDE DEF bs
<1>6. AllMatch(bs, e) <=> \A x \in S : e[x].matched
  <2>1. AllMatch(bs, e) <=> \A i \in DOMAIN order : e[order[i]].matched
    BY <1>3 DEF AllMatch
  <2>2. (\A i \in DOMAIN order : e[order[i]].matched) <=> \A x \in S : e[x].matched
    BY <1>1, Zenon
  <2> QED BY <2>1, <2>2
<1>7. SomeMatch(bs, e) <=> \E x \in S : e[x].matched
  <2>1. SomeMatch(bs, e) <=> \E i \in DOMAIN order : e[order[i]].matched
    BY <1>3 DEF SomeMatch
  <2>2. (\E i \in DOMAIN order : e[order[i]].matched) <=> \E x \in S : e[x].matched
    BY <1>1, Zenon
  <2> QED BY <2>1, <2>2
<1>8. Complete(e) => AllApply(bs, e)
  BY <1>1, <1>3 DEF Complete, AllApply
<1>9. /\ AndOf(bs)[e].matched <=> AllMatch(bs, e)
      /\ OrOf(bs)[e].matched <=> SomeMatch(bs, e)
      /\ AllApply(bs, e) => AndOf(bs)[e].applicable /\ OrOf(bs)[e].applicable
  BY <1>3, <1>4, ReducedMatches
<1>10. CASE w = "StmtAllOf"
  <2>1. QuantifiedNode(w, order) = AndOf(bs)
    BY <1>5, <1>10
  <2>2. e \in Quantified(w = "StmtAllOf", S) <=> \A x \in S : e[x].matched
    BY <1>10 DEF Quantified
  <2> QED BY <1>6, <1>8, <1>9, <2>1, <2>2
<1>11. CASE w # "StmtAllOf"
  <2>1. QuantifiedNode(w, order) = OrOf(bs)
    BY <1>5, <1>11
  <2>2. e \in Quantified(w = "StmtAllOf", S) <=> \E x \in S : e[x].matched
    BY <1>11 DEF Quantified
  <2> QED BY <1>7, <1>8, <1>9, <2>1, <2>2
<1> QED BY <1>10, <1>11

\* An operand of one token, with or without a quantifier before it.
LEMMA OneTokenOperates ==
  ASSUME NEW s, NEW f, NEW b, NEW c, NEW t \in SaneTree, Framed(s, f, b, c),
         c + 1 <= Len(s), s[c + 1].token \in Operand,
         \A e \in Event : Complete(e) => t[e].applicable,
         \A m : WordMeans(s, c, c + 1, m) => Fits(s, t, {m}),
         \A m : c # 0 /\ f.wildcard = s[c].token /\ QuantifiedMeans(s, c - 1, c + 1, m) => Fits(s, t, {m})
  PROVE  Operates(s, f, b, c, c + 1, t)
<1>1. s \in Seq(Tokens) /\ c \in Nat /\ Len(s) \in Nat /\ Height(s, c) = Height(s, b)
  BY DEF Framed, IsPart
<1>2. Height(s, c + 1) = Height(s, b)
  <2>1. Rise(s[c + 1].token) = 0
    BY DEF Operand, Rise
  <2>2. Height(s, c) \in Int /\ Height(s, c + 1) = Height(s, c) + Rise(s[c + 1].token)
    BY <1>1, HeightIs
  <2> QED BY <1>1, <2>1, <2>2
<1>3. /\ Quiet(s, Height(s, b), c, c + 1, "KeywordAnd") /\ Quiet(s, Height(s, b), c, c + 1, "KeywordOr")
  <2>1. s[c + 1].token # "KeywordAnd" /\ s[c + 1].token # "KeywordOr"
    BY DEF Operand
  <2> QED BY <1>1, <2>1, QuietOver
<1>4. Fits(s, t, OperandOf(s, c, c + 1))
  <2>1. ASSUME NEW m \in OperandOf(s, c, c + 1) PROVE Fits(s, t, {m})
    <3>1. IsPart(s, c, c + 1)
      BY <1>1 DEF IsPart
    <3>2. OperandMeans(s, c, c + 1, m)
      BY <1>1, <3>1, OperandIs
    <3>3. WordMeans(s, c, c + 1, m)
      BY <1>1, <3>2 DEF OperandMeans, NotMeans, GroupMeans, QuantifiedMeans
    <3> QED BY <3>3
  <2> QED BY <2>1 DEF Fits
<1>5. ASSUME c # 0, s[c].token \in Quantifier, f.wildcard = s[c].token
      PROVE  Fits(s, t, OperandOf(s, c - 1, c + 1))
  <2>1. ASSUME NEW m \in OperandOf(s, c - 1, c + 1) PROVE Fits(s, t, {m})
    <3>1. IsPart(s, c - 1, c + 1) /\ (c - 1) + 1 = c
      BY <1>1, <1>5 DEF IsPart
    <3>2. OperandMeans(s, c - 1, c + 1, m)
      BY <1>1, <3>1, OperandIs
    <3>3. QuantifiedMeans(s, c - 1, c + 1, m)
      BY <1>1, <1>5, <3>1, <3>2 DEF OperandMeans, NotMeans, GroupMeans, WordMeans, Quantifier
    <3> QED BY <1>5, <3>3
  <2> QED BY <2>1 DEF Fits
<1>6. s[c + 1].token \in Ender /\ c + 1 \in Nat /\ c < c + 1
  BY <1>1 DEF Ender
<1> QED BY <1>2, <1>3, <1>4, <1>5, <1>6 DEF Operates

LEMMA IdentifierOperates ==
  ASSUME NEW s, NEW f, NEW b, NEW c, Framed(s, f, b, c), c + 1 <= Len(s), s[c + 1].token = "Identifier",
         NEW x \in s[c + 1].value
  PROVE  Operates(s, f, b, c, c + 1, Leaf(x))
<1>1. s \in Seq(Tokens) /\ c \in Nat /\ c + 1 \in 1..Len(s)
  BY DEF Framed, IsPart
<1>2. s[c + 1].value = {x} /\ x \in Selection
  <2>1. s[c + 1] \in Tokens
    BY <1>1
  <2> QED BY <2>1, IdentifierValue
<1>3. /\ Leaf(x) \in SaneTree /\ \A e \in Event : Complete(e) => Leaf(x)[e].applicable
  BY <1>2, LeafIsSane DEF Leaf, Complete
<1>4. Fits(s, Leaf(x), {Holds(x)})
  BY DEF Fits, Leaf, Holds
<1>5. \A m : WordMeans(s, c, c + 1, m) => Fits(s, Leaf(x), {m})
  BY <1>2, <1>4 DEF WordMeans
<1>6. \A m : QuantifiedMeans(s, c - 1, c + 1, m) => Fits(s, Leaf(x), {m})
  BY <1>2, <1>4 DEF QuantifiedMeans
<1> QED BY <1>3, <1>5, <1>6, OneTokenOperates DEF Operand

LEMMA QuantifiedOperates ==
  ASSUME NEW s, NEW f, NEW b, NEW c, Framed(s, f, b, c), c + 1 <= Len(s),
         s[c + 1].token \in Operand \ {"Identifier"}, Named(s[c + 1]) # {}, f.wildcard # "None",
         NEW order \in SetToSeqs(Named(s[c + 1]))
  PROVE  Operates(s, f, b, c, c + 1, QuantifiedNode(f.wildcard, order))
<1>1. s \in Seq(Tokens) /\ c \in Nat /\ c + 1 \in 1..Len(s) /\ f.wildcard \in Quantifier
  BY DEF Framed, IsPart, SaneFrame
<1>2. Named(s[c + 1]) \subseteq Selection
  <2>1. s[c + 1] \in Tokens
    BY <1>1
  <2> QED BY <2>1, TokenValues
<1>3. PICK t : t = QuantifiedNode(f.wildcard, order)
  OBVIOUS
<1>4. /\ t \in SaneTree
      /\ \A e \in Event : /\ Complete(e) => t[e].applicable
                          /\ t[e].matched <=> e \in Quantified(f.wildcard = "StmtAllOf", Named(s[c + 1]))
  BY <1>1, <1>2, <1>3, QuantifiedIsSane, NodeMatches
<1>5. Fits(s, t, {Quantified(f.wildcard = "StmtAllOf", Named(s[c + 1]))})
  BY <1>4 DEF Fits
<1>6. \A m : ~WordMeans(s, c, c + 1, m)
  BY DEF WordMeans
<1>7. ASSUME NEW m, c # 0, f.wildcard = s[c].token, QuantifiedMeans(s, c - 1, c + 1, m)
      PROVE  Fits(s, t, {m})
  <2>1. (c - 1) + 1 = c
    BY <1>1
  <2>2. m = Quantified(s[c].token = "StmtAllOf", Named(s[c + 1]))
    BY <1>7, <2>1 DEF QuantifiedMeans
  <2>3. m = Quantified(f.wildcard = "StmtAllOf", Named(s[c + 1]))
    BY <1>7, <2>2
  <2> QED BY <1>5, <2>3
<1>8. Operates(s, f, b, c, c + 1, t)
  BY <1>4, <1>6, <1>7, OneTokenOperates
<1> QED BY <1>3, <1>8

\* A group, whose call follows its last operand.
LEMMA GroupOperates ==
  ASSUME NEW s, NEW f, NEW b, NEW c, NEW g, NEW d \in Nat, Framed(s, f, b, c), Follows(s, g, c + 1, d - 1),
         d <= Len(s), s[c + 1].token = "SepLpar", s[d].token = "SepRpar",
         \A x \in (c + 1)..(d - 1) : Height(s, x) >= Height(s, c + 1)
  PROVE  Operates(s, f, b, c, d, ReducedOr(Branches(g)))
<1>1. s \in Seq(Tokens) /\ c \in Nat /\ Len(s) \in Nat /\ Height(s, c) = Height(s, b) /\ IsPart(s, c + 1, d - 1)
  BY DEF Framed, Follows, IsPart
<1>2. /\ Branches(g) \in Seq(SaneTree) /\ Branches(g) # <<>>
      /\ \A e \in Event : Complete(e) => AllApply(Branches(g), e)
      /\ SomeFit(s, Branches(g), ExpressionOf(s, c + 1, d - 1))
  BY CallFits
<1>3. PICK t : t = ReducedOr(Branches(g))
  OBVIOUS
<1>4. /\ t \in SaneTree
      /\ \A e \in Event : Complete(e) => t[e].applicable
      /\ \A e \in Event : t[e].matched <=> SomeMatch(Branches(g), e)
  BY <1>2, <1>3, TreesAreSane, ReducedMatches
<1>5. d - 1 \in Nat /\ c + 1 < d - 1
  <2>1. PICK p \in Nat : p < d - 1 /\ Alternatives(s, g, c + 1, p, d - 1)
    BY DEF Follows
  <2>2. p \in (c + 1)..(d - 1)
    BY <2>1 DEF Alternatives
  <2> QED BY <1>1, <2>1, <2>2
<1>6. /\ Height(s, c + 1) = Height(s, b) + 1 /\ Height(s, b) \in Int
      /\ Height(s, d) = Height(s, b)
  <2>1. Height(s, c) \in Int /\ Height(s, c + 1) = Height(s, c) + 1
    BY <1>1, HeightIs DEF Rise
  <2>2. Height(s, d - 1) = Height(s, c + 1)
    BY DEF Follows, Framed
  <2>3. Height(s, (d - 1) + 1) = Height(s, d - 1) - 1 /\ (d - 1) + 1 = d
    <3>1. Height(s, d - 1) \in Int /\ Height(s, (d - 1) + 1) = Height(s, d - 1) + Rise(s[(d - 1) + 1].token)
      BY <1>5, HeightIs
    <3>2. (d - 1) + 1 = d
      OBVIOUS
    <3> QED BY <3>1, <3>2 DEF Rise
  <2> QED BY <1>1, <2>1, <2>2, <2>3
<1>7. ASSUME NEW x \in (c + 1)..d PROVE s[x].token \notin {"KeywordAnd", "KeywordOr"} \/ Height(s, x) # Height(s, b)
  <2>1. CASE x = c + 1 \/ x = d
    BY <2>1
  <2>2. CASE x # c + 1 /\ x # d
    <3>1. x \in (c + 1)..(d - 1) /\ x \in Nat
      BY <1>1, <2>2
    <3>2. Height(s, x) >= Height(s, c + 1) /\ Height(s, x) \in Int
      BY <3>1, HeightIs
    <3> QED BY <1>6, <3>2
  <2> QED BY <2>1, <2>2
<1>8. Quiet(s, Height(s, b), c, d, "KeywordAnd") /\ Quiet(s, Height(s, b), c, d, "KeywordOr")
  BY <1>7 DEF Quiet
<1>9. Fits(s, t, OperandOf(s, c, d))
  <2>1. ASSUME NEW m \in OperandOf(s, c, d) PROVE m \in ExpressionOf(s, c + 1, d - 1)
    <3>1. IsPart(s, c, d)
      BY <1>1, <1>5 DEF IsPart
    <3>2. OperandMeans(s, c, d, m)
      BY <1>1, <3>1, OperandIs
    <3> QED BY <3>2 DEF OperandMeans, WordMeans, NotMeans, GroupMeans, QuantifiedMeans, Quantifier
  <2> QED BY <1>2, <1>4, <2>1 DEF Fits, SomeFit
<1>10. ASSUME c # 0, s[c].token \in Quantifier PROVE OperandOf(s, c - 1, d) = {}
  <2>1. IsPart(s, c - 1, d) /\ (c - 1) + 1 = c /\ d # (c - 1) + 2 /\ d # (c - 1) + 1
    BY <1>1, <1>5, <1>10 DEF IsPart
  <2>2. \A m : ~OperandMeans(s, c - 1, d, m)
    BY <1>10, <2>1 DEF OperandMeans, WordMeans, NotMeans, GroupMeans, QuantifiedMeans, Quantifier
  <2> QED BY <1>1, <2>1, <2>2, OperandIs
<1>11. (c # 0 /\ s[c].token \in Quantifier /\ f.wildcard = s[c].token) => Fits(s, t, OperandOf(s, c - 1, d))
  BY <1>10 DEF Fits
<1>12. d \in Nat /\ c < d /\ s[d].token \in Ender
  BY <1>1, <1>5 DEF Ender
<1> QED BY <1>3, <1>4, <1>6, <1>8, <1>9, <1>11, <1>12 DEF Operates

------------------------------------------------------------------------------
(* The text without its spaces *)

\* The prefixes of up to n symbols, without their spaces, given as a function.
UnspacedUpTo(t, n, f) ==
  f = [i \in 0..n |-> IF i = 0 THEN <<>> ELSE IF t[i] = Space THEN f[i - 1] ELSE Append(f[i - 1], t[i])]

LEMMA UnspacedIsThere ==
  ASSUME NEW t
  PROVE  \A n \in Nat : \E f : UnspacedUpTo(t, n, f)
<1> DEFINE S == {n \in Nat : \E f : UnspacedUpTo(t, n, f)}
           Next1(i, x) == IF t[i] = Space THEN x ELSE Append(x, t[i])
<1>1. 0 \in S
  <2> DEFINE f == [i \in 0..0 |-> <<>>]
  <2>1. UnspacedUpTo(t, 0, f)
    BY DEF UnspacedUpTo
  <2> QED BY <2>1
<1>2. ASSUME NEW n \in Nat, n \in S PROVE n + 1 \in S
  <2>1. PICK f : UnspacedUpTo(t, n, f)
    BY <1>2
  <2> DEFINE g == [i \in 0..(n + 1) |-> IF i = n + 1 THEN Next1(n + 1, f[n]) ELSE f[i]]
  <2>2. \A i \in 0..(n + 1) : g[i] = IF i = 0 THEN <<>> ELSE Next1(i, g[i - 1])
    <3> SUFFICES ASSUME NEW i \in 0..(n + 1)
                 PROVE  g[i] = IF i = 0 THEN <<>> ELSE Next1(i, g[i - 1])
      OBVIOUS
    <3>1. CASE i = n + 1
      <4>1. i - 1 = n /\ n \in 0..(n + 1) /\ n # n + 1 /\ i # 0
        BY <3>1
      <4> HIDE DEF Next1
      <4>2. g[i - 1] = f[n] /\ g[i] = Next1(n + 1, f[n])
        BY <3>1, <4>1
      <4> QED BY <3>1, <4>1, <4>2
    <3>2. CASE i # n + 1
      <4>1. i \in 0..n /\ g[i] = f[i]
        BY <3>2
      <4>2. i # 0 => i - 1 \in 0..n /\ i - 1 # n + 1 /\ g[i - 1] = f[i - 1]
        BY <4>1
      <4>3. f[i] = IF i = 0 THEN <<>> ELSE Next1(i, f[i - 1])
        BY <2>1, <4>1 DEF UnspacedUpTo
      <4> HIDE DEF g, Next1
      <4> QED BY <4>1, <4>2, <4>3
    <3> QED BY <3>1, <3>2
  <2>3. g = [i \in 0..(n + 1) |-> g[i]]
    OBVIOUS
  <2> HIDE DEF g
  <2>4. UnspacedUpTo(t, n + 1, g)
    BY <2>2, <2>3 DEF UnspacedUpTo
  <2> QED BY <2>4
<1> HIDE DEF S
<1>3. \A n \in Nat : n \in S
  BY <1>1, <1>2, Induction
<1> QED BY <1>3 DEF S

LEMMA UnspacedIs ==
  ASSUME NEW t, Len(t) \in Nat
  PROVE  /\ Unspaced(t)[0] = <<>>
         /\ \A r \in 1..Len(t) :
              Unspaced(t)[r] = IF t[r] = Space THEN Unspaced(t)[r - 1] ELSE Append(Unspaced(t)[r - 1], t[r])
<1> DEFINE f == CHOOSE g : UnspacedUpTo(t, Len(t), g)
<1>1. UnspacedUpTo(t, Len(t), f)
  BY UnspacedIsThere
<1>2. Unspaced(t) = f
  BY DEF Unspaced, UnspacedUpTo
<1> HIDE DEF f
<1>3. \A r \in 0..Len(t) : f[r] = IF r = 0 THEN <<>> ELSE IF t[r] = Space THEN f[r - 1] ELSE Append(f[r - 1], t[r])
  BY <1>1 DEF UnspacedUpTo
<1>4. 0 \in 0..Len(t) /\ \A r \in 1..Len(t) : r \in 0..Len(t) /\ r # 0
  OBVIOUS
<1> QED BY <1>2, <1>3, <1>4

BeginsWith(a, b) == Len(b) <= Len(a) /\ \A x \in 1..Len(b) : a[x] = b[x]

LEMMA SymbolsEndNothing ==
  ASSUME NEW x \in Symbol
  PROVE  x.token \notin {"LitEof", "Unsupported"}
<1>1. CASE x \in Word
  BY <1>1, WordIs DEF Keyword
<1>2. CASE x \notin Word
  BY <1>2, SymbolKinds DEF Space, Item, Separator, Quantifier
<1> QED BY <1>1, <1>2

LEMMA UnspacedType ==
  ASSUME NEW t \in Seq(Symbol)
  PROVE  \A r \in 0..Len(t) : Unspaced(t)[r] \in Seq(Tokens)
<1> DEFINE S == {n \in Nat : n <= Len(t) => Unspaced(t)[n] \in Seq(Tokens)}
<1>1. 0 \in S
  <2>1. Len(t) \in Nat /\ <<>> \in Seq(Tokens)
    OBVIOUS
  <2>2. Unspaced(t)[0] = <<>>
    BY <2>1, UnspacedIs
  <2> QED BY <2>1, <2>2
<1>2. ASSUME NEW n \in Nat, n \in S PROVE n + 1 \in S
  <2> SUFFICES ASSUME n + 1 <= Len(t) PROVE Unspaced(t)[n + 1] \in Seq(Tokens)
    OBVIOUS
  <2>1. n + 1 \in 1..Len(t) /\ (n + 1) - 1 = n /\ Unspaced(t)[n] \in Seq(Tokens)
    BY <1>2
  <2>2. Unspaced(t)[n + 1] = IF t[n + 1] = Space THEN Unspaced(t)[n] ELSE Append(Unspaced(t)[n], t[n + 1])
    BY <2>1, UnspacedIs
  <2>3. t[n + 1] # Space => t[n + 1] \in Tokens
    BY <2>1 DEF Tokens
  <2> QED BY <2>1, <2>2, <2>3
<1> HIDE DEF S
<1>3. \A n \in Nat : n \in S
  BY <1>1, <1>2, Induction
<1> QED BY <1>3 DEF S

\* The end of the stream is none of the tokens of a text.
LEMMA TextType ==
  ASSUME LexerInv
  PROVE  Text \in Seq(Tokens) /\ \A x \in 1..Len(Text) : Text[x].token # "LitEof"
<1> DEFINE S == {n \in Nat : n <= Len(condition) =>
                  \A x \in 1..Len(Unspaced(condition)[n]) : Unspaced(condition)[n][x].token # "LitEof"}
<1>0. condition \in Seq(Symbol) /\ Len(condition) \in Nat
  BY DEF LexerInv
<1>1. 0 \in S
  <2>1. Unspaced(condition)[0] = <<>> /\ \A x \in 1..Len(<<>>) : FALSE
    BY <1>0, UnspacedIs
  <2> QED BY <2>1
<1>2. ASSUME NEW n \in Nat, n \in S PROVE n + 1 \in S
  <2> SUFFICES ASSUME n + 1 <= Len(condition), NEW x \in 1..Len(Unspaced(condition)[n + 1])
               PROVE  Unspaced(condition)[n + 1][x].token # "LitEof"
    OBVIOUS
  <2>1. n + 1 \in 1..Len(condition) /\ n \in 0..Len(condition) /\ (n + 1) - 1 = n
        /\ \A y \in 1..Len(Unspaced(condition)[n]) : Unspaced(condition)[n][y].token # "LitEof"
    BY <1>0, <1>2
  <2>2. PICK a : a = Unspaced(condition)[n]
    OBVIOUS
  <2>3. PICK b : b = Unspaced(condition)[n + 1]
    OBVIOUS
  <2>4. a \in Seq(Tokens) /\ (b = a \/ b = Append(a, condition[n + 1]))
    <3>1. a \in Seq(Tokens)
      BY <1>0, <2>1, <2>2, UnspacedType
    <3>2. b = a \/ b = Append(a, condition[n + 1])
      BY <1>0, <2>1, <2>2, <2>3, UnspacedIs
    <3> QED BY <3>1, <3>2
  <2>5. condition[n + 1].token # "LitEof"
    BY <1>0, <2>1, SymbolsEndNothing
  <2>6. CASE b = a
    BY <2>1, <2>2, <2>3, <2>6
  <2>7. CASE b = Append(a, condition[n + 1])
    <3>1. Len(a) \in Nat /\ Len(b) = Len(a) + 1 /\ b[Len(a) + 1] = condition[n + 1]
          /\ \A y \in 1..Len(a) : b[y] = a[y]
      BY <2>4, <2>7
    <3>2. x \in 1..Len(a) \/ x = Len(a) + 1
      BY <2>3, <3>1
    <3> QED BY <2>1, <2>2, <2>3, <2>5, <3>1, <3>2
  <2> QED BY <2>4, <2>6, <2>7
<1> HIDE DEF S
<1>3. \A n \in Nat : n \in S
  BY <1>1, <1>2, Induction
<1>4. Text \in Seq(Tokens)
  BY <1>0, UnspacedType DEF Text
<1> QED BY <1>0, <1>3, <1>4 DEF S, Text

LEMMA UnspacedGrows ==
  ASSUME NEW t \in Seq(Symbol)
  PROVE  \A r \in 0..Len(t) : BeginsWith(Unspaced(t)[Len(t)], Unspaced(t)[r])
<1> DEFINE S == {n \in Nat : n <= Len(t) => BeginsWith(Unspaced(t)[Len(t)], Unspaced(t)[Len(t) - n])}
<1>0. Len(t) \in Nat
  OBVIOUS
<1>1. 0 \in S
  <2>1. Unspaced(t)[Len(t)] \in Seq(Tokens)
    BY <1>0, UnspacedType
  <2> QED BY <2>1 DEF BeginsWith
<1>2. ASSUME NEW n \in Nat, n \in S PROVE n + 1 \in S
  <2> SUFFICES ASSUME n + 1 <= Len(t) PROVE BeginsWith(Unspaced(t)[Len(t)], Unspaced(t)[Len(t) - (n + 1)])
    OBVIOUS
  <2> DEFINE r == Len(t) - n
             a == Unspaced(t)[r - 1]
             b == Unspaced(t)[r]
             c == Unspaced(t)[Len(t)]
  <2>1. r \in 1..Len(t) /\ r \in 0..Len(t) /\ r - 1 \in 0..Len(t) /\ r - 1 = Len(t) - (n + 1) /\ BeginsWith(c, b)
    BY <1>0, <1>2
  <2>2. a \in Seq(Tokens) /\ b \in Seq(Tokens)
    BY <2>1, UnspacedType
  <2>3. b = a \/ b = Append(a, t[r])
    BY <1>0, <2>1, UnspacedIs
  <2>4. BeginsWith(c, a)
    <3> HIDE DEF a, b, c
    <3>1. Len(a) <= Len(b) /\ \A x \in 1..Len(a) : x \in 1..Len(b) /\ b[x] = a[x]
      BY <2>2, <2>3, SMTT(60)
    <3>2. Len(b) \in Nat /\ Len(a) \in Nat /\ Len(b) <= Len(c) /\ \A x \in 1..Len(b) : c[x] = b[x]
      BY <2>1, <2>2 DEF BeginsWith
    <3>3. Len(a) <= Len(c) /\ \A x \in 1..Len(a) : c[x] = a[x]
      BY <3>1, <3>2
    <3> QED BY <3>3 DEF BeginsWith
  <2> QED BY <2>1, <2>4
<1> HIDE DEF S
<1>3. \A n \in Nat : n \in S
  BY <1>1, <1>2, Induction
<1>4. ASSUME NEW r \in 0..Len(t) PROVE BeginsWith(Unspaced(t)[Len(t)], Unspaced(t)[r])
  <2>1. Len(t) - r \in S /\ Len(t) - r \in Nat /\ Len(t) - r <= Len(t) /\ Len(t) - (Len(t) - r) = r
    BY <1>0, <1>3
  <2> QED BY <2>1 DEF S
<1> QED BY <1>4

\* Each symbol that is no space is in the text.
LEMMA UnspacedHas ==
  ASSUME NEW t \in Seq(Symbol), NEW i \in 1..Len(t), t[i] # Space
  PROVE  \E x \in 1..Len(Unspaced(t)[Len(t)]) : Unspaced(t)[Len(t)][x] = t[i]
<1> DEFINE a == Unspaced(t)[i - 1]
           b == Unspaced(t)[i]
           c == Unspaced(t)[Len(t)]
<1>1. i - 1 \in 0..Len(t) /\ i \in 0..Len(t) /\ Len(t) \in Nat /\ Len(t) \in 0..Len(t)
  OBVIOUS
<1>2. b = Append(a, t[i]) /\ a \in Seq(Tokens) /\ c \in Seq(Tokens) /\ BeginsWith(c, b)
  BY <1>1, UnspacedIs, UnspacedType, UnspacedGrows
<1> HIDE DEF a, b, c
<1>3. Len(b) = Len(a) + 1 /\ b[Len(a) + 1] = t[i] /\ Len(a) \in Nat
  BY <1>2
<1>4. Len(a) + 1 \in 1..Len(c) /\ c[Len(a) + 1] = t[i]
  BY <1>2, <1>3 DEF BeginsWith
<1> QED BY <1>4 DEF c

------------------------------------------------------------------------------
(* The tokens that the parser gets are the text *)

\* Each word is kept apart from what follows it, and the rest is no aggregation.
Apart == WordsApart(condition) /\ \A i \in 1..Len(condition) : condition[i].token # "SepPipe"

\* What the properties of the tree ask of the condition.
Meant == Meanings # {} /\ WordsApart(condition)

\* How many symbols the lexer has read, and how many it has sent on or dropped.
Position == Len(condition) - Len(unread)
Held == IF lex_state \in {"condition", "eof"} THEN 0 ELSE 1
Emitted == Position - Len(text) - Held

\* The lexer is at its place in the text.
ReadInv ==
  lex_state \notin LexerEnds =>
    /\ lex_state \notin {"SepPipe", "aggregation"}
    /\ Len(unread) <= Len(condition) /\ \A i \in 1..Len(unread) : unread[i] = condition[Position + i]
    /\ Len(text) <= 1 /\ Emitted >= 0
    /\ text # <<>> => text[1] = condition[Emitted + 1]
    /\ lex_state = "condition" => text = <<>>
    /\ lex_state = "accumulate" => condition[Position] = Space
    /\ lex_state = "rpar_with_tokens" => condition[Position] = Item("SepRpar", {})
    /\ lex_state \in {"SepLpar"} \cup Quantifier => text = <<>> /\ condition[Position] = Item(lex_state, {})
    /\ lex_state = "eof" => unread = <<>>

LastSeen == IF tokens = <<>> THEN Begin ELSE tokens[Len(tokens)].token

\* The tokens collected and those on their way are what has been sent of the text.
SentInv ==
  phase = "collect" =>
    /\ lex_state # "failed"
    /\ lex_state \notin LexerEnds =>
         previous = LastSeen /\ tokens \o channel = Unspaced(condition)[Emitted]
    /\ lex_state = "end" =>
         \/ /\ previous = LastSeen /\ channel # <<>>
            /\ tokens \o channel = Append(Text, Item("LitEof", {}))
         \/ previous = "LitEof" /\ tokens = Text /\ channel = <<>>

LexSynced == Apart => ReadInv /\ SentInv

LEMMA MeantIs ==
  ASSUME LexerInv, Meant
  PROVE  /\ Text \in Seq(Tokens) /\ Len(Text) > 0
         /\ Whole(Text, 0, Len(Text))
         /\ Apart
<1>1. condition \in Seq(Symbol) /\ Len(condition) \in 0..Len(condition) /\ Len(condition) \in Nat
  BY DEF LexerInv
<1>2. Text \in Seq(Tokens)
  BY <1>1, UnspacedType DEF Text
<1>3. ExpressionOf(Text, 0, Len(Text)) # {}
  BY DEF Meant, Meanings, MeaningsOf, ExpressionOf, Means
<1>4. IsPart(Text, 0, Len(Text)) /\ Len(Text) \in Nat
  BY <1>2 DEF IsPart
<1>5. Whole(Text, 0, Len(Text))
  BY <1>3, <1>4, MeaningIsShaped DEF Shaped
<1>6. ASSUME NEW i \in 1..Len(condition), condition[i].token = "SepPipe" PROVE FALSE
  <2>1. condition[i] # Space
    BY <1>6 DEF Space, Item
  <2>2. PICK x \in 1..Len(Text) : Text[x] = condition[i]
    BY <1>1, <2>1, UnspacedHas DEF Text
  <2>3. InPlace(Text, 0, x)
    BY <1>5 DEF Whole
  <2> QED BY <1>6, <2>2, <2>3 DEF InPlace, Plain, Starter, Ender, Operand, Quantifier
<1>7. Apart
  BY <1>6 DEF Meant, Apart
<1> QED BY <1>2, <1>4, <1>5, <1>7 DEF Whole

\* A symbol that is no word, and what the lexer does at it.
LEMMA SymbolAt ==
  ASSUME NEW x \in Symbol, x \notin Word, x.token # "SepPipe"
  PROVE  \/ x = Space /\ LexStateAt(x) = "accumulate"
         \/ x = Item("SepRpar", {}) /\ LexStateAt(x) = "rpar_with_tokens" /\ x # Space
         \/ /\ LexStateAt(x) \in {"SepLpar"} \cup Quantifier /\ x = Item(LexStateAt(x), {})
            /\ x.token = LexStateAt(x) /\ x # Space
<1>1. CASE x = Space
  BY <1>1 DEF LexStateAt, Space, Item
<1>2. CASE x # Space
  <2>1. PICK t \in Separator \cup {"SepPipe"} : x = Item(t, {})
    BY <1>2, Zenon DEF Symbol
  <2>2. x.token = t /\ t \in {"SepLpar", "SepRpar"} \cup Quantifier
    BY <2>1 DEF Item, Separator
  <2>3. CASE t = "SepRpar"
    BY <1>2, <2>1, <2>2, <2>3 DEF LexStateAt
  <2>4. CASE t # "SepRpar"
    <3>1. LexStateAt(x) = t
      BY <1>2, <2>2, <2>4 DEF LexStateAt
    <3> QED BY <1>2, <2>1, <2>2, <2>4, <3>1
  <2> QED BY <2>3, <2>4
<1> QED BY <1>1, <1>2

LEMMA Joined ==
  ASSUME NEW a \in Seq(Tokens), NEW b \in Seq(Tokens), NEW x \in Tokens
  PROVE  /\ a \o Append(b, x) = Append(a \o b, x)
         /\ b # <<>> => Append(a, Head(b)) \o Tail(b) = a \o b
<1>1. a \o Append(b, x) = Append(a \o b, x)
  OBVIOUS
<1>2. b # <<>> => Append(a, Head(b)) \o Tail(b) = a \o b
  OBVIOUS
<1> QED BY <1>1, <1>2

LEMMA LexSyncedInit == Init => LexSynced
<1> SUFFICES ASSUME Init PROVE LexSynced
  OBVIOUS
<1>1. condition \in Seq(Symbol) /\ Len(condition) \in Nat
  BY ParserAssumption DEF Init
<1>2. Position = 0 /\ Emitted = 0
  <2>1. unread = condition /\ text = <<>> /\ lex_state = "condition" /\ Len(text) = 0
    BY DEF Init
  <2>2. Position = 0
    BY <1>1, <2>1 DEF Position
  <2>3. Held = 0
    BY <2>1 DEF Held
  <2>4. Emitted = Position - Len(text) - Held
    BY DEF Emitted
  <2> QED BY <2>1, <2>2, <2>3, <2>4
<1>3. ReadInv
  BY <1>1, <1>2 DEF Init, ReadInv, LexerEnds, Quantifier
<1>4. SentInv
  <2>1. Unspaced(condition)[0] = <<>>
    BY <1>1, UnspacedIs
  <2>2. tokens \o channel = <<>> /\ previous = LastSeen
    BY DEF Init, LastSeen
  <2> QED BY <1>2, <2>1, <2>2 DEF SentInv, Init, LexerEnds
<1> QED BY <1>3, <1>4 DEF LexSynced

\* What the lexer's steps leave alone of a text with a meaning.
LEMMA StillMeant ==
  ASSUME UNCHANGED condition
  PROVE  Apart' = Apart /\ Meant' = Meant /\ Text' = Text /\ Meanings' = Meanings
<1>1. Text' = Text
  BY DEF Text
<1>2. Meanings' = Meanings
  BY <1>1 DEF Meanings
<1> QED BY <1>1, <1>2 DEF Meant, Apart

\* The next symbol of the text goes to the channel.
LEMMA SymbolSent ==
  ASSUME LexerInv, ParserInv, SentInv, phase = "collect", lex_state \notin LexerEnds, UNCHANGED <<condition, parser>>,
         Emitted \in Nat, Emitted < Len(condition), condition[Emitted + 1] # Space,
         Emit(condition[Emitted + 1])
  PROVE  /\ previous' = LastSeen' /\ phase' = "collect"
         /\ tokens' \o channel' = Unspaced(condition)[Emitted + 1]
<1>1. PICK n \in Nat : n = Emitted
  OBVIOUS
<1>2. n + 1 \in 1..Len(condition) /\ (n + 1) - 1 = n /\ condition \in Seq(Symbol) /\ Len(condition) \in Nat
  BY <1>1 DEF LexerInv
<1>3. condition[n + 1] \in Tokens /\ condition[n + 1] # Space
  BY <1>1, <1>2 DEF Tokens
<1>4. channel' = Append(channel, condition[n + 1]) /\ channel \in Seq(Tokens) /\ tokens \in Seq(Tokens)
      /\ tokens' = tokens
  BY <1>1 DEF Emit, LexerInv, ParserInv, parser
<1>5. tokens \o channel = Unspaced(condition)[n] /\ previous = LastSeen
  BY <1>1 DEF SentInv
<1>6. Unspaced(condition)[n + 1] = Append(Unspaced(condition)[n], condition[n + 1])
  BY <1>2, <1>3, UnspacedIs
<1>7. tokens' \o channel' = Append(tokens \o channel, condition[n + 1])
  BY <1>3, <1>4, Joined
<1>8. previous' = LastSeen' /\ phase' = "collect"
  BY <1>5 DEF parser, LastSeen
<1> QED BY <1>1, <1>5, <1>6, <1>7, <1>8

LEMMA ConditionReads ==
  ASSUME LexerInv, ParserInv, Apart, ReadInv, SentInv, LexCondition
  PROVE  ReadInv' /\ SentInv'
<1> DEFINE collected == IF unread # <<>> /\ Head(unread) \in Word THEN <<Head(unread)>> ELSE <<>>
           rest == SubSeq(unread, Len(collected) + 1, Len(unread))
<1>0. unread \in Seq(Symbol) /\ condition \in Seq(Symbol) /\ text = <<>> /\ lex_state = "condition"
      /\ Len(unread) \in Nat /\ Len(condition) \in Nat /\ Len(text) = 0
  BY DEF LexerInv, LexCondition, ReadInv, LexerEnds
<1>1. /\ text' = collected
      /\ IF rest = <<>> THEN unread' = <<>> /\ lex_state' = "eof"
         ELSE unread' = Tail(rest) /\ lex_state' = LexStateAt(Head(rest))
      /\ UNCHANGED <<condition, channel, parser>>
  BY DEF LexCondition
<1>2. PICK u : u = Position
  OBVIOUS
<1>3. /\ u \in Nat /\ u = Len(condition) - Len(unread) /\ Emitted = u /\ Len(unread) <= Len(condition)
      /\ \A i \in 1..Len(unread) : unread[i] = condition[u + i]
  BY <1>0, <1>2 DEF Position, Held, Emitted, ReadInv, LexerEnds
<1>4. \A i \in 1..Len(condition) : condition[i] \in Symbol /\ condition[i].token # "SepPipe"
  BY <1>0 DEF Apart
<1>5. PICK v : v = u + Len(collected)
  OBVIOUS
<1>6. /\ collected \in Seq(Word) /\ Len(collected) \in {0, 1} /\ v \in Nat /\ v <= Len(condition)
      /\ collected # <<>> => collected[1] = condition[u + 1] /\ condition[v] \in Word /\ v = u + 1
      /\ rest \in Seq(Symbol) /\ Len(rest) = Len(condition) - v
      /\ \A i \in 1..Len(rest) : rest[i] = condition[v + i]
      /\ rest # <<>> => Head(rest) \notin Word
  <2>1. CASE unread # <<>> /\ Head(unread) \in Word
    <3>1. collected = <<Head(unread)>> /\ Len(collected) = 1 /\ v = u + 1
      BY <1>3, <1>5, <2>1
    <3> HIDE DEF collected
    <3>2. rest = Tail(unread)
      BY <1>0, <2>1, <3>1, TailIsSubSeq
    <3> HIDE DEF rest
    <3>3. rest \in Seq(Symbol) /\ Len(rest) = Len(unread) - 1 /\ Len(unread) > 0
          /\ \A i \in 1..Len(rest) : rest[i] = unread[i + 1]
      BY <1>0, <2>1, <3>2
    <3>4. Len(rest) = Len(condition) - v /\ v <= Len(condition)
      BY <1>0, <1>3, <3>1, <3>3
    <3>5. \A i \in 1..Len(rest) : rest[i] = condition[v + i]
      <4> SUFFICES ASSUME NEW i \in 1..Len(rest) PROVE rest[i] = condition[v + i]
        OBVIOUS
      <4>1. i + 1 \in 1..Len(unread) /\ u + (i + 1) = v + i
        BY <1>0, <1>3, <3>1, <3>3
      <4> QED BY <1>3, <3>3, <4>1
    <3>6. collected[1] = condition[u + 1] /\ condition[v] \in Word
      <4>1. 1 \in 1..Len(unread) /\ Head(unread) = unread[1]
        BY <1>0, <2>1, <3>3
      <4> QED BY <1>3, <2>1, <3>1, <4>1
    <3>7. rest # <<>> => Head(rest) \notin Word
      <4> SUFFICES ASSUME rest # <<>> PROVE Head(rest) \notin Word
        OBVIOUS
      <4>1. 2 \in 2..Len(unread) /\ Head(rest) = unread[2] /\ unread[2 - 1] \in Word
        BY <1>0, <2>1, <3>3
      <4> QED BY <4>1 DEF LexerInv, NoTwoWords
    <3> QED BY <1>3, <2>1, <3>1, <3>3, <3>4, <3>5, <3>6, <3>7
  <2>2. CASE ~(unread # <<>> /\ Head(unread) \in Word)
    <3>1. collected = <<>> /\ Len(collected) = 0 /\ v = u
      BY <1>3, <1>5, <2>2
    <3> HIDE DEF collected
    <3>2. rest = unread
      BY <1>0, <3>1, SubSeqFull
    <3> HIDE DEF rest
    <3> QED BY <1>0, <1>3, <2>2, <3>1, <3>2
  <2> QED BY <2>1, <2>2
<1> HIDE DEF collected, rest
<1>7. /\ Emitted' = u /\ u >= 0 /\ Len(unread') <= Len(condition)
      /\ \A i \in 1..Len(unread') : unread'[i] = condition[Len(condition) - Len(unread') + i]
      /\ lex_state' \in {"accumulate", "rpar_with_tokens", "eof", "SepLpar"} \cup Quantifier
      /\ lex_state' = "accumulate" => condition[Len(condition) - Len(unread')] = Space
      /\ lex_state' = "rpar_with_tokens" => condition[Len(condition) - Len(unread')] = Item("SepRpar", {})
      /\ lex_state' \in {"SepLpar"} \cup Quantifier =>
           collected = <<>> /\ condition[Len(condition) - Len(unread')] = Item(lex_state', {})
      /\ lex_state' = "eof" => unread' = <<>>
  <2>1. CASE rest = <<>>
    <3>1. unread' = <<>> /\ lex_state' = "eof" /\ Len(unread') = 0 /\ Len(rest) = 0
      BY <1>1, <2>1
    <3>2. Emitted' = u
      BY <1>0, <1>1, <1>3, <1>5, <1>6, <3>1 DEF Emitted, Held, Position
    <3> QED BY <1>0, <1>3, <3>1, <3>2 DEF Quantifier
  <2>2. CASE rest # <<>>
    <3>1. /\ unread' = Tail(rest) /\ Len(unread') = Len(rest) - 1 /\ Len(rest) > 0 /\ Head(rest) = rest[1]
          /\ lex_state' = LexStateAt(rest[1]) /\ \A i \in 1..Len(unread') : unread'[i] = rest[i + 1]
      <4>1. rest \in Seq(Symbol) /\ Len(rest) \in Nat /\ Len(rest) # 0
        BY <1>6, <2>2
      <4>2. /\ Len(Tail(rest)) = Len(rest) - 1 /\ Head(rest) = rest[1]
            /\ \A i \in 1..(Len(rest) - 1) : Tail(rest)[i] = rest[i + 1]
        BY <2>2, <4>1
      <4>3. unread' = Tail(rest) /\ lex_state' = LexStateAt(Head(rest))
        BY <1>1, <2>2
      <4> QED BY <4>1, <4>2, <4>3
    <3>2. rest[1] = condition[v + 1] /\ v + 1 \in 1..Len(condition) /\ v + 1 = Len(condition) - Len(unread')
      <4>1. 1 \in 1..Len(rest) /\ Len(rest) = Len(condition) - v /\ \A i \in 1..Len(rest) : rest[i] = condition[v + i]
        BY <1>6, <3>1
      <4>2. v + 1 = Len(condition) - Len(unread') /\ Len(condition) - v > 0 /\ v \in Nat
        <5>1. PICK k : k = Len(condition)
          OBVIOUS
        <5>2. PICK l : l = Len(rest)
          OBVIOUS
        <5>3. v \in Nat /\ l = k - v /\ k \in Nat /\ l > 0 /\ Len(unread') = l - 1
          BY <1>0, <1>6, <3>1, <5>1, <5>2
        <5> QED BY <5>1, <5>3
      <4> QED BY <1>0, <4>1, <4>2
    <3>3. PICK x : x = condition[v + 1]
      OBVIOUS
    <3>4. x \in Symbol /\ x \notin Word /\ x.token # "SepPipe" /\ lex_state' = LexStateAt(x)
      BY <1>4, <1>6, <2>2, <3>1, <3>2, <3>3
    <3>5. \/ x = Space /\ lex_state' = "accumulate"
          \/ x = Item("SepRpar", {}) /\ lex_state' = "rpar_with_tokens"
          \/ /\ lex_state' \in {"SepLpar"} \cup Quantifier /\ x = Item(lex_state', {})
             /\ x.token = lex_state'
      BY <3>4, SymbolAt
    <3>6. lex_state' \in {"SepLpar"} \cup Quantifier => collected = <<>>
      <4> SUFFICES ASSUME lex_state' \in {"SepLpar"} \cup Quantifier, collected # <<>> PROVE FALSE
        OBVIOUS
      <4>1. x.token \in {"SepLpar"} \cup Quantifier
        BY <3>5 DEF Quantifier
      <4>2. condition[v] \in Word /\ v + 1 \in 2..Len(condition) /\ (v + 1) - 1 = v
        BY <1>0, <1>3, <1>6, <3>2
      <4> QED BY <3>3, <4>1, <4>2 DEF Apart, WordsApart
    <3>7. \A i \in 1..Len(unread') : unread'[i] = condition[Len(condition) - Len(unread') + i]
      <4> SUFFICES ASSUME NEW i \in 1..Len(unread')
                   PROVE  unread'[i] = condition[Len(condition) - Len(unread') + i]
        OBVIOUS
      <4>1. i + 1 \in 1..Len(rest) /\ v + (i + 1) = Len(condition) - Len(unread') + i
        <5>1. PICK l : l = Len(unread')
          OBVIOUS
        <5>2. v + 1 = Len(condition) - l /\ l = Len(rest) - 1 /\ i \in 1..l /\ v \in Nat
              /\ Len(rest) = Len(condition) - v /\ Len(condition) \in Nat
          BY <1>0, <1>6, <3>1, <3>2, <5>1
        <5> QED BY <5>1, <5>2
      <4>2. unread'[i] = rest[i + 1]
        BY <3>1
      <4>3. rest[i + 1] = condition[v + (i + 1)]
        BY <1>6, <4>1
      <4> QED BY <4>1, <4>2, <4>3
    <3>8. lex_state' \in {"accumulate", "rpar_with_tokens", "SepLpar"} \cup Quantifier
      BY <3>5
    <3>9. lex_state' \notin {"condition", "eof"}
      BY <3>8 DEF Quantifier
    <3>10. Emitted' = u
      <4>1. Len(unread') = (Len(condition) - v) - 1 /\ Len(text') = Len(collected) /\ Len(condition') = Len(condition)
        BY <1>1, <1>6, <3>1
      <4>2. Emitted' = (Len(condition) - Len(unread')) - Len(collected) - 1
        BY <3>9, <4>1 DEF Emitted, Held, Position
      <4> QED BY <1>0, <1>3, <1>5, <1>6, <4>1, <4>2
    <3>11. Len(unread') <= Len(condition)
      BY <1>0, <1>6, <3>1
    <3> QED BY <1>3, <3>2, <3>3, <3>5, <3>6, <3>7, <3>8, <3>9, <3>10, <3>11 DEF Quantifier
  <2> QED BY <2>1, <2>2
<1>8. lex_state' \notin LexerEnds /\ lex_state' # "condition" /\ lex_state' \notin {"SepPipe", "aggregation"}
  <2>0. lex_state' \in {"accumulate", "rpar_with_tokens", "eof", "SepLpar"} \cup Quantifier
    BY <1>7
  <2>1. lex_state' \in {"accumulate", "rpar_with_tokens", "eof", "SepLpar", "StmtOneOf", "StmtAllOf"}
    BY <2>0 DEF Quantifier
  <2> QED BY <2>1 DEF LexerEnds
<1>9. Position' = Len(condition) - Len(unread') /\ condition' = condition
  BY <1>1 DEF Position
<1>10. Len(text') <= 1 /\ (text' # <<>> => text'[1] = condition[u + 1])
  BY <1>1, <1>6
<1>11. ReadInv'
  <2>1. Emitted' >= 0 /\ Emitted' + 1 = u + 1 /\ text' = collected
    BY <1>1, <1>3, <1>7
  <2>2. Len(unread') <= Len(condition') /\ \A i \in 1..Len(unread') : unread'[i] = condition'[Position' + i]
    BY <1>7, <1>9
  <2>3. Len(text') <= 1 /\ (text' # <<>> => text'[1] = condition'[Emitted' + 1])
    BY <1>9, <1>10, <2>1
  <2>4. /\ lex_state' = "accumulate" => condition'[Position'] = Space
        /\ lex_state' = "rpar_with_tokens" => condition'[Position'] = Item("SepRpar", {})
        /\ lex_state' \in {"SepLpar"} \cup Quantifier => text' = <<>> /\ condition'[Position'] = Item(lex_state', {})
        /\ lex_state' = "eof" => unread' = <<>>
    BY <1>7, <1>9, <2>1
  <2> QED BY <1>8, <2>1, <2>2, <2>3, <2>4 DEF ReadInv
<1>12. SentInv'
  <2> SUFFICES ASSUME phase' = "collect" PROVE /\ previous' = LastSeen'
                                               /\ tokens' \o channel' = Unspaced(condition')[Emitted']
    BY <1>8, Zenon DEF SentInv, LexerEnds
  <2>1. phase = "collect" /\ tokens' = tokens /\ channel' = channel /\ previous' = previous /\ LastSeen' = LastSeen
    BY <1>1 DEF parser, LastSeen
  <2>2. previous = LastSeen /\ tokens \o channel = Unspaced(condition)[Emitted]
    BY <1>0, <2>1 DEF SentInv, LexerEnds
  <2> QED BY <1>3, <1>7, <1>9, <2>1, <2>2
<1> QED BY <1>11, <1>12

LEMMA EmittedIs ==
  ASSUME LexerInv, ReadInv, lex_state \notin LexerEnds
  PROVE  /\ Position \in Nat /\ Position <= Len(condition) /\ Emitted \in Nat
         /\ Emitted = Position - Len(text) - Held /\ Len(text) \in {0, 1} /\ Held \in {0, 1}
         /\ Len(condition) \in Nat /\ Position = Len(condition) - Len(unread)
         /\ text # <<>> => /\ Len(text) = 1 /\ Emitted < Len(condition)
                           /\ Head(text) = condition[Emitted + 1] /\ Head(text) # Space
         /\ text = <<>> => Len(text) = 0
<1>1. /\ condition \in Seq(Symbol) /\ unread \in Seq(Symbol) /\ text \in Seq(Word)
      /\ Len(unread) <= Len(condition) /\ Len(text) <= 1 /\ Emitted >= 0
      /\ text # <<>> => text[1] = condition[Emitted + 1]
  BY DEF LexerInv, ReadInv
<1>2. Len(condition) \in Nat /\ Len(unread) \in Nat /\ Len(text) \in Nat
  BY <1>1
<1>3. Position = Len(condition) - Len(unread)
  BY DEF Position
<1>4. Position \in Nat /\ Position <= Len(condition) /\ Len(text) \in {0, 1}
  <2>1. PICK c : c = Len(condition)
    OBVIOUS
  <2>2. PICK u : u = Len(unread)
    OBVIOUS
  <2>3. PICK l : l = Len(text)
    OBVIOUS
  <2>4. c \in Nat /\ u \in Nat /\ l \in Nat /\ u <= c /\ l <= 1 /\ Position = c - u
    BY <1>1, <1>2, <1>3, <2>1, <2>2, <2>3
  <2>5. Position \in Nat /\ Position <= c /\ l \in {0, 1}
    BY <2>4
  <2> QED BY <2>1, <2>3, <2>5
<1>5. Held \in {0, 1}
  BY DEF Held
<1>6. Emitted = Position - Len(text) - Held
  BY DEF Emitted
<1>7. Emitted \in Nat
  BY <1>1, <1>4, <1>5, <1>6
<1>8. ASSUME text # <<>>
      PROVE  /\ Len(text) = 1 /\ Emitted < Len(condition)
             /\ Head(text) = condition[Emitted + 1] /\ Head(text) # Space
  <2>1. Len(text) # 0
    BY <1>1, <1>8
  <2>2. Len(text) = 1 /\ Emitted < Len(condition)
    BY <1>2, <1>4, <1>5, <1>6, <2>1
  <2>3. Head(text) = text[1] /\ Head(text) \in Word
    BY <1>1, <1>8
  <2>4. Space \notin Word
    BY WordIs DEF Space, Item, Keyword
  <2> QED BY <1>1, <1>8, <2>2, <2>3, <2>4
<1> QED BY <1>2, <1>3, <1>4, <1>5, <1>6, <1>7, <1>8

\* A step that sends a symbol, and goes on to a state that holds no word.
Skips == \/ Emitted' = Emitted + 1
         \/ Emitted' = Emitted + 2 /\ Emitted + 1 < Len(condition) /\ condition[Emitted + 2] = Space

LEMMA SendReads ==
  ASSUME LexerInv, ParserInv, Apart, ReadInv, SentInv, lex_state \notin LexerEnds, phase = "collect",
         UNCHANGED <<condition, unread, parser>>, text' = <<>>,
         lex_state' \in {"condition", "rpar_with_tokens"},
         lex_state' # "condition" => lex_state = "rpar_with_tokens",
         Emitted < Len(condition), condition[Emitted + 1] # Space, Emit(condition[Emitted + 1]),
         Skips
  PROVE  ReadInv' /\ SentInv'
<1>1. Position' = Position /\ Emitted \in Nat /\ condition' = condition /\ Len(condition) \in Nat
  BY EmittedIs DEF Position
<1>2. /\ previous' = LastSeen' /\ phase' = "collect"
      /\ tokens' \o channel' = Unspaced(condition)[Emitted + 1]
  BY <1>1, SymbolSent
<1>3. Unspaced(condition)[Emitted'] = Unspaced(condition)[Emitted + 1]
  <2>1. CASE Emitted' = Emitted + 2 /\ Emitted + 1 < Len(condition) /\ condition[Emitted + 2] = Space
    <3>1. Emitted + 2 \in 1..Len(condition) /\ (Emitted + 2) - 1 = Emitted + 1
      BY <1>1, <2>1
    <3>2. Unspaced(condition)[Emitted + 2] = Unspaced(condition)[Emitted + 1]
      <4>1. condition \in Seq(Symbol) /\ condition[Emitted + 2] = Space
        BY <2>1 DEF LexerInv
      <4> QED BY <3>1, <4>1, UnspacedIs
    <3> QED BY <2>1, <3>2
  <2> QED BY <2>1 DEF Skips
<1>4. lex_state' \notin LexerEnds /\ lex_state' \in {"condition", "rpar_with_tokens"}
  BY DEF LexerEnds
<1>5. SentInv'
  <2>1. lex_state' # "failed" /\ lex_state' # "end"
    BY <1>4
  <2> QED BY <1>1, <1>2, <1>3, <2>1 DEF SentInv
<1>6. ReadInv'
  <2>1. /\ Len(unread') <= Len(condition') /\ \A i \in 1..Len(unread') : unread'[i] = condition'[Position' + i]
    BY <1>1 DEF ReadInv
  <2>2. Len(text') <= 1 /\ Emitted' >= 0
    <3>1. PICK m : m = Emitted
      OBVIOUS
    <3>2. m \in Nat /\ (Emitted' = m + 1 \/ Emitted' = m + 2)
      BY <1>1, <3>1 DEF Skips
    <3>3. Emitted' >= 0
      BY <3>2
    <3>4. Len(text') = 0
      OBVIOUS
    <3> QED BY <3>3, <3>4
  <2>3. lex_state' = "rpar_with_tokens" => condition'[Position'] = Item("SepRpar", {})
    BY <1>1 DEF ReadInv
  <2>4. lex_state' \notin {"SepPipe", "aggregation", "accumulate", "eof", "SepLpar"} \cup Quantifier
    BY <1>4 DEF Quantifier
  <2> QED BY <1>4, <2>1, <2>2, <2>3, <2>4 DEF ReadInv
<1> QED BY <1>5, <1>6

LEMMA WordReads ==
  ASSUME LexerInv, ParserInv, Apart, ReadInv, SentInv, LexWord
  PROVE  ReadInv' /\ SentInv'
<1>1. /\ lex_state \in {"rpar_with_tokens", "eof"} /\ text # <<>> /\ Emit(Head(text)) /\ text' = <<>>
      /\ UNCHANGED <<condition, unread, lex_state, parser>> /\ phase = "collect" /\ lex_state \notin LexerEnds
  BY DEF LexWord, Emit, ReceiverAlive, LexerEnds
<1>2. /\ Emitted = Position - Len(text) - Held /\ Position \in Nat /\ Held \in {0, 1}
      /\ Len(text) = 1 /\ Emitted < Len(condition) /\ Emitted \in Nat
      /\ Head(text) = condition[Emitted + 1] /\ Head(text) # Space
  BY <1>1, EmittedIs
<1>3. Emitted' = Emitted + 1
  <2>1. Position' = Position /\ Held' = Held /\ Len(text') = 0
    BY <1>1 DEF Position, Held
  <2>2. Emitted' = Position' - Len(text') - Held'
    BY DEF Emitted
  <2> QED BY <1>2, <2>1, <2>2
<1>4. CASE lex_state = "rpar_with_tokens"
  <2>1. /\ lex_state' \in {"condition", "rpar_with_tokens"} /\ condition[Emitted + 1] # Space
        /\ Emit(condition[Emitted + 1]) /\ UNCHANGED <<condition, unread, parser>> /\ Skips
    BY <1>1, <1>2, <1>3, <1>4 DEF Skips
  <2> QED BY <1>1, <1>2, <1>4, <2>1, SendReads
<1>5. CASE lex_state = "eof"
  <2>1. previous' = LastSeen' /\ phase' = "collect" /\ tokens' \o channel' = Unspaced(condition)[Emitted']
    BY <1>1, <1>2, <1>3, SymbolSent
  <2>2. SentInv'
    <3>1. lex_state' = "eof" /\ condition' = condition
      BY <1>1, <1>5
    <3> QED BY <2>1, <3>1 DEF SentInv, LexerEnds
  <2>3. ReadInv'
    <3>1. /\ unread' = <<>> /\ text' = <<>> /\ lex_state' = "eof" /\ Emitted' >= 0
          /\ Len(unread') <= Len(condition')
      <4>1. unread' = <<>> /\ text' = <<>> /\ lex_state' = "eof" /\ condition' = condition
        BY <1>1, <1>5 DEF ReadInv
      <4>2. Emitted' >= 0
        <5>1. PICK m : m = Emitted
          OBVIOUS
        <5>2. m \in Nat /\ Emitted' = m + 1
          BY <1>2, <1>3, <5>1
        <5> QED BY <5>2
      <4>3. Len(condition) \in Nat /\ Len(unread') = 0
        BY <4>1 DEF LexerInv
      <4> QED BY <4>1, <4>2, <4>3
    <3>2. \A i \in 1..Len(unread') : FALSE
      BY <3>1
    <3>3. Len(text') <= 1
      BY <3>1
    <3> QED BY <3>1, <3>2, <3>3 DEF ReadInv, LexerEnds, Quantifier
  <2> QED BY <2>2, <2>3
<1> QED BY <1>1, <1>4, <1>5

LEMMA AccumulateReads ==
  ASSUME LexerInv, ParserInv, Apart, ReadInv, SentInv, LexAccumulate
  PROVE  ReadInv' /\ SentInv'
<1>1. /\ lex_state = "accumulate" /\ lex_state' = "condition" /\ UNCHANGED <<condition, unread, parser>>
      /\ lex_state \notin LexerEnds /\ condition[Position] = Space /\ Held = 1 /\ Held' = 0
  BY DEF LexAccumulate, LexerEnds, ReadInv, Held
<1>2. /\ Emitted = Position - Len(text) - 1 /\ Position \in Nat /\ Emitted \in Nat /\ Position' = Position
      /\ Position <= Len(condition) /\ Len(condition) \in Nat
      /\ text = <<>> => Len(text) = 0
      /\ text # <<>> => Len(text) = 1
  BY <1>1, EmittedIs DEF Position
<1>3. Emitted' = Position' - Len(text') - Held'
  BY DEF Emitted
<1>4. CASE text # <<>>
  <2>1. Emit(Head(text)) /\ text' = <<>> /\ phase = "collect" /\ Len(text') = 0
    BY <1>4 DEF LexAccumulate, Emit, ReceiverAlive
  <2>2. Emitted' = Emitted + 2 /\ Emitted + 2 = Position /\ Emitted + 1 < Len(condition)
    <3>1. Emitted = Position - 1 - 1 /\ Emitted' = Position - 0 - 0
      BY <1>1, <1>2, <1>3, <1>4, <2>1
    <3> QED BY <1>2, <3>1
  <2>3. Head(text) = condition[Emitted + 1] /\ Head(text) # Space /\ Emitted < Len(condition)
    BY <1>1, <1>4, EmittedIs
  <2>4. Skips
    BY <1>1, <2>2 DEF Skips
  <2>5. /\ lex_state' \in {"condition", "rpar_with_tokens"} /\ condition[Emitted + 1] # Space
        /\ Emit(condition[Emitted + 1])
    BY <1>1, <2>1, <2>3
  <2> QED BY <1>1, <2>1, <2>3, <2>4, <2>5, SendReads
<1>5. CASE text = <<>>
  <2>1. text' = <<>> /\ channel' = channel /\ Len(text') = 0
    BY <1>5 DEF LexAccumulate
  <2>2. Emitted' = Position /\ Emitted = Position - 1
    BY <1>1, <1>2, <1>3, <1>5, <2>1
  <2>3. Unspaced(condition)[Position] = Unspaced(condition)[Emitted] /\ Position \in 1..Len(condition)
    <3>1. Position \in 1..Len(condition)
      BY <1>2, <2>2
    <3> QED BY <1>1, <1>2, <2>2, <3>1, UnspacedIs
  <2>4. SentInv'
    <3> SUFFICES ASSUME phase' = "collect"
                 PROVE  previous' = LastSeen' /\ tokens' \o channel' = Unspaced(condition')[Emitted']
      BY <1>1, Zenon DEF SentInv, LexerEnds
    <3>1. phase = "collect" /\ tokens' = tokens /\ previous' = previous /\ LastSeen' = LastSeen
      BY <1>1 DEF parser, LastSeen
    <3>2. previous = LastSeen /\ tokens \o channel = Unspaced(condition)[Emitted]
      BY <1>1, <3>1 DEF SentInv
    <3> QED BY <1>1, <2>1, <2>2, <2>3, <3>1, <3>2
  <2>5. ReadInv'
    <3>1. /\ Len(unread') <= Len(condition') /\ \A i \in 1..Len(unread') : unread'[i] = condition'[Position' + i]
      BY <1>1, <1>2 DEF ReadInv
    <3>2. Len(text') <= 1 /\ Emitted' >= 0
      BY <1>2, <2>1, <2>2
    <3> QED BY <1>1, <2>1, <3>1, <3>2 DEF ReadInv, LexerEnds, Quantifier
  <2> QED BY <2>4, <2>5
<1> QED BY <1>4, <1>5

LEMMA SeparatorReads ==
  ASSUME LexerInv, ParserInv, Apart, ReadInv, SentInv, LexRpar \/ LexSeparator
  PROVE  ReadInv' /\ SentInv'
<1>1. PICK item : /\ item = condition[Position] /\ Emit(item) /\ item # Space
  <2>1. CASE LexRpar
    <3>1. condition[Position] = Item("SepRpar", {}) /\ Emit(Item("SepRpar", {}))
      BY <2>1 DEF LexRpar, ReadInv, LexerEnds
    <3> QED BY <3>1 DEF Space, Item
  <2>2. CASE LexSeparator
    <3>1. condition[Position] = Item(lex_state, {}) /\ Emit(Item(lex_state, {})) /\ lex_state # "Space"
      BY <2>2 DEF LexSeparator, ReadInv, LexerEnds, Quantifier
    <3> QED BY <3>1 DEF Space, Item
  <2> QED BY <2>1, <2>2
<1>2. /\ text = <<>> /\ text' = <<>> /\ lex_state' = "condition" /\ UNCHANGED <<condition, unread, parser>>
      /\ lex_state \in {"rpar_with_tokens", "SepLpar"} \cup Quantifier
      /\ phase = "collect"
  <2>1. CASE LexRpar
    BY <2>1 DEF LexRpar, Emit, ReceiverAlive
  <2>2. CASE LexSeparator
    BY <2>2 DEF LexSeparator, Emit, ReceiverAlive, ReadInv, LexerEnds, Quantifier
  <2> QED BY <2>1, <2>2
<1>3. lex_state \notin LexerEnds /\ Held = 1 /\ Held' = 0
  BY <1>2 DEF LexerEnds, Quantifier, Held
<1>4. /\ Emitted = Position - Len(text) - 1 /\ Position \in Nat /\ Emitted \in Nat /\ Position' = Position
      /\ Position <= Len(condition) /\ Len(condition) \in Nat /\ Len(text) = 0 /\ Len(text') = 0
  BY <1>2, <1>3, EmittedIs DEF Position
<1>5. Emitted' = Position' - Len(text') - Held'
  BY DEF Emitted
<1>6. Emitted' = Emitted + 1 /\ Emitted + 1 = Position /\ Emitted < Len(condition)
  BY <1>3, <1>4, <1>5
<1>7. /\ lex_state' \in {"condition", "rpar_with_tokens"} /\ condition[Emitted + 1] # Space
      /\ Emit(condition[Emitted + 1]) /\ Skips
  BY <1>1, <1>2, <1>6 DEF Skips
<1> QED BY <1>2, <1>3, <1>6, <1>7, SendReads

LEMMA EofReads ==
  ASSUME LexerInv, ParserInv, Apart, ReadInv, SentInv, LexEof
  PROVE  ReadInv' /\ SentInv'
<1>1. /\ lex_state = "eof" /\ text = <<>> /\ lex_state' = "end" /\ phase = "collect"
      /\ channel' = Append(channel, Item("LitEof", {})) /\ UNCHANGED <<condition, unread, parser>>
      /\ unread = <<>> /\ Held = 0 /\ lex_state \notin LexerEnds
  BY DEF LexEof, Emit, ReceiverAlive, ReadInv, LexerEnds, Held
<1>2. Emitted = Len(condition)
  <2>1. Emitted = Position - Len(text) - Held /\ Position = Len(condition) - Len(unread) /\ Len(text) = 0
        /\ Len(unread) = 0 /\ Len(condition) \in Nat
    BY <1>1, EmittedIs
  <2> QED BY <1>1, <2>1
<1>3. previous = LastSeen /\ tokens \o channel = Text
  BY <1>1, <1>2 DEF SentInv, Text
<1>4. tokens' \o channel' = Append(Text, Item("LitEof", {})) /\ previous' = LastSeen' /\ Text' = Text
  <2>1. tokens' = tokens /\ previous' = previous /\ LastSeen' = LastSeen
    BY <1>1 DEF parser, LastSeen
  <2>2. tokens \o Append(channel, Item("LitEof", {})) = Append(tokens \o channel, Item("LitEof", {}))
    <3>1. tokens \in Seq(Tokens) /\ channel \in Seq(Tokens) /\ Item("LitEof", {}) \in Tokens
      BY SymbolKinds DEF LexerInv, ParserInv
    <3> QED BY <3>1, Joined
  <2> QED BY <1>1, <1>3, <2>1, <2>2, StillMeant
<1>5. SentInv'
  <2>1. channel' # <<>>
    BY <1>1 DEF LexerInv
  <2> QED BY <1>1, <1>4, <2>1 DEF SentInv, LexerEnds
<1>6. ReadInv'
  BY <1>1 DEF ReadInv, LexerEnds
<1> QED BY <1>5, <1>6

LEMMA LexerSynced ==
  ASSUME LexerInv, ParserInv, LexSynced, LexStep \/ LexTimeout
  PROVE  LexSynced'
<1>0. UNCHANGED condition
  BY DEF LexStep, LexTimeout, LexCondition, LexWord, LexAccumulate, LexRpar, LexSeparator,
         LexPipe, LexAggregation, LexEof, LexSendFails, LexPanics, lexer
<1>1. SUFFICES ASSUME Apart PROVE ReadInv' /\ SentInv'
  BY <1>0, StillMeant DEF LexSynced
<1>2. ReadInv /\ SentInv
  BY <1>1 DEF LexSynced
<1>3. CASE LexCondition
  BY <1>1, <1>2, <1>3, ConditionReads
<1>4. CASE LexWord
  BY <1>1, <1>2, <1>4, WordReads
<1>5. CASE LexAccumulate
  BY <1>1, <1>2, <1>5, AccumulateReads
<1>6. CASE LexRpar \/ LexSeparator
  BY <1>1, <1>2, <1>6, SeparatorReads
<1>7. CASE LexEof
  BY <1>1, <1>2, <1>7, EofReads
<1>8. CASE LexPipe \/ LexAggregation
  BY <1>2, <1>8 DEF LexPipe, LexAggregation, ReadInv, LexerEnds
<1>9. CASE LexSendFails
  BY <1>9 DEF LexSendFails, ReceiverAlive, ReadInv, SentInv, LexerEnds, parser
<1>10. CASE LexTimeout
  <2>1. lex_state' = "timeout"
    BY <1>10 DEF LexTimeout
  <2> QED BY <2>1 DEF ReadInv, SentInv, LexerEnds
<1>11. CASE LexPanics
  <2>1. lex_state' = "panicked" /\ (phase' = "collect" => phase = "collect")
    BY <1>11 DEF LexPanics, parser
  <2> QED BY <2>1 DEF ReadInv, SentInv, LexerEnds
<1> QED BY <1>3, <1>4, <1>5, <1>6, <1>7, <1>8, <1>9, <1>10, <1>11 DEF LexStep

------------------------------------------------------------------------------
(* The parser collects the text *)

LEMMA Splits ==
  ASSUME NEW a \in Seq(Tokens), NEW b \in Seq(Tokens), b # <<>>
  PROVE  /\ Len(a \o b) = Len(a) + Len(b) /\ Len(a) < Len(a \o b) /\ (a \o b)[Len(a) + 1] = Head(b)
         /\ \A x \in 1..Len(a) : (a \o b)[x] = a[x]
<1>1. Len(b) \in Nat \ {0} /\ Len(a) \in Nat
  OBVIOUS
<1>2. Len(a \o b) = Len(a) + Len(b)
  OBVIOUS
<1>3. Len(a) + 1 \in 1..(Len(a) + Len(b)) /\ Len(a) < Len(a \o b)
  BY <1>1, <1>2
<1>4. (a \o b)[Len(a) + 1] = b[(Len(a) + 1) - Len(a)]
  BY <1>1, <1>3
<1>5. (a \o b)[Len(a) + 1] = Head(b)
  BY <1>1, <1>4
<1>6. \A x \in 1..Len(a) : (a \o b)[x] = a[x]
  BY <1>1
<1> QED BY <1>2, <1>3, <1>5, <1>6

\* A sequence that begins as the text with x after it is the text if it is as long.
LEMMA SplitsLast ==
  ASSUME NEW a \in Seq(Tokens), NEW b \in Seq(Tokens), b # <<>>, NEW s \in Seq(Tokens), NEW x \in Tokens,
         a \o b = Append(s, x)
  PROVE  \/ Len(a) < Len(s) /\ Head(b) = s[Len(a) + 1] /\ Len(b) > 1
         \/ a = s /\ b = <<x>> /\ Head(b) = x
<1>1. PICK c : c = Append(s, x)
  OBVIOUS
<1>2. c \in Seq(Tokens) /\ Len(c) = Len(s) + 1 /\ c[Len(s) + 1] = x /\ Len(s) \in Nat /\ Len(a) \in Nat /\ Len(b) \in Nat
      /\ \A y \in 1..Len(s) : c[y] = s[y]
  BY <1>1
<1>3. /\ Len(c) = Len(a) + Len(b) /\ Len(a) < Len(c) /\ c[Len(a) + 1] = Head(b)
      /\ \A y \in 1..Len(a) : c[y] = a[y]
  <2>1. /\ Len(a \o b) = Len(a) + Len(b) /\ Len(a) < Len(a \o b) /\ (a \o b)[Len(a) + 1] = Head(b)
        /\ \A y \in 1..Len(a) : (a \o b)[y] = a[y]
    BY Splits
  <2> QED BY <1>1, <2>1
<1>4. CASE Len(a) < Len(s)
  <2>1. Len(a) + 1 \in 1..Len(s) /\ Len(b) > 1
    <3>1. PICK l : l = Len(a)
      OBVIOUS
    <3>2. PICK m : m = Len(s)
      OBVIOUS
    <3>3. PICK n : n = Len(b)
      OBVIOUS
    <3>4. l \in Nat /\ m \in Nat /\ n \in Nat /\ l < m /\ m + 1 = l + n
      BY <1>2, <1>3, <1>4, <3>1, <3>2, <3>3
    <3> QED BY <3>1, <3>2, <3>3, <3>4
  <2> QED BY <1>2, <1>3, <1>4, <2>1
<1>5. CASE ~(Len(a) < Len(s))
  <2>1. Len(a) = Len(s) /\ Len(b) = 1
    <3>1. PICK l : l = Len(a)
      OBVIOUS
    <3>2. PICK m : m = Len(s)
      OBVIOUS
    <3>3. PICK n : n = Len(b)
      OBVIOUS
    <3>4. l \in Nat /\ m \in Nat /\ n \in Nat /\ ~(l < m) /\ m + 1 = l + n /\ l < m + 1
      BY <1>2, <1>3, <1>5, <3>1, <3>2, <3>3
    <3> QED BY <3>1, <3>2, <3>3, <3>4
  <2>2. \A y \in 1..Len(a) : a[y] = s[y]
    BY <1>2, <1>3, <2>1
  <2>3. a = s
    BY <2>1, <2>2
  <2>4. Head(b) = x /\ b = <<Head(b)>>
    BY <1>2, <1>3, <2>1
  <2> QED BY <2>3, <2>4
<1> QED BY <1>4, <1>5

\* The token that the parser takes next is that of the text, or the end.
NextItem ==
  /\ previous = LastSeen
  /\ \A x \in 1..Len(tokens) : tokens[x] = Text[x]
  /\ \/ /\ Len(tokens) < Len(Text) /\ Head(channel) = Text[Len(tokens) + 1]
        /\ lex_state = "end" => Len(channel) > 1
     \/ tokens = Text /\ channel = <<Item("LitEof", {})>> /\ lex_state = "end"

LEMMA NextIsOfText ==
  ASSUME LexerInv, ParserInv, Apart, ReadInv, SentInv, phase = "collect", channel # <<>>, lex_state \notin {"timeout", "panicked"}
  PROVE  NextItem /\ Text \in Seq(Tokens)
<1>1. condition \in Seq(Symbol) /\ channel \in Seq(Tokens) /\ tokens \in Seq(Tokens) /\ Item("LitEof", {}) \in Tokens
  BY SymbolKinds DEF LexerInv, ParserInv
<1>2. Text \in Seq(Tokens)
  BY TextType
<1>3. CASE lex_state \notin LexerEnds
  <2>1. previous = LastSeen /\ tokens \o channel = Unspaced(condition)[Emitted] /\ Emitted \in 0..Len(condition)
    <3>1. /\ Position \in Nat /\ Position <= Len(condition) /\ Emitted = Position - Len(text) - Held
          /\ Len(text) \in {0, 1} /\ Held \in {0, 1} /\ Len(condition) \in Nat /\ Emitted \in Nat
      BY <1>3, EmittedIs
    <3>2. PICK e : e = Emitted
      OBVIOUS
    <3>3. PICK l : l = Len(text)
      OBVIOUS
    <3>4. PICK n : n = Len(condition)
      OBVIOUS
    <3>5. e \in Nat /\ n \in Nat /\ e = Position - l - Held /\ l \in {0, 1} /\ Position <= n
      BY <3>1, <3>2, <3>3, <3>4
    <3>6. e \in 0..n
      BY <3>1, <3>5
    <3> QED BY <1>3, <3>2, <3>4, <3>6 DEF SentInv
  <2>2. PICK c : c = Unspaced(condition)[Emitted]
    OBVIOUS
  <2>3. BeginsWith(Text, c)
    BY <1>1, <2>1, <2>2, UnspacedGrows DEF Text
  <2>4. /\ Len(c) = Len(tokens) + Len(channel) /\ Len(tokens) < Len(c) /\ c[Len(tokens) + 1] = Head(channel)
        /\ \A x \in 1..Len(tokens) : c[x] = tokens[x]
    <3>1. c = tokens \o channel
      BY <2>1, <2>2
    <3>2. /\ Len(tokens \o channel) = Len(tokens) + Len(channel) /\ Len(tokens) < Len(tokens \o channel)
          /\ (tokens \o channel)[Len(tokens) + 1] = Head(channel)
          /\ \A x \in 1..Len(tokens) : (tokens \o channel)[x] = tokens[x]
      BY <1>1, Splits
    <3> QED BY <3>1, <3>2
  <2>5. Len(c) <= Len(Text) /\ \A x \in 1..Len(c) : Text[x] = c[x]
    BY <2>3 DEF BeginsWith
  <2>6. Len(tokens) < Len(Text) /\ Len(tokens) + 1 \in 1..Len(c) /\ 1..Len(tokens) \subseteq 1..Len(c)
    <3>1. Len(tokens) \in Nat /\ Len(channel) \in Nat /\ Len(Text) \in Nat
      BY <1>1, <1>2
    <3>2. PICK l : l = Len(tokens)
      OBVIOUS
    <3>3. PICK n : n = Len(channel)
      OBVIOUS
    <3>4. PICK m : m = Len(Text)
      OBVIOUS
    <3>5. l \in Nat /\ n \in Nat /\ m \in Nat /\ Len(c) = l + n /\ l < Len(c) /\ Len(c) <= m
      BY <2>4, <2>5, <3>1, <3>2, <3>3, <3>4
    <3>6. l < m /\ l + 1 \in 1..Len(c) /\ 1..l \subseteq 1..Len(c)
      BY <3>5
    <3> QED BY <3>2, <3>4, <3>6
  <2>7. Head(channel) = Text[Len(tokens) + 1] /\ \A x \in 1..Len(tokens) : tokens[x] = Text[x]
    BY <2>4, <2>5, <2>6
  <2> QED BY <1>2, <1>3, <2>1, <2>6, <2>7 DEF NextItem, LexerEnds
<1>4. CASE lex_state = "end"
  <2>1. previous = LastSeen /\ tokens \o channel = Append(Text, Item("LitEof", {}))
    BY <1>4 DEF SentInv
  <2>2. PICK c : c = Append(Text, Item("LitEof", {}))
    OBVIOUS
  <2>3. \/ Len(tokens) < Len(Text) /\ Head(channel) = Text[Len(tokens) + 1] /\ Len(channel) > 1
        \/ tokens = Text /\ channel = <<Item("LitEof", {})>>
    <3>1. PICK eof \in Tokens : eof = Item("LitEof", {})
      BY <1>1
    <3>2. PICK t : t = tokens
      OBVIOUS
    <3>3. PICK ch : ch = channel
      OBVIOUS
    <3>4. PICK s \in Seq(Tokens) : s = Text
      BY <1>2
    <3>5. t \in Seq(Tokens) /\ ch \in Seq(Tokens) /\ ch # <<>> /\ t \o ch = Append(s, eof)
      BY <1>1, <2>1, <3>1, <3>2, <3>3, <3>4
    <3>6. \/ Len(t) < Len(s) /\ Head(ch) = s[Len(t) + 1] /\ Len(ch) > 1
          \/ t = s /\ ch = <<eof>> /\ Head(ch) = eof
      <4>1. t \in Seq(Tokens)
        BY <3>5
      <4>2. ch \in Seq(Tokens)
        BY <3>5
      <4>3. ch # <<>>
        BY <3>5
      <4>4. t \o ch = Append(s, eof)
        BY <3>5
      <4> QED BY ONLY <4>1, <4>2, <4>3, <4>4, s \in Seq(Tokens), eof \in Tokens, SplitsLast, Zenon
    <3> QED BY <3>1, <3>2, <3>3, <3>4, <3>6
  <2>4. \A x \in 1..Len(tokens) : tokens[x] = Text[x]
    <3>1. CASE Len(tokens) < Len(Text)
      <4>1. \A x \in 1..Len(tokens) : c[x] = tokens[x]
        <5>1. c = tokens \o channel
          BY <2>1, <2>2
        <5>2. \A x \in 1..Len(tokens) : (tokens \o channel)[x] = tokens[x]
          BY <1>1, Splits
        <5> QED BY <5>1, <5>2
      <4>2. \A x \in 1..Len(tokens) : x \in 1..Len(Text)
        BY <1>1, <1>2, <3>1
      <4>3. \A x \in 1..Len(Text) : c[x] = Text[x]
        BY <1>2, <2>2
      <4> QED BY <4>1, <4>2, <4>3
    <3> QED BY <2>3, <3>1
  <2> QED BY <1>2, <1>4, <2>1, <2>3, <2>4 DEF NextItem
<1>5. lex_state # "failed"
  BY DEF SentInv
<1> QED BY <1>3, <1>4, <1>5 DEF LexerEnds

\* Its token has a place in the text.
LEMMA TextToken ==
  ASSUME LexerInv, Meant, NEW x \in 1..Len(Text)
  PROVE  /\ Text[x].token \in Plain /\ Text[x].token \notin {"LitEof", "Unsupported"}
         /\ x > 1 => Text[x - 1].token \in Precedes(Text[x].token)
<1>1. Whole(Text, 0, Len(Text)) /\ Len(Text) \in Nat
  BY MeantIs
<1>2. InPlace(Text, 0, x)
  BY <1>1 DEF Whole
<1>3. Text[x].token \in Plain
  BY <1>2 DEF InPlace
<1>4. ASSUME x > 1 PROVE Text[x - 1].token \in Precedes(Text[x].token)
  <2>1. x \in 2..Len(Text)
    BY <1>1, <1>4
  <2> QED BY <1>1, <2>1 DEF Whole, Neighbours
<1> QED BY <1>3, <1>4 DEF Plain, Starter, Ender, Operand, Quantifier

LEMMA CollectSynced ==
  ASSUME LexerInv, ParserInv, Apart, ReadInv, SentInv, Collect
  PROVE  SentInv'
<1>1. phase = "collect" /\ channel # <<>> /\ UNCHANGED <<condition, unread, text, lex_state>>
  BY DEF Collect, lexer
<1>2. Text' = Text /\ Emitted' = Emitted
  BY <1>1, StillMeant DEF Emitted, Position, Held
<1>3. lex_state # "failed"
  BY <1>1 DEF SentInv
<1>4. CASE lex_state \in {"timeout", "panicked"}
  BY <1>1, <1>4 DEF SentInv, LexerEnds
<1>5. CASE lex_state \notin {"timeout", "panicked"}
  <2>1. NextItem /\ Text \in Seq(Tokens)
    BY <1>1, <1>5, NextIsOfText
  <2>2. PICK item : item = Head(channel)
    OBVIOUS
  <2>3. /\ channel' = Tail(channel) /\ previous' = item.token /\ phase' = "collect" /\ channel \in Seq(Tokens)
        /\ tokens' = (IF item.token = "LitEof" THEN tokens ELSE Append(tokens, item))
        /\ tokens \in Seq(Tokens) /\ item \in Tokens
    BY <1>1, <2>2 DEF Collect, LexerInv, ParserInv
  <2>4. CASE Len(tokens) < Len(Text) /\ item = Text[Len(tokens) + 1] /\ (lex_state = "end" => Len(channel) > 1)
    <3>1. Len(tokens) + 1 \in 1..Len(Text)
      BY <2>1, <2>3, <2>4
    <3>2. item.token # "LitEof"
      BY <2>4, <3>1, TextType
    <3>3. tokens' = Append(tokens, item) /\ tokens' # <<>> /\ tokens'[Len(tokens')] = item
      BY <2>3, <3>2
    <3>4. previous' = LastSeen'
      BY <2>3, <3>3 DEF LastSeen
    <3>5. tokens' \o channel' = tokens \o channel
      <4>1. Append(tokens, Head(channel)) \o Tail(channel) = tokens \o channel
        BY <1>1, <2>3, Joined, Zenon
      <4> QED BY <2>2, <2>3, <3>3, <4>1
    <3>6. lex_state = "end" => channel' # <<>>
      <4> SUFFICES ASSUME lex_state = "end" PROVE Tail(channel) # <<>>
        BY <2>3
      <4>1. Len(channel) > 1 /\ Len(Tail(channel)) = Len(channel) - 1 /\ Len(channel) \in Nat
        <5>1. Len(channel) > 1 /\ channel \in Seq(Tokens)
          BY <1>1, <2>3, <2>4
        <5>2. Len(channel) \in Nat /\ Len(Tail(channel)) = Len(channel) - 1
          BY <1>1, <5>1
        <5> QED BY <5>1, <5>2
      <4>2. Len(Tail(channel)) # 0
        BY <4>1
      <4>3. Len(<<>>) = 0
        OBVIOUS
      <4> QED BY <4>2, <4>3
    <3>7. /\ lex_state \notin LexerEnds => tokens \o channel = Unspaced(condition)[Emitted]
          /\ lex_state = "end" => tokens \o channel = Append(Text, Item("LitEof", {}))
      <4>1. previous # "LitEof" \/ tokens # Text
        <5>1. Len(tokens) # Len(Text)
          BY <2>1, <2>3, <2>4
        <5> QED BY <5>1
      <4> QED BY <1>1, <4>1 DEF SentInv
    <3> QED BY <1>1, <1>2, <1>3, <2>3, <3>4, <3>5, <3>6, <3>7 DEF SentInv
  <2>5. CASE tokens = Text /\ channel = <<Item("LitEof", {})>> /\ lex_state = "end"
    <3>1. item = Item("LitEof", {})
      BY <2>2, <2>5
    <3>2. tokens' = Text /\ previous' = "LitEof" /\ channel' = <<>>
      BY <2>3, <2>5, <3>1 DEF Item
    <3> QED BY <1>1, <1>2, <2>5, <3>2 DEF SentInv, LexerEnds
  <2> QED BY <2>1, <2>2, <2>4, <2>5 DEF NextItem
<1> QED BY <1>4, <1>5

\* Of a text with a meaning and within the limits no token is refused.
LEMMA NoneIsRefused ==
  ASSUME LexerInv, ParserInv, Meant, ReadInv, SentInv, lex_state \notin {"timeout", "panicked"}, WithinLimits(Text), CollectFails
  PROVE  FALSE
<1>1. phase = "collect" /\ channel # <<>>
  BY DEF CollectFails
<1>2. NextItem /\ Text \in Seq(Tokens) /\ Len(Text) > 0 /\ Whole(Text, 0, Len(Text)) /\ tokens \in Seq(Tokens)
  BY <1>1, NextIsOfText, MeantIs DEF ParserInv
<1>3. PICK item : item = Head(channel)
  OBVIOUS
<1>4. \/ item.token = "Unsupported" \/ ~ValidNext(item.token)
      \/ item.token # "LitEof" /\ Len(tokens) >= MaxTokens
  BY <1>3 DEF CollectFails
<1>5. PICK l : l = Len(tokens)
  OBVIOUS
<1>6. PICK n : n = Len(Text)
  OBVIOUS
<1>7. l \in Nat /\ n \in Nat /\ n > 0 /\ n <= MaxTokens /\ MaxTokens \in Nat
  BY <1>2, <1>5, <1>6, ParserAssumption DEF WithinLimits
<1>8. previous = LastSeen /\ (l # 0 => LastSeen = Text[l].token) /\ (l = 0 => LastSeen = Begin)
  <2>1. previous = LastSeen
    BY <1>2 DEF NextItem
  <2>2. ASSUME l # 0 PROVE LastSeen = Text[l].token
    <3>1. tokens # <<>> /\ l \in 1..Len(tokens)
      BY <1>2, <1>5, <1>7, <2>2
    <3>2. tokens[l] = Text[l]
      BY <1>2, <3>1 DEF NextItem
    <3> QED BY <1>5, <3>1, <3>2 DEF LastSeen
  <2>3. ASSUME l = 0 PROVE LastSeen = Begin
    <3>1. tokens = <<>>
      <4>1. tokens \in Seq(Tokens) /\ Len(tokens) = 0
        BY <1>2, <1>5, <2>3
      <4> QED BY <4>1
    <3> QED BY <3>1 DEF LastSeen
  <2> QED BY <2>1, <2>2, <2>3
<1>9. CASE l < n /\ item = Text[l + 1]
  <2>1. l + 1 \in 1..Len(Text) /\ (l + 1) - 1 = l /\ ~(l >= MaxTokens)
    BY <1>6, <1>7, <1>9
  <2>2. item.token # "Unsupported"
    BY <1>9, <2>1, TextToken
  <2>3. l # 0 => Text[l].token \in Precedes(Text[l + 1].token)
    <3>1. l # 0 => l + 1 > 1
      BY <1>7
    <3> QED BY <2>1, <3>1, TextToken
  <2>4. ValidNext(item.token)
    BY <1>8, <1>9, <2>3 DEF ValidNext
  <2> QED BY <1>4, <1>5, <2>1, <2>2, <2>4
<1>10. CASE tokens = Text /\ channel = <<Item("LitEof", {})>>
  <2>1. item.token = "LitEof" /\ l = n
    BY <1>3, <1>5, <1>6, <1>10 DEF Item
  <2>2. Text[n].token \in Precedes("LitEof")
    BY <1>2, <1>6, StarterFollows DEF Whole
  <2>3. ValidNext("LitEof")
    BY <1>7, <1>8, <2>1, <2>2 DEF ValidNext
  <2> QED BY <1>4, <2>1, <2>3
<1> QED BY <1>2, <1>3, <1>5, <1>6, <1>9, <1>10 DEF NextItem

\* When the channel has been read to its end, the tokens are the text.
LEMMA AllCollected ==
  ASSUME SentInv, phase = "collect", channel = <<>>, lex_state = "end"
  PROVE  previous = "LitEof" /\ tokens = Text
BY DEF SentInv

LEMMA StartIsMade ==
  ASSUME LexerInv, Meant, ReadInv, SentInv, lex_state \notin {"timeout", "panicked"}, WithinLimits(Text), StartParse
  PROVE  CollectOk
<1>1. phase = "collect" /\ channel = <<>> /\ lex_state = "end"
  BY DEF StartParse, SentInv, LexerEnds
<1>2. previous = "LitEof" /\ tokens = Text
  BY <1>1, AllCollected
<1>3. \A n : Depth(n) = Height(Text, n)
  BY <1>2 DEF Depth, Height
<1>4. Whole(Text, 0, Len(Text)) /\ Height(Text, 0) = 0 /\ Len(Text) \in Nat
  BY MeantIs, HeightIs
<1>5. \A n \in 1..Len(Text) : Height(Text, n) >= 0 /\ Height(Text, n) <= MaxDepth /\ Height(Text, n) \in Int
  <2> SUFFICES ASSUME NEW n \in 1..Len(Text)
               PROVE  Height(Text, n) >= 0 /\ Height(Text, n) <= MaxDepth /\ Height(Text, n) \in Int
    OBVIOUS
  <2>1. n \in 0..Len(Text) /\ n \in DOMAIN Text /\ n \in Nat
    BY <1>4, MeantIs
  <2> QED BY <1>4, <2>1, HeightIs DEF Whole, WithinLimits
<1>6. Height(Text, Len(Text)) = 0
  BY <1>4 DEF Whole
<1>7. ParenthesesValid
  BY <1>2, <1>3, <1>5, <1>6, ParserAssumption DEF ParenthesesValid
<1> QED BY <1>1, <1>2, <1>7 DEF CollectOk

------------------------------------------------------------------------------
(* The calls in progress *)

\* The call i, the innermost first, began after the token starts[i], and the text up
\* to the token k has been read.
Level(s, starts, i, k) ==
  /\ starts[i] \in 0..k
  /\ \A x \in starts[i]..k : Height(s, x) >= Len(starts) - i

Nested(s, calls, starts, k) ==
  /\ s \in Seq(Tokens) /\ k \in 0..Len(s)
  /\ calls \in Seq(SaneFrame) /\ calls # <<>>
  /\ starts \in Seq(Nat) /\ Len(starts) = Len(calls) /\ starts[Len(starts)] = 0
  /\ \A i \in 1..Len(calls) : Level(s, starts, i, k)
  /\ \A i \in 2..Len(calls) : starts[i] < starts[i - 1] /\ Awaits(s, calls[i], starts[i], starts[i - 1] - 1)
  /\ Height(s, k) = Len(calls) - 1
  /\ Awaits(s, calls[1], starts[1], k) \/ Follows(s, calls[1], starts[1], k)

\* The token is no parenthesis, and the innermost call goes on.
LEMMA CallGoesOn ==
  ASSUME NEW s, NEW calls, NEW starts, NEW k, Nested(s, calls, starts, k), k < Len(s),
         Rise(s[k + 1].token) = 0, NEW g \in SaneFrame,
         Awaits(s, g, starts[1], k + 1) \/ Follows(s, g, starts[1], k + 1)
  PROVE  Nested(s, <<g>> \o Tail(calls), starts, k + 1)
<1> DEFINE new == <<g>> \o Tail(calls)
<1>1. /\ s \in Seq(Tokens) /\ k \in Nat /\ k + 1 \in 0..Len(s) /\ Len(s) \in Nat
      /\ calls \in Seq(SaneFrame) /\ calls # <<>> /\ starts \in Seq(Nat)
      /\ Len(starts) = Len(calls) /\ starts[Len(starts)] = 0 /\ Len(calls) \in Nat \ {0}
  BY DEF Nested
<1>2. /\ new \in Seq(SaneFrame) /\ new # <<>> /\ Len(new) = Len(calls) /\ new[1] = g
      /\ \A i \in 2..Len(calls) : new[i] = calls[i]
  BY <1>1
<1>3. Height(s, k + 1) = Height(s, k) /\ Height(s, k) = Len(calls) - 1 /\ Height(s, k) \in Int
  <2>1. Height(s, k) \in Int /\ Height(s, k + 1) = Height(s, k) + Rise(s[k + 1].token)
    BY <1>1, HeightIs
  <2> QED BY <2>1 DEF Nested
<1>4. ASSUME NEW i \in 1..Len(calls) PROVE Level(s, starts, i, k + 1)
  <2>1. Level(s, starts, i, k)
    BY DEF Nested
  <2>2. starts[i] \in 0..(k + 1) /\ k \in starts[i]..k
    BY <1>1, <2>1 DEF Level
  <2>3. ASSUME NEW x \in starts[i]..(k + 1) PROVE Height(s, x) >= Len(starts) - i
    <3>1. x \in starts[i]..k \/ x = k + 1
      BY <1>1, <2>2
    <3>2. Height(s, k) >= Len(starts) - i
      BY <2>1, <2>2 DEF Level
    <3> QED BY <1>3, <2>1, <3>1, <3>2 DEF Level
  <2> QED BY <2>2, <2>3 DEF Level
<1>5. ASSUME NEW i \in 2..Len(calls)
      PROVE  starts[i] < starts[i - 1] /\ Awaits(s, new[i], starts[i], starts[i - 1] - 1)
  <2>1. starts[i] < starts[i - 1] /\ Awaits(s, calls[i], starts[i], starts[i - 1] - 1)
    BY DEF Nested
  <2> QED BY <1>2, <2>1
<1> HIDE DEF new
<1>6. Nested(s, new, starts, k + 1)
  BY <1>1, <1>2, <1>3, <1>4, <1>5 DEF Nested
<1> QED BY <1>6 DEF new

\* A call for a group begins.
LEMMA CallOpens ==
  ASSUME NEW s, NEW calls, NEW starts, NEW k, Nested(s, calls, starts, k), k < Len(s),
         s[k + 1].token = "SepLpar", Awaits(s, calls[1], starts[1], k)
  PROVE  Nested(s, <<EmptyFrame>> \o calls, <<k + 1>> \o starts, k + 1)
<1> DEFINE new == <<EmptyFrame>> \o calls
           ns == <<k + 1>> \o starts
<1>1. /\ s \in Seq(Tokens) /\ k \in Nat /\ k + 1 \in 0..Len(s) /\ Len(s) \in Nat
      /\ calls \in Seq(SaneFrame) /\ calls # <<>> /\ starts \in Seq(Nat)
      /\ Len(starts) = Len(calls) /\ starts[Len(starts)] = 0 /\ Len(calls) \in Nat \ {0}
  BY DEF Nested
<1>2. /\ new \in Seq(SaneFrame) /\ new # <<>> /\ Len(new) = Len(calls) + 1 /\ new[1] = EmptyFrame
      /\ \A i \in 2..(Len(calls) + 1) : new[i] = calls[i - 1]
  BY <1>1, EmptyFrameIsSane
<1>3. /\ ns \in Seq(Nat) /\ Len(ns) = Len(calls) + 1 /\ ns[1] = k + 1
      /\ \A i \in 2..(Len(calls) + 1) : ns[i] = starts[i - 1]
  BY <1>1
<1>4. Height(s, k + 1) = Height(s, k) + 1 /\ Height(s, k) = Len(calls) - 1 /\ Height(s, k) \in Int
  <2>1. Height(s, k) \in Int /\ Height(s, k + 1) = Height(s, k) + Rise(s[k + 1].token)
    BY <1>1, HeightIs
  <2> QED BY <2>1 DEF Nested, Rise
<1> HIDE DEF new, ns
<1>5. PICK l : l = Len(calls)
  OBVIOUS
<1>6. l \in Nat \ {0} /\ Len(new) = l + 1 /\ Len(ns) = l + 1 /\ Len(starts) = l /\ Height(s, k) = l - 1
  BY <1>1, <1>2, <1>3, <1>4, <1>5
<1>7. ns[Len(ns)] = 0
  <2>1. l + 1 \in 2..(l + 1) /\ (l + 1) - 1 = l
    BY <1>6
  <2>2. ns[l + 1] = starts[(l + 1) - 1]
    BY <1>3, <1>5, <2>1
  <2> QED BY <1>1, <1>5, <1>6, <2>1, <2>2
<1>8. ASSUME NEW i \in 1..(l + 1) PROVE Level(s, ns, i, k + 1)
  <2>1. CASE i = 1
    <3>1. ns[i] \in 0..(k + 1)
      BY <1>1, <1>3, <2>1, SMTT(60)
    <3>2. ASSUME NEW x \in ns[i]..(k + 1) PROVE Height(s, x) >= Len(ns) - i
      <4>1. x = k + 1 /\ Len(ns) - i = l
        BY <1>1, <1>3, <1>6, <2>1
      <4>2. Height(s, x) = l
        BY <1>4, <1>6, <4>1, SMTT(60)
      <4> QED BY <1>6, <4>1, <4>2
    <3> QED BY <3>1, <3>2 DEF Level
  <2>2. CASE i # 1
    <3>1. PICK j : j = i - 1
      OBVIOUS
    <3>2. j \in 1..l /\ i \in 2..(l + 1) /\ i = j + 1
      BY <1>6, <2>2, <3>1
    <3>3. Level(s, starts, j, k) /\ ns[i] = starts[j]
      BY <1>3, <1>5, <3>1, <3>2 DEF Nested
    <3>4. starts[j] \in 0..(k + 1) /\ k \in starts[j]..k
      BY <1>1, <3>3, SMTT(60) DEF Level
    <3>5. ASSUME NEW x \in starts[j]..(k + 1) PROVE Height(s, x) >= Len(ns) - i
      <4>1. Len(ns) - i = l - j
        BY <1>6, <3>2
      <4>2. \A y \in starts[j]..k : Height(s, y) >= l - j
        BY <1>6, <3>3 DEF Level
      <4>3. CASE x = k + 1
        <5>1. Height(s, x) = l
          BY <1>4, <1>6, <4>3
        <5> QED BY <1>6, <3>2, <4>1, <5>1
      <4>4. CASE x # k + 1
        <5>1. x \in starts[j]..k
          BY <1>1, <3>4, <4>4
        <5> QED BY <4>1, <4>2, <5>1
      <4> QED BY <4>3, <4>4
    <3> QED BY <3>3, <3>4, <3>5 DEF Level
  <2> QED BY <2>1, <2>2
<1>9. ASSUME NEW i \in 2..(l + 1) PROVE ns[i] < ns[i - 1] /\ Awaits(s, new[i], ns[i], ns[i - 1] - 1)
  <2>1. CASE i = 2
    <3>1. 2 \in 2..(Len(calls) + 1)
      BY <1>5, <1>6
    <3>2. ns[2] = starts[1] /\ new[2] = calls[1] /\ ns[1] = k + 1 /\ (k + 1) - 1 = k
      BY <1>1, <1>2, <1>3, <3>1, SMTT(60)
    <3>3. starts[1] \in 0..k
      <4>1. 1 \in 1..Len(calls)
        BY <1>5, <1>6
      <4> QED BY <4>1 DEF Nested, Level
    <3>4. ns[2] < ns[1]
      BY <1>1, <3>2, <3>3
    <3> QED BY <2>1, <3>2, <3>4
  <2>2. CASE i # 2
    <3>1. PICK j : j = i - 1
      OBVIOUS
    <3>2. j \in 2..l /\ i - 1 = j /\ i \in 2..(l + 1) /\ j \in 2..(l + 1)
      BY <1>6, <2>2, <3>1
    <3>3. ns[i] = starts[j] /\ new[i] = calls[j] /\ ns[j] = starts[j - 1]
      BY <1>2, <1>3, <1>5, <3>2
    <3>4. starts[j] < starts[j - 1] /\ Awaits(s, calls[j], starts[j], starts[j - 1] - 1)
      BY <1>5, <3>2 DEF Nested
    <3> QED BY <3>2, <3>3, <3>4
  <2> QED BY <2>1, <2>2
<1>10. Awaits(s, new[1], ns[1], k + 1)
  <2>1. k + 1 \in Nat /\ k + 1 <= Len(s)
    BY <1>1
  <2> QED BY <1>1, <1>2, <1>3, <2>1, CallBegins
<1>11. Height(s, k + 1) = Len(new) - 1
  BY <1>4, <1>6
<1>12. Nested(s, new, ns, k + 1)
  BY <1>1, <1>2, <1>3, <1>6, <1>7, <1>8, <1>9, <1>10, <1>11 DEF Nested
<1> QED BY <1>12 DEF new, ns

LEMMA TwoTailsAre ==
  ASSUME NEW S, NEW s \in Seq(S), Len(s) > 1
  PROVE  \A i \in 1..(Len(s) - 2) : Tail(Tail(s))[i] = s[i + 2]
<1>1. PICK t : t = Tail(s)
  OBVIOUS
<1>2. s # <<>> /\ Len(s) \in Nat
  OBVIOUS
<1>3. t \in Seq(S) /\ Len(t) = Len(s) - 1 /\ \A j \in 1..(Len(s) - 1) : t[j] = s[j + 1]
  BY <1>1, <1>2
<1>4. Len(t) # 0 /\ Len(t) \in Nat
  BY <1>2, <1>3, SMTT(60)
<1>5. t # <<>>
  BY <1>3, <1>4
<1>6. \A i \in 1..(Len(t) - 1) : Tail(t)[i] = t[i + 1]
  BY <1>3, <1>5
<1> SUFFICES ASSUME NEW i \in 1..(Len(s) - 2) PROVE Tail(t)[i] = s[i + 2]
  BY <1>1
<1>7. i + 1 \in 1..(Len(s) - 1) /\ i \in 1..(Len(t) - 1) /\ (i + 1) + 1 = i + 2
  BY <1>2, <1>3
<1> QED BY <1>3, <1>6, <1>7

\* A group ends, and is an operand of the call around it.
LEMMA CallCloses ==
  ASSUME NEW s, NEW calls, NEW starts, NEW k, Nested(s, calls, starts, k), k < Len(s), Len(calls) > 1,
         s[k + 1].token = "SepRpar", Follows(s, calls[1], starts[1], k)
  PROVE  Nested(s, <<WithBranch(calls[2], ReducedOr(Branches(calls[1])))>> \o Tail(Tail(calls)),
                Tail(starts), k + 1)
<1>1. PICK t : t = ReducedOr(Branches(calls[1]))
  OBVIOUS
<1>2. PICK g : g = WithBranch(calls[2], t)
  OBVIOUS
<1> DEFINE new == <<g>> \o Tail(Tail(calls))
           ns == Tail(starts)
<1>3. PICK l : l = Len(calls)
  OBVIOUS
<1>4. /\ s \in Seq(Tokens) /\ k \in Nat /\ k + 1 \in 0..Len(s) /\ Len(s) \in Nat
      /\ calls \in Seq(SaneFrame) /\ starts \in Seq(Nat) /\ starts # <<>>
      /\ l \in Nat /\ l > 1 /\ Len(starts) = l /\ Len(calls) = l /\ starts[l] = 0
      /\ calls[1] \in SaneFrame /\ calls[2] \in SaneFrame
  <2>1. /\ s \in Seq(Tokens) /\ k \in Nat /\ k + 1 \in 0..Len(s) /\ Len(s) \in Nat
        /\ calls \in Seq(SaneFrame) /\ starts \in Seq(Nat)
        /\ Len(starts) = Len(calls) /\ starts[Len(starts)] = 0
    BY DEF Nested
  <2>2. l \in Nat /\ l > 1
    BY <1>3, <2>1
  <2>3. 1 \in 1..Len(calls) /\ 2 \in 1..Len(calls)
    BY <1>3, <2>2
  <2>4. starts # <<>>
    BY <1>3, <2>1, <2>2
  <2> QED BY <1>3, <2>1, <2>2, <2>3, <2>4
<1>5. t \in SaneTree /\ g \in SaneFrame
  BY <1>1, <1>2, <1>4, BranchesAreSane, TreesAreSane, FrameKeepsSane
<1>6. /\ new \in Seq(SaneFrame) /\ new # <<>> /\ Len(new) = l - 1 /\ new[1] = g
      /\ \A i \in 2..(l - 1) : new[i] = calls[i + 1]
  <2>1. PICK u : u = Tail(Tail(calls))
    OBVIOUS
  <2>2. u \in Seq(SaneFrame) /\ Len(u) = l - 2
    BY <1>4, <2>1, TwoTails
  <2>3. \A i \in 1..(l - 2) : u[i] = calls[i + 2]
    BY <1>4, <2>1, TwoTailsAre
  <2>4. PICK v : v = <<g>> \o u
    OBVIOUS
  <2>5. v \in Seq(SaneFrame) /\ v # <<>> /\ Len(v) = 1 + Len(u) /\ v[1] = g
        /\ \A i \in 2..(1 + Len(u)) : v[i] = u[i - 1]
    BY <1>5, <2>2, <2>4
  <2>6. ASSUME NEW i \in 2..(l - 1) PROVE v[i] = calls[i + 1]
    <3>1. i - 1 \in 1..(l - 2) /\ i \in 2..(1 + Len(u)) /\ (i - 1) + 2 = i + 1
      BY <1>4, <2>2
    <3> QED BY <2>3, <2>5, <3>1
  <2>7. Len(v) = l - 1
    BY <1>4, <2>2, <2>5
  <2> QED BY <2>1, <2>4, <2>5, <2>6, <2>7
<1>7. ns \in Seq(Nat) /\ Len(ns) = l - 1 /\ \A i \in 1..(l - 1) : ns[i] = starts[i + 1]
  BY <1>4
<1>8. /\ starts[2] \in Nat /\ starts[1] \in Nat /\ starts[2] < starts[1] /\ starts[1] <= k
      /\ Awaits(s, calls[2], starts[2], starts[1] - 1) /\ Level(s, starts, 1, k)
  <2>1. 1 \in 1..Len(calls) /\ 2 \in 2..Len(calls) /\ 2 \in 1..Len(starts) /\ 2 - 1 = 1
    BY <1>4
  <2>2. Level(s, starts, 1, k) /\ starts[2] < starts[1] /\ Awaits(s, calls[2], starts[2], starts[1] - 1)
    BY <2>1 DEF Nested
  <2> QED BY <1>4, <2>1, <2>2 DEF Level
<1> HIDE DEF new, ns
<1>9. Height(s, k) = l - 1 /\ Height(s, k + 1) = l - 2 /\ Height(s, starts[1]) = l - 1
  <2>1. Height(s, k) \in Int /\ Height(s, k + 1) = Height(s, k) + Rise(s[k + 1].token)
    BY <1>4, HeightIs
  <2>2. Rise("SepRpar") = -1
    BY DEF Rise
  <2>3. Height(s, k) = l - 1 /\ Height(s, k) = Height(s, starts[1])
    BY <1>4 DEF Nested, Follows, Framed
  <2> QED BY <1>4, <2>1, <2>2, <2>3, SMTT(60)
<1>10. Follows(s, g, starts[2], k + 1)
  <2>1. PICK c : c = starts[1] - 1
    OBVIOUS
  <2>2. c + 1 = starts[1] /\ (k + 1) - 1 = k /\ k + 1 \in Nat /\ k + 1 <= Len(s) /\ c + 1 # 0
    BY <1>4, <1>8, <2>1, SMTT(60)
  <2>3. Awaits(s, calls[2], starts[2], c) /\ Framed(s, calls[2], starts[2], c)
    BY <1>8, <2>1 DEF Awaits
  <2>4. s[c + 1].token = "SepLpar"
    BY <2>2 DEF Follows, Framed
  <2>5. \A x \in (c + 1)..((k + 1) - 1) : Height(s, x) >= Height(s, c + 1)
    BY <1>4, <1>8, <1>9, <2>2 DEF Level
  <2>6. Follows(s, calls[1], c + 1, (k + 1) - 1)
    BY <2>2
  <2>7. Operates(s, calls[2], starts[2], c, k + 1, t)
    BY <1>1, <2>2, <2>3, <2>4, <2>5, <2>6, GroupOperates
  <2>8. Extends(calls[2], g, t)
    BY <1>2, <1>4, <1>5 DEF Extends, WithBranch, SaneFrame
  <2> QED BY <2>3, <2>7, <2>8, OperandTaken
<1>11. ASSUME NEW i \in 1..(l - 1) PROVE Level(s, ns, i, k + 1)
  <2>1. i + 1 \in 1..Len(calls) /\ ns[i] = starts[i + 1] /\ Len(ns) - i = (l - 1) - i
    BY <1>4, <1>7
  <2>2. Level(s, starts, i + 1, k)
    BY <2>1 DEF Nested
  <2>3. starts[i + 1] \in 0..k /\ starts[i + 1] \in 0..(k + 1)
        /\ \A x \in starts[i + 1]..k : Height(s, x) >= l - (i + 1)
    BY <1>4, <2>2 DEF Level
  <2>4. ASSUME NEW x \in starts[i + 1]..(k + 1) PROVE Height(s, x) >= (l - 1) - i
    <3>1. CASE x = k + 1
      BY <1>4, <1>9, <3>1
    <3>2. CASE x # k + 1
      <4>1. x \in starts[i + 1]..k /\ l - (i + 1) = (l - 1) - i
        BY <1>4, <2>3, <3>2
      <4> QED BY <2>3, <4>1
    <3> QED BY <3>1, <3>2
  <2> QED BY <2>1, <2>3, <2>4 DEF Level
<1>12. ASSUME NEW i \in 2..(l - 1) PROVE ns[i] < ns[i - 1] /\ Awaits(s, new[i], ns[i], ns[i - 1] - 1)
  <2>1. i \in 1..(l - 1) /\ i - 1 \in 1..(l - 1) /\ i + 1 \in 2..Len(calls) /\ (i + 1) - 1 = i /\ (i - 1) + 1 = i
    BY <1>4
  <2>2. starts[i + 1] < starts[i] /\ Awaits(s, calls[i + 1], starts[i + 1], starts[i] - 1)
    BY <2>1 DEF Nested
  <2>3. ns[i] = starts[i + 1] /\ ns[i - 1] = starts[i] /\ new[i] = calls[i + 1]
    BY <1>6, <1>7, <2>1
  <2> QED BY <2>2, <2>3
<1>13. ns[Len(ns)] = 0 /\ ns[1] = starts[2]
  <2>1. l - 1 \in 1..(l - 1) /\ (l - 1) + 1 = l /\ 1 \in 1..(l - 1) /\ 1 + 1 = 2
    BY <1>4
  <2> QED BY <1>4, <1>7, <2>1
<1>14. Height(s, k + 1) = Len(new) - 1
  BY <1>4, <1>6, <1>9
<1>15. Nested(s, new, ns, k + 1)
  BY <1>4, <1>6, <1>7, <1>10, <1>11, <1>12, <1>13, <1>14 DEF Nested
<1> QED BY <1>1, <1>2, <1>15 DEF new, ns

\* What comes next in a text with a meaning tells whether the call awaits an operand.
LEMMA WhichWay ==
  ASSUME NEW s, Len(s) \in Nat, Whole(s, 0, Len(s)), NEW f, NEW b, NEW k \in Nat, k < Len(s),
         Awaits(s, f, b, k) \/ Follows(s, f, b, k)
  PROVE  /\ s[k + 1].token \in Plain
         /\ s[k + 1].token \in {"KeywordAnd", "KeywordOr", "SepRpar"} => Follows(s, f, b, k)
         /\ s[k + 1].token \in Starter \cup Operand => Awaits(s, f, b, k)
         /\ s[k + 1].token = "KeywordNot" => k = 0 \/ s[k].token \in Opening
         /\ s[k + 1].token \in Quantifier => k = 0 \/ s[k].token \in Opening \cup {"KeywordNot"}
         /\ s[k + 1].token = "Identifier" => s[k + 1].value # {}
         /\ s[k + 1].token \in Operand \ {"Identifier"} => f.wildcard # "None" /\ Named(s[k + 1]) # {}
<1>1. k + 1 \in 1..Len(s) /\ (k + 1) - 1 = k
  OBVIOUS
<1>2. InPlace(s, 0, k + 1)
  BY <1>1 DEF Whole
<1>3. k = 0 => s[k + 1].token \in Starter
  BY DEF Whole
<1>4. k # 0 => Neighbours(s, k + 1)
  <2>1. k # 0 => k + 1 \in 2..Len(s)
    OBVIOUS
  <2> QED BY <2>1 DEF Whole
<1>5. k # 0 => /\ s[k].token \in Precedes(s[k + 1].token)
               /\ s[k].token = "SepLpar" => s[k + 1].token # "SepRpar"
  BY <1>1, <1>4 DEF Neighbours
<1>6. Awaits(s, f, b, k) => k = 0 \/ s[k].token \in {"SepLpar", "KeywordAnd", "KeywordOr", "KeywordNot"} \cup Quantifier
  BY AwaitsAfter
<1>7. Follows(s, f, b, k) => k # 0 /\ s[k].token \in Ender
  BY DEF Follows
<1>8. ASSUME s[k + 1].token \in {"KeywordAnd", "KeywordOr", "SepRpar"}, Awaits(s, f, b, k) PROVE FALSE
  <2>1. k # 0
    BY <1>3, <1>8 DEF Starter, Quantifier
  <2>2. s[k].token \in Operand \cup {"SepLpar", "SepRpar"} /\ (s[k].token = "SepLpar" => s[k + 1].token = "SepRpar")
    <3>1. /\ Precedes("SepRpar") = Operand \cup {"SepLpar", "SepRpar"}
          /\ Precedes("KeywordAnd") = Operand \cup {"SepRpar"} /\ Precedes("KeywordOr") = Operand \cup {"SepRpar"}
      BY DEF Precedes, Quantifier
    <3>2. "SepLpar" \notin Operand \cup {"SepRpar"}
      BY DEF Operand
    <3> QED BY <1>5, <1>8, <2>1, <3>1, <3>2
  <2>3. PICK t : t = s[k].token
    OBVIOUS
  <2>4. t # "SepLpar" /\ t \in Operand \cup {"SepLpar", "SepRpar"}
    BY <1>5, <2>1, <2>2, <2>3
  <2>5. t \in {"SepLpar", "KeywordAnd", "KeywordOr", "KeywordNot"} \cup Quantifier
    BY <1>6, <1>8, <2>1, <2>3
  <2> QED BY <2>4, <2>5 DEF Operand, Quantifier
<1>9. ASSUME s[k + 1].token \in Starter \cup Operand, Follows(s, f, b, k) PROVE FALSE
  <2>1. k # 0 /\ s[k].token \in Ender
    BY <1>7, <1>9
  <2>2. s[k].token \in Opening \cup {"KeywordNot"} \cup Quantifier
    BY <1>5, <1>9, <2>1 DEF Precedes, Starter, Operand, Opening, Quantifier
  <2> QED BY <2>1, <2>2 DEF Ender, Operand, Opening, Quantifier
<1>10. s[k + 1].token = "KeywordNot" => k = 0 \/ s[k].token \in Opening
  BY <1>5 DEF Precedes, Quantifier
<1>11. s[k + 1].token \in Quantifier => k = 0 \/ s[k].token \in Opening \cup {"KeywordNot"}
  <2> SUFFICES ASSUME k # 0, s[k + 1].token \in Quantifier PROVE s[k].token \in Opening \cup {"KeywordNot"}
    OBVIOUS
  <2>1. \A t \in Quantifier : Precedes(t) = Opening \cup {"KeywordNot"}
    BY DEF Precedes, Quantifier
  <2>2. s[k].token \in Precedes(s[k + 1].token)
    BY <1>5
  <2>3. Precedes(s[k + 1].token) = Opening \cup {"KeywordNot"}
    BY <2>1
  <2> QED BY <2>2, <2>3
<1>12. ASSUME s[k + 1].token \in Operand \ {"Identifier"} PROVE f.wildcard # "None" /\ Named(s[k + 1]) # {}
  <2>1. s[k].token \in Quantifier /\ Named(s[k + 1]) # {} /\ k # 0
    BY <1>1, <1>2, <1>12 DEF InPlace
  <2>2. Awaits(s, f, b, k)
    BY <1>9, <1>12
  <2>3. PICK p, o, q \in Nat : Alternatives(s, f, b, p, k) /\ Conjuncts(s, f, b, p, o, k) /\ Pending(s, f, o, q, k)
    BY <2>2 DEF Awaits
  <2>4. /\ b = 0 \/ s[b].token = "SepLpar"
        /\ p = b \/ s[p].token = "KeywordOr"
        /\ o = p \/ s[o].token = "KeywordAnd"
        /\ q = o \/ s[q].token = "KeywordNot"
    BY <2>2, <2>3 DEF Awaits, Framed, Alternatives, Conjuncts, Pending
  <2>5. k # q
    BY <2>1, <2>4 DEF Quantifier
  <2>6. f.wildcard = s[k].token
    BY <2>3, <2>5 DEF Pending
  <2> QED BY <2>1, <2>6 DEF Quantifier
<1> QED BY <1>2, <1>8, <1>9, <1>10, <1>11, <1>12 DEF InPlace

------------------------------------------------------------------------------
(* The parser reads the text *)

Taken == Len(Text) - Len(tokens)
Remains == Len(tokens) <= Len(Text) /\ \A x \in 1..Len(tokens) : tokens[x] = Text[Taken + x]
ParseSynced == Meant /\ phase = "parse" => Remains /\ \E starts : Nested(Text, stack, starts, Taken)

\* The next token of the text is taken.
LEMMA TokenTaken ==
  ASSUME LexerInv, ParserInv, Meant, Remains, tokens # <<>>
  PROVE  /\ Taken \in Nat /\ Taken < Len(Text) /\ Head(tokens) = Text[Taken + 1] /\ Len(Text) \in Nat
         /\ tokens' = Tail(tokens) /\ UNCHANGED condition => Remains' /\ Taken' = Taken + 1
<1>1. tokens \in Seq(Tokens) /\ Text \in Seq(Tokens)
  BY MeantIs DEF ParserInv
<1>2. PICK l : l = Len(tokens)
  OBVIOUS
<1>3. PICK n : n = Len(Text)
  OBVIOUS
<1>4. PICK k : k = Taken
  OBVIOUS
<1>5. l \in Nat \ {0} /\ n \in Nat /\ l <= n /\ k = n - l
  BY <1>1, <1>2, <1>3, <1>4 DEF Remains, Taken
<1>6. k \in Nat /\ k < n /\ 1 \in 1..l
  BY <1>5
<1>7. Head(tokens) = Text[k + 1]
  <2>1. Head(tokens) = tokens[1]
    BY <1>1
  <2>2. \A x \in 1..l : tokens[x] = Text[k + x]
    BY <1>2, <1>4 DEF Remains
  <2> QED BY <1>6, <2>1, <2>2
<1>8. ASSUME tokens' = Tail(tokens), UNCHANGED condition
      PROVE  Remains' /\ Taken' = Taken + 1
  <2>1. Text' = Text
    BY <1>8, StillMeant
  <2>2. Len(tokens') = l - 1 /\ \A x \in 1..(l - 1) : tokens'[x] = tokens[x + 1]
    BY <1>1, <1>2, <1>8
  <2>3. Taken' = n - (l - 1)
    BY <1>3, <2>1, <2>2 DEF Taken
  <2>4. Taken' = k + 1 /\ l - 1 <= n
    BY <1>5, <2>3
  <2>5. ASSUME NEW x \in 1..(l - 1) PROVE tokens'[x] = Text[(k + 1) + x]
    <3>1. x + 1 \in 1..l /\ k + (x + 1) = (k + 1) + x
      BY <1>5, <1>6
    <3>2. tokens[x + 1] = Text[k + (x + 1)]
      BY <1>2, <1>4, <3>1 DEF Remains
    <3> QED BY <2>2, <3>1, <3>2
  <2>6. Remains'
    BY <1>3, <2>1, <2>2, <2>4, <2>5 DEF Remains
  <2> QED BY <1>4, <2>4, <2>6
<1> QED BY <1>3, <1>4, <1>6, <1>7, <1>8

\* Where the innermost call stands when there is a token left, and what that token is.
Place(s, f, b, k, item) ==
  /\ k \in Nat /\ k < Len(s) /\ k + 1 <= Len(s) /\ item = s[k + 1] /\ item \in Tokens
  /\ s \in Seq(Tokens) /\ Len(s) \in Nat /\ Whole(s, 0, Len(s)) /\ f \in SaneFrame
  /\ Awaits(s, f, b, k) \/ Follows(s, f, b, k)

LEMMA PlaceIsThere ==
  ASSUME LexerInv, ParserInv, Meant, Remains, tokens # <<>>,
         NEW starts, Nested(Text, stack, starts, Taken)
  PROVE  Place(Text, Top, starts[1], Taken, Head(tokens)) /\ Top = stack[1]
<1>1. Text \in Seq(Tokens) /\ Len(Text) \in Nat /\ Whole(Text, 0, Len(Text)) /\ tokens \in Seq(Tokens)
  BY MeantIs DEF ParserInv
<1>2. Taken \in Nat /\ Taken < Len(Text) /\ Head(tokens) = Text[Taken + 1]
  BY TokenTaken
<1>3. Head(tokens) \in Tokens
  BY <1>1
<1>4. stack \in Seq(SaneFrame) /\ stack # <<>>
  BY DEF Nested
<1>5. Top = stack[1] /\ Top \in SaneFrame
  BY <1>4 DEF Top
<1>6. Awaits(Text, Top, starts[1], Taken) \/ Follows(Text, Top, starts[1], Taken)
  BY <1>5 DEF Nested
<1>7. Taken + 1 <= Len(Text)
  <2>1. PICK k : k = Taken
    OBVIOUS
  <2>2. k \in Nat /\ k < Len(Text)
    BY <1>2, <2>1
  <2> QED BY <1>1, <2>1, <2>2
<1> QED BY <1>1, <1>2, <1>3, <1>5, <1>6, <1>7 DEF Place

LEMMA GoesOnReads ==
  ASSUME LexerInv, ParserInv, Meant, phase = "parse", Remains, tokens # <<>>,
         NEW starts, Nested(Text, stack, starts, Taken),
         Rise(Head(tokens).token) = 0, NEW g \in SaneFrame, GoesOn(g),
         Awaits(Text, g, starts[1], Taken + 1) \/ Follows(Text, g, starts[1], Taken + 1)
  PROVE  ParseSynced'
<1>1. tokens' = Tail(tokens) /\ stack' = <<g>> \o Tail(stack) /\ UNCHANGED condition
  BY DEF GoesOn, lexer
<1>2. /\ Taken \in Nat /\ Taken < Len(Text) /\ Head(tokens) = Text[Taken + 1]
      /\ Remains' /\ Taken' = Taken + 1 /\ Text' = Text
  BY <1>1, TokenTaken, StillMeant
<1>3. Nested(Text, <<g>> \o Tail(stack), starts, Taken + 1)
  <2>1. PICK k : k = Taken
    OBVIOUS
  <2>2. PICK s : s = Text
    OBVIOUS
  <2>3. /\ Nested(s, stack, starts, k) /\ k < Len(s) /\ Rise(s[k + 1].token) = 0
        /\ Awaits(s, g, starts[1], k + 1) \/ Follows(s, g, starts[1], k + 1)
    BY <1>2, <2>1, <2>2
  <2>4. Nested(s, <<g>> \o Tail(stack), starts, k + 1)
    BY <2>3, CallGoesOn
  <2> QED BY <2>1, <2>2, <2>4
<1> QED BY <1>1, <1>2, <1>3 DEF ParseSynced

\* An operand of one token.
LEMMA OperandReads ==
  ASSUME NEW s, NEW f, NEW b, NEW k, NEW item, Place(s, f, b, k, item), NEW g, NEW t,
         item.token \in Operand, Operates(s, f, b, k, k + 1, t), Extends(f, g, t)
  PROVE  Follows(s, g, b, k + 1)
<1>1. Awaits(s, f, b, k)
  BY WhichWay DEF Place
<1> QED BY <1>1, OperandTaken

LEMMA WordIsRead ==
  ASSUME NEW s, NEW f, NEW b, NEW k, NEW item, Place(s, f, b, k, item), item.token = "Identifier", NEW x \in item.value
  PROVE  WithBranch(f, Leaf(x)) \in SaneFrame /\ Follows(s, WithBranch(f, Leaf(x)), b, k + 1)
<1>1. item \in Tokens /\ x \in Selection /\ f \in SaneFrame
  BY TokenValues DEF Place
<1>2. Leaf(x) \in SaneTree /\ WithBranch(f, Leaf(x)) \in SaneFrame
  BY <1>1, LeafIsSane, FrameKeepsSane
<1>3. Framed(s, f, b, k) /\ k + 1 <= Len(s) /\ s[k + 1].token = "Identifier" /\ x \in s[k + 1].value
  BY DEF Place, Awaits, Follows
<1>4. Operates(s, f, b, k, k + 1, Leaf(x))
  BY <1>3, IdentifierOperates
<1>5. Extends(f, WithBranch(f, Leaf(x)), Leaf(x))
  BY <1>1, <1>2 DEF Extends, WithBranch, SaneFrame
<1>6. item.token \in Operand
  BY DEF Operand
<1> QED BY <1>2, <1>4, <1>5, <1>6, OperandReads

LEMMA QuantifiedIsRead ==
  ASSUME NEW s, NEW f, NEW b, NEW k, NEW item, Place(s, f, b, k, item), item.token \in Operand \ {"Identifier"},
         f.wildcard # "None", Named(item) # {}, NEW order \in SetToSeqs(Named(item)),
         NEW g, g = [WithBranch(f, QuantifiedNode(f.wildcard, order)) EXCEPT !.wildcard = "None"]
  PROVE  g \in SaneFrame /\ Follows(s, g, b, k + 1)
<1>1. item \in Tokens /\ Named(item) \subseteq Selection /\ f \in SaneFrame /\ f.wildcard \in Quantifier
  BY TokenValues DEF Place, SaneFrame
<1>2. PICK t : t = QuantifiedNode(f.wildcard, order)
  OBVIOUS
<1>3. t \in SaneTree
  BY <1>1, <1>2, QuantifiedIsSane
<1>4. PICK h : h = WithBranch(f, t)
  OBVIOUS
<1>5. h \in SaneFrame
  BY <1>1, <1>3, <1>4, FrameKeepsSane
<1>6. g = [h EXCEPT !.wildcard = "None"]
  BY <1>2, <1>4
<1>7. /\ g \in SaneFrame /\ g.and = h.and /\ g.or = h.or /\ g.negated = h.negated
  BY <1>5, <1>6 DEF SaneFrame
<1>8. Framed(s, f, b, k) /\ k + 1 <= Len(s) /\ s[k + 1] = item
  BY DEF Place, Awaits, Follows
<1>9. Operates(s, f, b, k, k + 1, t)
  BY <1>2, <1>8, QuantifiedOperates
<1>10. Extends(f, g, t)
  <2>1. h.or = f.or /\ ~h.negated
    BY <1>1, <1>4 DEF WithBranch, SaneFrame
  <2> QED BY <1>4, <1>7, <2>1 DEF Extends
<1> QED BY <1>7, <1>9, <1>10, OperandReads

LEMMA ConnectiveIsRead ==
  ASSUME NEW s, NEW f, NEW b, NEW k, NEW item, Place(s, f, b, k, item)
  PROVE  /\ item.token = "KeywordAnd" => Awaits(s, f, b, k + 1)
         /\ item.token = "KeywordOr" =>
              Awaits(s, [f EXCEPT !.or = Append(@, ReducedAnd(f.and)), !.and = <<>>], b, k + 1)
         /\ item.token = "KeywordNot" => Awaits(s, [f EXCEPT !.negated = TRUE], b, k + 1)
         /\ item.token \in Quantifier => Awaits(s, [f EXCEPT !.wildcard = item.token], b, k + 1)
<1>1. k \in Nat /\ k < Len(s) /\ k + 1 <= Len(s) /\ item = s[k + 1]
  BY DEF Place
<1>2. /\ item.token \in {"KeywordAnd", "KeywordOr", "SepRpar"} => Follows(s, f, b, k)
      /\ item.token \in Starter \cup Operand => Awaits(s, f, b, k)
      /\ item.token = "KeywordNot" => k = 0 \/ s[k].token \in Opening
      /\ item.token \in Quantifier => k = 0 \/ s[k].token \in Opening \cup {"KeywordNot"}
  BY WhichWay DEF Place
<1>3. ASSUME item.token = "KeywordAnd" PROVE Awaits(s, f, b, k + 1)
  <2>1. NextIs(s, b, k, "KeywordAnd")
    BY <1>1, <1>3 DEF NextIs, Rise
  <2> QED BY <1>2, <1>3, <2>1, AndTaken
<1>4. ASSUME item.token = "KeywordOr"
      PROVE  Awaits(s, [f EXCEPT !.or = Append(@, ReducedAnd(f.and)), !.and = <<>>], b, k + 1)
  <2>1. NextIs(s, b, k, "KeywordOr")
    BY <1>1, <1>4 DEF NextIs, Rise
  <2> QED BY <1>2, <1>4, <2>1, OrTaken
<1>5. ASSUME item.token = "KeywordNot" PROVE Awaits(s, [f EXCEPT !.negated = TRUE], b, k + 1)
  <2>1. NextIs(s, b, k, "KeywordNot")
    BY <1>1, <1>5 DEF NextIs, Rise
  <2>2. Awaits(s, f, b, k)
    BY <1>2, <1>5 DEF Starter
  <2> QED BY <1>2, <1>5, <2>1, <2>2, NotTaken
<1>6. ASSUME item.token \in Quantifier PROVE Awaits(s, [f EXCEPT !.wildcard = item.token], b, k + 1)
  <2>1. NextIs(s, b, k, item.token)
    BY <1>1, <1>6 DEF NextIs, Rise, Quantifier
  <2>2. Awaits(s, f, b, k)
    BY <1>2, <1>6 DEF Starter
  <2> QED BY <1>2, <1>6, <2>1, <2>2, QuantifierTaken
<1> QED BY <1>3, <1>4, <1>5, <1>6

OneToken == ParseIdentifier \/ ParseAnd \/ ParseOr \/ ParseNot \/ ParseQuantifier \/ ParseQuantified

\* The frame with which the innermost call goes on, after a token that is no parenthesis.
LEMMA OneTokenReads ==
  ASSUME LexerInv, ParserInv, Meant, phase = "parse", Remains, tokens # <<>>,
         NEW starts, Nested(Text, stack, starts, Taken), OneToken
  PROVE  \E g \in SaneFrame :
           /\ GoesOn(g) /\ Rise(Head(tokens).token) = 0
           /\ Awaits(Text, g, starts[1], Taken + 1) \/ Follows(Text, g, starts[1], Taken + 1)
<1>1. PICK item : item = Head(tokens)
  OBVIOUS
<1>2. PICK f : f = Top
  OBVIOUS
<1>3. PICK b : b = starts[1]
  OBVIOUS
<1>4. Place(Text, f, b, Taken, item)
  BY <1>1, <1>2, <1>3, PlaceIsThere, SMTT(60)
<1>5. /\ item.token = "KeywordAnd" => Awaits(Text, f, b, Taken + 1)
      /\ item.token = "KeywordOr" =>
           Awaits(Text, [f EXCEPT !.or = Append(@, ReducedAnd(f.and)), !.and = <<>>], b, Taken + 1)
      /\ item.token = "KeywordNot" => Awaits(Text, [f EXCEPT !.negated = TRUE], b, Taken + 1)
      /\ item.token \in Quantifier => Awaits(Text, [f EXCEPT !.wildcard = item.token], b, Taken + 1)
  BY <1>4, ConnectiveIsRead
<1>6. \A g : Awaits(Text, g, b, Taken + 1) => g \in SaneFrame
  BY DEF Awaits, Framed
<1>7. CASE ParseIdentifier
  <2>1. item.token = "Identifier" /\ Rise("Identifier") = 0
    BY <1>1, <1>7 DEF ParseIdentifier, Parsing, Rise
  <2>2. PICK x \in item.value : GoesOn(WithBranch(f, Leaf(x)))
    BY <1>1, <1>2, <1>7 DEF ParseIdentifier
  <2>3. WithBranch(f, Leaf(x)) \in SaneFrame /\ Follows(Text, WithBranch(f, Leaf(x)), b, Taken + 1)
    BY <1>4, <2>1, WordIsRead
  <2> QED BY <1>1, <1>3, <2>1, <2>2, <2>3
<1>8. CASE ParseQuantified
  <2>1. item.token \in Operand \ {"Identifier"} /\ Rise(item.token) = 0 /\ f.wildcard # "None" /\ Named(item) # {}
    BY <1>1, <1>2, <1>8 DEF ParseQuantified, AtQuantified, Parsing, Rise, Operand
  <2>2. PICK order \in SetToSeqs(Named(item)) :
          GoesOn([WithBranch(f, QuantifiedNode(f.wildcard, order)) EXCEPT !.wildcard = "None"])
    BY <1>1, <1>2, <1>8 DEF ParseQuantified
  <2>3. PICK g : g = [WithBranch(f, QuantifiedNode(f.wildcard, order)) EXCEPT !.wildcard = "None"]
    OBVIOUS
  <2>4. g \in SaneFrame /\ Follows(Text, g, b, Taken + 1)
    BY <1>4, <2>1, <2>3, QuantifiedIsRead
  <2>5. GoesOn(g)
    BY <2>2, <2>3
  <2> QED BY <1>1, <1>3, <2>1, <2>4, <2>5
<1>9. CASE ParseAnd
  <2>1. item.token = "KeywordAnd" /\ Rise("KeywordAnd") = 0 /\ GoesOn(f)
    BY <1>1, <1>2, <1>9 DEF ParseAnd, Parsing, Rise
  <2> QED BY <1>1, <1>3, <1>5, <1>6, <2>1
<1>10. CASE ParseOr
  <2>1. PICK g : g = [f EXCEPT !.or = Append(@, ReducedAnd(f.and)), !.and = <<>>]
    OBVIOUS
  <2>2. item.token = "KeywordOr" /\ Rise("KeywordOr") = 0 /\ GoesOn(g)
    BY <1>1, <1>2, <1>10, <2>1 DEF ParseOr, Parsing, Rise
  <2>3. Awaits(Text, g, b, Taken + 1)
    BY <1>5, <2>1, <2>2
  <2> QED BY <1>1, <1>3, <1>6, <2>2, <2>3
<1>11. CASE ParseNot
  <2>1. PICK g : g = [f EXCEPT !.negated = TRUE]
    OBVIOUS
  <2>2. item.token = "KeywordNot" /\ Rise("KeywordNot") = 0 /\ GoesOn(g)
    BY <1>1, <1>2, <1>11, <2>1 DEF ParseNot, Parsing, Rise
  <2>3. Awaits(Text, g, b, Taken + 1)
    BY <1>5, <2>1, <2>2
  <2> QED BY <1>1, <1>3, <1>6, <2>2, <2>3
<1>12. CASE ParseQuantifier
  <2>1. PICK g : g = [f EXCEPT !.wildcard = item.token]
    OBVIOUS
  <2>2. item.token \in Quantifier /\ Rise(item.token) = 0 /\ GoesOn(g)
    BY <1>1, <1>2, <1>12, <2>1 DEF ParseQuantifier, Parsing, Rise, Quantifier
  <2>3. Awaits(Text, g, b, Taken + 1)
    BY <1>5, <2>1, <2>2
  <2> QED BY <1>1, <1>3, <1>6, <2>2, <2>3
<1> QED BY <1>7, <1>8, <1>9, <1>10, <1>11, <1>12 DEF OneToken

\* A call for a group begins or ends.
LEMMA GroupReads ==
  ASSUME LexerInv, ParserInv, Meant, phase = "parse", Remains, tokens # <<>>,
         NEW starts, Nested(Text, stack, starts, Taken), ParseGroup \/ ParseGroupEnds
  PROVE  ParseSynced'
<1>1. PICK s : s = Text
  OBVIOUS
<1>2. PICK k : k = Taken
  OBVIOUS
<1>3. tokens' = Tail(tokens) /\ UNCHANGED condition
  BY DEF ParseGroup, ParseGroupEnds, lexer
<1>4. /\ k < Len(s) /\ Head(tokens) = s[k + 1] /\ Remains' /\ Taken' = k + 1 /\ Text' = s
  BY <1>1, <1>2, <1>3, TokenTaken, StillMeant
<1>5. Nested(s, stack, starts, k) /\ Place(s, stack[1], starts[1], k, Head(tokens)) /\ Top = stack[1]
  BY <1>1, <1>2, PlaceIsThere
<1>6. /\ Head(tokens).token = "SepRpar" => Follows(s, stack[1], starts[1], k)
      /\ Head(tokens).token = "SepLpar" => Awaits(s, stack[1], starts[1], k)
  BY <1>5, WhichWay DEF Place, Starter
<1>7. CASE ParseGroup
  <2>1. Head(tokens).token = "SepLpar" /\ stack' = <<EmptyFrame>> \o stack
    BY <1>7 DEF ParseGroup, Parsing
  <2>2. Nested(s, <<EmptyFrame>> \o stack, <<k + 1>> \o starts, k + 1)
    BY <1>4, <1>5, <1>6, <2>1, CallOpens
  <2> QED BY <1>4, <2>1, <2>2 DEF ParseSynced
<1>8. CASE ParseGroupEnds
  <2>1. /\ Head(tokens).token = "SepRpar" /\ Len(stack) > 1
        /\ stack' = <<WithBranch(stack[2], ReducedOr(Branches(stack[1])))>> \o Tail(Tail(stack))
    BY <1>5, <1>8 DEF ParseGroupEnds, Parsing
  <2>2. Nested(s, stack', Tail(starts), k + 1)
    BY <1>4, <1>5, <1>6, <2>1, CallCloses
  <2> QED BY <1>4, <2>2 DEF ParseSynced
<1> QED BY <1>7, <1>8

\* When the text has been read there is one call, which follows an operand.
LEMMA AtTheEnd ==
  ASSUME NEW s, Whole(s, 0, Len(s)), NEW calls, NEW starts, Nested(s, calls, starts, Len(s))
  PROVE  Follows(s, calls[1], 0, Len(s))
<1>1. Len(s) \in Nat /\ Len(calls) \in Nat /\ Len(starts) = Len(calls) /\ starts[Len(starts)] = 0
  BY DEF Nested
<1>2. Height(s, Len(s)) = 0 /\ Height(s, Len(s)) = Len(calls) - 1
  BY HeightIs DEF Whole, Nested
<1>3. Len(calls) = 1 /\ starts[1] = 0
  <2>1. PICK l : l = Len(calls)
    OBVIOUS
  <2>2. l \in Nat /\ 0 = l - 1
    BY <1>1, <1>2, <2>1
  <2>3. l = 1
    BY <2>2
  <2> QED BY <1>1, <2>1, <2>3
<1>4. s[Len(s)].token \in Ender /\ Len(s) # 0
  BY DEF Whole
<1>5. ASSUME Awaits(s, calls[1], starts[1], Len(s)) PROVE FALSE
  <2>1. s[Len(s)].token \in {"SepLpar", "KeywordAnd", "KeywordOr", "KeywordNot"} \cup Quantifier
    BY <1>4, <1>5, AwaitsAfter
  <2> QED BY <1>4, <2>1 DEF Ender, Operand, Quantifier
<1> QED BY <1>3, <1>5 DEF Nested

LEMMA NoneLeft ==
  ASSUME LexerInv, ParserInv, Meant, Remains, tokens = <<>>, NEW starts, Nested(Text, stack, starts, Taken)
  PROVE  Top = stack[1] /\ Follows(Text, Top, 0, Len(Text))
<1>1. Whole(Text, 0, Len(Text)) /\ Len(Text) \in Nat
  BY MeantIs
<1>2. Taken = Len(Text)
  <2>1. Len(tokens) = 0
    OBVIOUS
  <2> QED BY <1>1, <2>1 DEF Taken
<1>3. Nested(Text, stack, starts, Len(Text)) /\ Top = stack[1]
  BY <1>2 DEF Nested, Top
<1> QED BY <1>1, <1>3, AtTheEnd

LEMMA EndMeans ==
  ASSUME LexerInv, ParserInv, Meant, ParseSynced, ParseEnds
  PROVE  MeansTheCondition'
<1>1. /\ phase = "parse" /\ tokens = <<>> /\ result' = ReducedOr(Branches(Top)) /\ UNCHANGED condition
  BY DEF ParseEnds, lexer
<1>2. Remains /\ \E starts : Nested(Text, stack, starts, Taken)
  BY <1>1 DEF ParseSynced
<1>3. Follows(Text, Top, 0, Len(Text))
  BY <1>1, <1>2, NoneLeft
<1>4. PICK bs : bs = Branches(Top)
  OBVIOUS
<1>5. bs \in Seq(SaneTree) /\ bs # <<>> /\ SomeFit(Text, bs, ExpressionOf(Text, 0, Len(Text)))
  BY <1>3, <1>4, CallFits
<1>6. Meanings' = ExpressionOf(Text, 0, Len(Text)) /\ Text' = Text
  <2>1. Meanings = ExpressionOf(Text, 0, Len(Text))
    BY DEF Meanings, MeaningsOf, ExpressionOf, Means
  <2> QED BY <1>1, <2>1, StillMeant
<1>7. ASSUME NEW m \in ExpressionOf(Text, 0, Len(Text)), NEW e \in Event, Complete(e) \/ NegationFree(Text)
      PROVE  result'[e].matched <=> e \in m
  <2>1. ReducedOr(bs)[e].matched <=> SomeMatch(bs, e)
    BY <1>5, ReducedMatches
  <2>2. SomeMatch(bs, e) <=> e \in m
    BY <1>5, <1>7 DEF SomeFit, Asked
  <2> QED BY <1>1, <1>4, <2>1, <2>2
<1> QED BY <1>6, <1>7 DEF MeansTheCondition

\* The second pass rejects no text with a meaning.
LEMMA ParseNeverFails ==
  ASSUME LexerInv, ParserInv, Meant, ParseSynced, ParseFails
  PROVE  FALSE
<1>1. phase = "parse"
  BY DEF ParseFails, Parsing, AtQuantified
<1>2. Remains /\ \E starts : Nested(Text, stack, starts, Taken)
  BY <1>1 DEF ParseSynced
<1>3. PICK starts : Nested(Text, stack, starts, Taken)
  BY <1>2
<1>4. \A s, f, b, c : Follows(s, f, b, c) => f.and # <<>> /\ Branches(f) # <<>>
  BY CallFits DEF Follows
<1>5. CASE tokens = <<>>
  <2>1. Branches(Top) = <<>>
    BY <1>5 DEF ParseFails, Parsing, AtQuantified
  <2>2. Follows(Text, Top, 0, Len(Text))
    BY <1>2, <1>3, <1>5, NoneLeft
  <2> QED BY <1>4, <2>1, <2>2
<1>6. CASE tokens # <<>>
  <2>1. PICK item : item = Head(tokens)
    OBVIOUS
  <2>2. PICK s, k, f, b : s = Text /\ k = Taken /\ f = Top /\ b = starts[1]
    OBVIOUS
  <2>3. Place(s, f, b, k, item)
    BY <1>2, <1>3, <1>6, <2>1, <2>2, PlaceIsThere
  <2>4. /\ item.token \in {"KeywordAnd", "KeywordOr", "SepRpar"} => Follows(s, f, b, k)
        /\ item.token = "Identifier" => item.value # {}
        /\ item.token \in Operand \ {"Identifier"} => f.wildcard # "None" /\ Named(item) # {}
    BY <2>3, WhichWay DEF Place
  <2>5. /\ item.token \in {"KeywordOr", "SepRpar"} => f.and # <<>> /\ Branches(f) # <<>>
    BY <1>4, <2>4
  <2>6. \/ item.token = "Identifier" /\ item.value = {}
        \/ item.token = "KeywordOr" /\ f.and = <<>>
        \/ item.token \in Operand \ {"Identifier"} /\ (f.wildcard = "None" \/ Named(item) = {})
        \/ item.token = "SepRpar" /\ Branches(f) = <<>>
    BY <1>6, <2>1, <2>2 DEF ParseFails, Parsing, AtQuantified, Operand
  <2> QED BY <2>4, <2>5, <2>6
<1> QED BY <1>5, <1>6

\* The second pass begins at the beginning of the text.
LEMMA StartReads ==
  ASSUME LexerInv, ParserInv, Meant, SentInv, StartParse
  PROVE  ParseSynced'
<1> SUFFICES ASSUME phase' = "parse" PROVE ParseSynced'
  BY DEF ParseSynced
<1>1. CollectOk /\ stack' = <<EmptyFrame>> /\ UNCHANGED <<condition, tokens>> /\ phase = "collect"
      /\ channel = <<>> /\ lex_state = "end"
  BY DEF StartParse, Fails, CollectOk, lexer
<1>2. tokens' = Text /\ Text' = Text
  BY <1>1, AllCollected, StillMeant
<1>3. Text \in Seq(Tokens) /\ Len(Text) \in Nat /\ Whole(Text, 0, Len(Text))
  BY MeantIs
<1>4. Taken' = 0 /\ Remains'
  <2>1. Taken' = Len(Text) - Len(Text)
    BY <1>2 DEF Taken
  <2>2. Taken' = 0
    BY <1>3, <2>1
  <2>3. \A x \in 1..Len(Text) : 0 + x = x
    BY <1>3
  <2> QED BY <1>2, <1>3, <2>2, <2>3 DEF Remains
<1>5. Nested(Text, <<EmptyFrame>>, <<0>>, 0)
  <2>1. PICK calls : calls = <<EmptyFrame>>
    OBVIOUS
  <2>2. PICK starts : starts = <<0>>
    OBVIOUS
  <2>3. /\ calls \in Seq(SaneFrame) /\ calls # <<>> /\ Len(calls) = 1 /\ calls[1] = EmptyFrame
        /\ starts \in Seq(Nat) /\ Len(starts) = 1 /\ starts[1] = 0
    BY <2>1, <2>2, EmptyFrameIsSane
  <2>4. Height(Text, 0) = 0
    BY HeightIs
  <2>5. Level(Text, starts, 1, 0)
    <3>1. starts[1] \in 0..0 /\ \A x \in starts[1]..0 : x = 0
      BY <2>3
    <3> QED BY <2>3, <2>4, <3>1 DEF Level
  <2>6. Awaits(Text, EmptyFrame, 0, 0)
    BY <1>3, CallBegins
  <2>7. (\A i \in 1..Len(calls) : i = 1) /\ (\A i \in 2..Len(calls) : FALSE)
    BY <2>3
  <2>8. Nested(Text, calls, starts, 0)
    BY <1>3, <2>3, <2>4, <2>5, <2>6, <2>7 DEF Nested
  <2> QED BY <2>1, <2>2, <2>8
<1> QED BY <1>1, <1>2, <1>4, <1>5 DEF ParseSynced

------------------------------------------------------------------------------
(* What the tree means *)

NotRejected == Meant /\ phase = "err" /\ lex_state \notin {"timeout", "panicked"} => ~WithinLimits(Text)

\* A lexer that panicked did so at a word of the condition.
PanicSeen == Apart /\ lex_state = "panicked" => \E i \in 1..Len(condition) : ~condition[i].splits
MeaningInv == LexSynced /\ ParseSynced /\ NotRejected /\ PanicSeen /\ MeansTheCondition

LEMMA MeaningInit == Init => MeaningInv
BY LexSyncedInit DEF Init, MeaningInv, ParseSynced, NotRejected, PanicSeen, MeansTheCondition

\* The next symbol sets no state in which the task has ended.
LEMMA ConditionGoesOn == LexerInv /\ LexCondition => lex_state' \notin LexerEnds
<1> SUFFICES ASSUME LexerInv, LexCondition PROVE lex_state' \notin LexerEnds
  OBVIOUS
<1> DEFINE collected == IF unread # <<>> /\ Head(unread) \in Word THEN <<Head(unread)>> ELSE <<>>
           rest == SubSeq(unread, Len(collected) + 1, Len(unread))
<1>1. rest \in Seq(Symbol)
  <2>1. unread \in Seq(Symbol) /\ Len(collected) \in {0, 1}
    BY DEF LexerInv
  <2> HIDE DEF collected
  <2> QED BY <2>1
<1>2. \A x \in Symbol : LexStateAt(x) \notin LexerEnds
  <2> SUFFICES ASSUME NEW x \in Symbol PROVE LexStateAt(x) \notin LexerEnds
    OBVIOUS
  <2>1. x \in Word => x.token \notin LexerEnds
    BY WordIs DEF LexerEnds, Keyword
  <2>2. x \notin Word => x = Space \/ x.token \notin LexerEnds
    BY SymbolKinds DEF LexerEnds, Separator, Quantifier
  <2> QED BY <2>1, <2>2 DEF LexStateAt, LexerEnds
<1>3. rest # <<>> => Head(rest) \in Symbol
  BY <1>1
<1>4. lex_state' = "eof" \/ (rest # <<>> /\ lex_state' = LexStateAt(Head(rest)))
  BY DEF LexCondition
<1> HIDE DEF rest
<1> QED BY <1>2, <1>3, <1>4 DEF LexerEnds

LEMMA LexerPanicSeen ==
  ASSUME LexerInv, LexSynced, lex_state # "panicked", LexStep \/ LexTimeout
  PROVE  PanicSeen'
<1>1. CASE LexPanics
  <2>1. lex_state \notin LexerEnds /\ text # <<>> /\ ~Head(text).splits /\ UNCHANGED condition
    BY <1>1 DEF LexPanics, KeywordPanics, Checked, LexerEnds
  <2>2. SUFFICES ASSUME Apart PROVE \E i \in 1..Len(condition) : ~condition[i].splits
    BY <2>1, StillMeant DEF PanicSeen
  <2>3. ReadInv
    BY <2>2 DEF LexSynced
  <2>4. /\ condition \in Seq(Symbol) /\ unread \in Seq(Symbol) /\ text \in Seq(Word)
    BY DEF LexerInv
  <2>5. PICK n \in Nat, u \in Nat, k \in Nat : n = Len(condition) /\ u = Len(unread) /\ k = Len(text)
    BY <2>4
  <2>6. k >= 1 /\ Head(text) = text[1]
    BY <2>1, <2>4, <2>5
  <2>7. Held \in {0, 1}
    BY DEF Held
  <2>8. Emitted >= 0 /\ text[1] = condition[Emitted + 1] /\ Emitted = (n - u) - k - Held
    BY <2>1, <2>3, <2>5 DEF ReadInv, Emitted, Position
  <2>9. Emitted + 1 \in 1..n
    BY <2>5, <2>6, <2>7, <2>8
  <2> QED BY <2>1, <2>5, <2>6, <2>8, <2>9
<1>2. CASE ~LexPanics
  <2>1. lex_state' # "panicked"
    BY <1>2, ConditionGoesOn DEF LexStep, LexTimeout, LexWord, LexAccumulate, LexRpar, LexSeparator,
       LexPipe, LexAggregation, LexEof, LexSendFails, LexerEnds
  <2> QED BY <2>1 DEF PanicSeen
<1> QED BY <1>1, <1>2

\* The lexer leaves the parser's part as it is, and does not go on from a timeout.
LEMMA LexerKeepsMeaning ==
  ASSUME LexerInv, ParserInv, MeaningInv, LexStep \/ LexTimeout
  PROVE  MeaningInv'
<1>1. UNCHANGED <<condition, parser>> /\ lex_state \notin {"timeout", "panicked"}
  BY DEF LexStep, LexTimeout, LexCondition, LexWord, LexAccumulate, LexRpar, LexSeparator,
         LexPipe, LexAggregation, LexEof, LexSendFails, LexPanics, Emitting, KeywordPanics, Checked,
         LexerEnds, Quantifier
<1>2. Meant' = Meant /\ Text' = Text /\ Meanings' = Meanings
  BY <1>1, StillMeant
<1>3. phase' = phase /\ tokens' = tokens /\ stack' = stack /\ result' = result /\ condition' = condition
  BY <1>1 DEF parser
<1>4. LexSynced'
  BY LexerSynced DEF MeaningInv
<1>5. ParseSynced'
  BY <1>2, <1>3 DEF MeaningInv, ParseSynced, Remains, Taken
<1>6. NotRejected'
  BY <1>1, <1>2, <1>3 DEF MeaningInv, NotRejected
<1>7. MeansTheCondition'
  BY <1>2, <1>3 DEF MeaningInv, MeansTheCondition
<1>8. PanicSeen'
  BY <1>1, LexerPanicSeen DEF MeaningInv
<1> QED BY <1>4, <1>5, <1>6, <1>7, <1>8 DEF MeaningInv

LEMMA ParserSynced ==
  ASSUME LexerInv, ParserInv, LexSynced, ParseStep
  PROVE  LexSynced'
<1>1. UNCHANGED <<condition, unread, text, lex_state>>
  BY DEF ParseStep, Collect, CollectFails, StartParse, ParseIdentifier, ParseAnd, ParseOr, ParseNot,
         ParseQuantifier, ParseQuantified, ParseGroup, ParseGroupEnds, ParseEnds, ParseFails,
         Rejects, Fails, GoesOn, lexer
<1>2. SUFFICES ASSUME Apart PROVE ReadInv' /\ SentInv'
  BY <1>1, StillMeant DEF LexSynced
<1>3. ReadInv /\ SentInv
  BY <1>2 DEF LexSynced
<1>4. ReadInv'
  BY <1>1, <1>3 DEF ReadInv, Emitted, Position, Held
<1>5. CASE Collect
  BY <1>2, <1>3, <1>4, <1>5, CollectSynced
<1>6. CASE ~Collect
  <2>1. phase' # "collect"
    BY <1>6 DEF ParseStep, CollectFails, StartParse, ParseIdentifier, ParseAnd, ParseOr, ParseNot,
           ParseQuantifier, ParseQuantified, ParseGroup, ParseGroupEnds, ParseEnds, ParseFails,
           Rejects, Fails, GoesOn, AtQuantified, Parsing
  <2> QED BY <1>4, <2>1 DEF SentInv
<1> QED BY <1>5, <1>6

\* A step of the parser.
LEMMA ParserKeepsMeaning ==
  ASSUME LexerInv, ParserInv, MeaningInv, ParseStep
  PROVE  MeaningInv'
<1>1. UNCHANGED <<condition, unread, text, lex_state>>
  BY DEF ParseStep, Collect, CollectFails, StartParse, ParseIdentifier, ParseAnd, ParseOr, ParseNot,
         ParseQuantifier, ParseQuantified, ParseGroup, ParseGroupEnds, ParseEnds, ParseFails,
         Rejects, Fails, GoesOn, lexer
<1>2. Meant' = Meant /\ Text' = Text /\ Meanings' = Meanings
  BY <1>1, StillMeant
<1>0. LexSynced'
  BY ParserSynced DEF MeaningInv
<1>9. PanicSeen'
  BY <1>1, StillMeant DEF MeaningInv, PanicSeen
<1>3. CASE ~Meant
  <2>1. ParseSynced' /\ NotRejected'
    BY <1>2, <1>3 DEF ParseSynced, NotRejected
  <2>2. MeansTheCondition'
    BY <1>1, <1>2, <1>3 DEF Meant, MeansTheCondition
  <2> QED BY <1>0, <1>9, <2>1, <2>2 DEF MeaningInv
<1>4. CASE Meant
  <2>1. ReadInv /\ SentInv /\ ParseSynced
    BY <1>4, MeantIs DEF MeaningInv, LexSynced
  <2>3. CASE Collect
    <3>1. phase' = "collect"
      BY <2>3 DEF Collect
    <3> QED BY <1>0, <1>9, <3>1 DEF MeaningInv, ParseSynced, NotRejected, MeansTheCondition
  <2>4. CASE phase' = "err"
    <3>1. ParseSynced' /\ MeansTheCondition'
      BY <2>4 DEF ParseSynced, MeansTheCondition
    <3>2. NotRejected'
      <4> SUFFICES ASSUME lex_state \notin {"timeout", "panicked"}, WithinLimits(Text) PROVE FALSE
        BY <1>1, <1>2 DEF NotRejected
      <4>1. ~CollectFails
        BY <1>4, <2>1, NoneIsRefused
      <4>2. ~ParseFails
        BY <1>4, <2>1, ParseNeverFails
      <4>3. ASSUME StartParse PROVE FALSE
        <5>1. CollectOk
          BY <1>4, <2>1, <4>3, StartIsMade
        <5> QED BY <2>4, <4>3, <5>1 DEF StartParse
      <4>4. phase \in {"collect", "parse"}
        BY DEF ParseStep, Collect, CollectFails, StartParse, ParseIdentifier, ParseAnd, ParseOr, ParseNot,
               ParseQuantifier, ParseQuantified, ParseGroup, ParseGroupEnds, ParseEnds, ParseFails,
               Parsing, AtQuantified
      <4> QED BY <2>4, <4>1, <4>2, <4>3, <4>4 DEF ParseStep, Collect, ParseIdentifier, ParseAnd, ParseOr,
              ParseNot, ParseQuantifier, ParseQuantified, ParseGroup, ParseGroupEnds, ParseEnds, GoesOn
    <3> QED BY <1>0, <1>9, <3>1, <3>2 DEF MeaningInv
  <2>5. CASE StartParse /\ phase' # "err"
    <3>1. phase' = "parse" /\ ParseSynced'
      BY <1>4, <2>1, <2>5, StartReads DEF StartParse, Fails
    <3> QED BY <1>0, <1>9, <3>1 DEF MeaningInv, NotRejected, MeansTheCondition
  <2>6. CASE OneToken
    <3>1. phase = "parse" /\ tokens # <<>>
      BY <2>6 DEF OneToken, ParseIdentifier, ParseAnd, ParseOr, ParseNot, ParseQuantifier, ParseQuantified,
             AtQuantified, Parsing
    <3>2. Remains
      BY <1>4, <2>1, <3>1 DEF ParseSynced
    <3>3. PICK starts : Nested(Text, stack, starts, Taken)
      BY <1>4, <2>1, <3>1 DEF ParseSynced
    <3>4. PICK g \in SaneFrame :
            /\ GoesOn(g) /\ Rise(Head(tokens).token) = 0
            /\ Awaits(Text, g, starts[1], Taken + 1) \/ Follows(Text, g, starts[1], Taken + 1)
      BY <1>4, <2>6, <3>1, <3>2, <3>3, OneTokenReads
    <3>5. ParseSynced'
      BY <1>4, <3>1, <3>2, <3>3, <3>4, GoesOnReads
    <3>6. phase' = "parse"
      BY <3>1, <3>4 DEF GoesOn
    <3> QED BY <1>0, <1>9, <3>5, <3>6 DEF MeaningInv, NotRejected, MeansTheCondition
  <2>7. CASE ParseGroup \/ ParseGroupEnds
    <3>1. phase = "parse" /\ tokens # <<>> /\ phase' = "parse"
      BY <2>7 DEF ParseGroup, ParseGroupEnds, Parsing
    <3>2. Remains
      BY <1>4, <2>1, <3>1 DEF ParseSynced
    <3>3. PICK starts : Nested(Text, stack, starts, Taken)
      BY <1>4, <2>1, <3>1 DEF ParseSynced
    <3>4. ParseSynced'
      BY <1>4, <2>7, <3>1, <3>2, <3>3, GroupReads
    <3> QED BY <1>0, <1>9, <3>1, <3>4 DEF MeaningInv, NotRejected, MeansTheCondition
  <2>8. CASE ParseEnds
    <3>1. phase' = "ok"
      BY <2>8 DEF ParseEnds
    <3>2. MeansTheCondition'
      BY <1>4, <2>1, <2>8, EndMeans
    <3> QED BY <1>0, <1>9, <3>1, <3>2 DEF MeaningInv, ParseSynced, NotRejected
  <2>9. ASSUME CollectFails \/ ParseFails PROVE phase' = "err"
    BY <2>9 DEF CollectFails, ParseFails, Rejects, Fails
  <2> QED BY <2>3, <2>4, <2>5, <2>6, <2>7, <2>8, <2>9, SMTT(60) DEF ParseStep, OneToken
<1> QED BY <1>3, <1>4

LEMMA MeaningKept == IInv /\ MeaningInv /\ [Next]_vars => MeaningInv'
<1> SUFFICES ASSUME IInv, MeaningInv, [Next]_vars PROVE MeaningInv'
  OBVIOUS
<1>1. CASE LexStep \/ LexTimeout
  BY <1>1, LexerKeepsMeaning DEF IInv
<1>2. CASE ParseStep
  BY <1>2, ParserKeepsMeaning DEF IInv
<1>3. CASE UNCHANGED vars
  <2>1. UNCHANGED <<condition, unread, text, lex_state, channel, phase, previous, tokens, stack, result>>
    BY <1>3 DEF vars, lexer, parser
  <2>2. Apart' = Apart /\ Meant' = Meant /\ Text' = Text /\ Meanings' = Meanings
    BY <2>1, StillMeant
  <2>3. LexSynced'
    BY <2>1, <2>2 DEF MeaningInv, LexSynced, ReadInv, SentInv, LastSeen, Emitted, Position, Held
  <2>4. ParseSynced'
    BY <2>1, <2>2 DEF MeaningInv, ParseSynced, Remains, Taken
  <2> QED BY <2>1, <2>2, <2>3, <2>4 DEF MeaningInv, NotRejected, PanicSeen, MeansTheCondition
<1> QED BY <1>1, <1>2, <1>3 DEF Next

LEMMA MeaningInvariant == Spec => []MeaningInv
<1> QED BY MeaningInit, MeaningKept, Invariant, PTL DEF Spec

\* Whatever the condition, the buffer, the limits and the interleaving of the two tasks, the
\* tree matches the events that the condition means by its grammar.
THEOREM TreesMeanTheCondition == Spec => []MeansTheCondition
<1>1. MeaningInv => MeansTheCondition
  BY DEF MeaningInv
<1> QED BY <1>1, MeaningInvariant, PTL

\* The checks on neighbouring tokens, on parentheses and in new_branch() reject no
\* condition that has a meaning and keeps within the limits; only the panic at a word
\* that check_keyword() cannot split does.
THEOREM OnlyBadAreRejected == Spec => []OnlyBadRejected
<1>1. IInv /\ MeaningInv => OnlyBadRejected
  <2> SUFFICES ASSUME IInv, MeaningInv, phase = "err", lex_state # "timeout", WordsApart(condition),
                      Meanings # {}, WithinLimits(Text)
               PROVE  lex_state = "panicked" /\ \E i \in DOMAIN condition : ~condition[i].splits
    BY DEF OnlyBadRejected
  <2>1. Meant /\ lex_state = "panicked"
    BY DEF MeaningInv, NotRejected, Meant
  <2>2. Apart
    BY <2>1, MeantIs DEF IInv
  <2>3. DOMAIN condition = 1..Len(condition)
    BY DEF IInv, LexerInv
  <2> QED BY <2>1, <2>2, <2>3 DEF MeaningInv, PanicSeen
<1> QED BY <1>1, Invariant, MeaningInvariant, PTL

------------------------------------------------------------------------------
(* The tokens are the text, also of a condition without a meaning *)

Piped == \E i \in 1..Len(condition) : condition[i].token = "SepPipe"

\* No end of the stream is on its way, or only behind what the parser rejects.
NoEnd(ch) == \A i \in 1..Len(ch) : ch[i].token # "LitEof"
Spoiled(ch) == \E i \in 1..Len(ch) : ch[i].token = "Unsupported" /\ \A j \in 1..i : ch[j].token # "LitEof"
PipeAhead == \E i \in 1..Len(unread) : unread[i].token = "SepPipe"

\* The parser sees the end only of a stream that the lexer has ended, and never that of
\* a condition with a pipe.
EndInv ==
  /\ lex_state = "eof" => unread = <<>>
  /\ phase = "collect" =>
       /\ lex_state # "end" => previous # "LitEof" /\ NoEnd(channel)
       /\ Piped /\ lex_state = "end" => previous # "LitEof" /\ Spoiled(channel)
       /\ Piped /\ lex_state \notin LexerEnds =>
            PipeAhead \/ lex_state \in {"SepPipe", "aggregation"} \/ Spoiled(channel)

LEMMA EndInit == Init => EndInv
<1> SUFFICES ASSUME Init PROVE EndInv
  OBVIOUS
<1>1. unread = condition /\ lex_state = "condition" /\ channel = <<>> /\ previous = Begin
  BY DEF Init
<1>2. NoEnd(<<>>)
  BY DEF NoEnd
<1>3. Begin # "LitEof"
  BY DEF Begin
<1> QED BY <1>1, <1>2, <1>3 DEF EndInv, Piped, PipeAhead

LEMMA EndOfLonger ==
  ASSUME NEW ch \in Seq(Tokens), NEW x \in Tokens
  PROVE  /\ NoEnd(ch) /\ x.token # "LitEof" => NoEnd(Append(ch, x))
         /\ Spoiled(ch) => Spoiled(Append(ch, x))
         /\ NoEnd(ch) /\ x.token = "Unsupported" => Spoiled(Append(ch, x))
<1>1. PICK l : l = Len(ch)
  OBVIOUS
<1>2. PICK d : d = Append(ch, x)
  OBVIOUS
<1>3. l \in Nat /\ Len(d) = l + 1 /\ d[l + 1] = x /\ \A i \in 1..l : d[i] = ch[i]
  BY <1>1, <1>2
<1>4. NoEnd(ch) /\ x.token # "LitEof" => NoEnd(d)
  BY <1>1, <1>3 DEF NoEnd
<1>5. Spoiled(ch) => Spoiled(d)
  <2> SUFFICES ASSUME Spoiled(ch) PROVE Spoiled(d)
    OBVIOUS
  <2>1. PICK i \in 1..l : ch[i].token = "Unsupported" /\ \A j \in 1..i : ch[j].token # "LitEof"
    BY <1>1 DEF Spoiled
  <2>2. i \in 1..Len(d) /\ d[i] = ch[i] /\ \A j \in 1..i : d[j] = ch[j]
    BY <1>3
  <2> QED BY <2>1, <2>2 DEF Spoiled
<1>6. NoEnd(ch) /\ x.token = "Unsupported" => Spoiled(d)
  <2> SUFFICES ASSUME NoEnd(ch), x.token = "Unsupported" PROVE Spoiled(d)
    OBVIOUS
  <2>1. l + 1 \in 1..Len(d) /\ \A j \in 1..(l + 1) : j \in 1..l \/ j = l + 1
    BY <1>3
  <2>2. \A j \in 1..(l + 1) : d[j].token # "LitEof"
    BY <1>1, <1>3, <2>1 DEF NoEnd
  <2> QED BY <1>3, <2>1, <2>2 DEF Spoiled
<1> QED BY <1>2, <1>4, <1>5, <1>6

LEMMA EndOfShorter ==
  ASSUME NEW ch \in Seq(Tokens), ch # <<>>
  PROVE  /\ NoEnd(ch) => Head(ch).token # "LitEof" /\ NoEnd(Tail(ch))
         /\ Spoiled(ch) /\ Head(ch).token # "Unsupported" => Head(ch).token # "LitEof" /\ Spoiled(Tail(ch))
<1>1. PICK l : l = Len(ch)
  OBVIOUS
<1>2. PICK d : d = Tail(ch)
  OBVIOUS
<1>3. l \in Nat /\ l > 0 /\ Len(d) = l - 1 /\ Head(ch) = ch[1] /\ \A i \in 1..(l - 1) : d[i] = ch[i + 1]
  BY <1>1, <1>2
<1>4. ASSUME NoEnd(ch) PROVE ch[1].token # "LitEof" /\ NoEnd(d)
  <2>1. 1 \in 1..l /\ \A i \in 1..(l - 1) : i + 1 \in 1..l
    BY <1>3
  <2> QED BY <1>1, <1>3, <1>4, <2>1 DEF NoEnd
<1>5. ASSUME Spoiled(ch), ch[1].token # "Unsupported" PROVE ch[1].token # "LitEof" /\ Spoiled(d)
  <2>1. PICK i \in 1..l : ch[i].token = "Unsupported" /\ \A j \in 1..i : ch[j].token # "LitEof"
    BY <1>1, <1>5 DEF Spoiled
  <2>2. i # 1 /\ 1 \in 1..i /\ i - 1 \in 1..(l - 1) /\ (i - 1) + 1 = i
        /\ \A j \in 1..(i - 1) : j + 1 \in 1..i /\ j \in 1..(l - 1)
    BY <1>3, <1>5, <2>1
  <2>3. d[i - 1] = ch[i] /\ \A j \in 1..(i - 1) : d[j] = ch[j + 1]
    BY <1>3, <2>2
  <2>4. Spoiled(d)
    BY <1>3, <2>1, <2>2, <2>3 DEF Spoiled
  <2> QED BY <2>1, <2>2, <2>4
<1> QED BY <1>2, <1>3, <1>4, <1>5

LEMMA PipeKept == UNCHANGED condition => Piped' = Piped
BY DEF Piped

\* The next symbol read is the pipe, or the pipe is still ahead.
LEMMA ConditionEnds ==
  ASSUME LexerInv, EndInv, LexCondition
  PROVE  EndInv'
<1> DEFINE collected == IF unread # <<>> /\ Head(unread) \in Word THEN <<Head(unread)>> ELSE <<>>
           rest == SubSeq(unread, Len(collected) + 1, Len(unread))
<1>1. /\ lex_state = "condition" /\ unread \in Seq(Symbol)
      /\ IF rest = <<>> THEN unread' = <<>> /\ lex_state' = "eof"
         ELSE unread' = Tail(rest) /\ lex_state' = LexStateAt(Head(rest))
      /\ UNCHANGED <<condition, channel, phase, previous>>
  BY DEF LexCondition, LexerInv, parser
<1>2. PipeAhead => \E i \in 1..Len(rest) : rest[i].token = "SepPipe"
  <2> SUFFICES ASSUME PipeAhead PROVE \E i \in 1..Len(rest) : rest[i].token = "SepPipe"
    OBVIOUS
  <2>1. PICK i \in 1..Len(unread) : unread[i].token = "SepPipe"
    BY DEF PipeAhead
  <2>2. CASE unread # <<>> /\ Head(unread) \in Word
    <3>1. collected = <<Head(unread)>> /\ Len(collected) = 1
      BY <2>2
    <3> HIDE DEF collected
    <3>2. rest = Tail(unread)
      BY <1>1, <2>2, <3>1, TailIsSubSeq
    <3> HIDE DEF rest
    <3>3. Head(unread) = unread[1] /\ Len(rest) = Len(unread) - 1
          /\ \A j \in 1..(Len(unread) - 1) : rest[j] = unread[j + 1]
      BY <1>1, <2>2, <3>2
    <3>4. i # 1
      BY <2>1, <2>2, <3>3, WordIs DEF Keyword
    <3>5. i - 1 \in 1..(Len(unread) - 1) /\ (i - 1) + 1 = i
      BY <1>1, <2>1, <3>4
    <3> QED BY <2>1, <3>3, <3>5
  <2>3. CASE ~(unread # <<>> /\ Head(unread) \in Word)
    <3>1. collected = <<>> /\ Len(collected) = 0
      BY <2>3
    <3> HIDE DEF collected
    <3>2. rest = unread
      BY <1>1, <3>1, SubSeqFull
    <3> QED BY <2>1, <3>2
  <2> QED BY <2>2, <2>3
<1>3. rest \in Seq(Symbol)
  <2>1. Len(collected) \in {0, 1}
    OBVIOUS
  <2> HIDE DEF collected
  <2> QED BY <1>1, <2>1
<1> HIDE DEF collected, rest
<1>4. PipeAhead => PipeAhead' \/ lex_state' = "SepPipe"
  <2> SUFFICES ASSUME PipeAhead PROVE PipeAhead' \/ lex_state' = "SepPipe"
    OBVIOUS
  <2>1. PICK i \in 1..Len(rest) : rest[i].token = "SepPipe"
    BY <1>2
  <2>2. rest # <<>>
    <3>1. 1..Len(<<>>) = {}
      OBVIOUS
    <3> QED BY <2>1, <3>1
  <2>3. Head(rest) = rest[1] /\ Len(Tail(rest)) = Len(rest) - 1 /\ Len(rest) \in Nat
        /\ \A j \in 1..(Len(rest) - 1) : Tail(rest)[j] = rest[j + 1]
    BY <1>3, <2>2
  <2>4. CASE i = 1
    <3>1. LexStateAt(rest[1]) = "SepPipe"
      BY <2>1, <2>4 DEF LexStateAt, Space, Item
    <3> QED BY <1>1, <2>2, <2>3, <3>1
  <2>5. CASE i # 1
    <3>1. i - 1 \in 1..(Len(rest) - 1) /\ (i - 1) + 1 = i
      BY <2>1, <2>3, <2>5
    <3>2. i - 1 \in 1..Len(unread') /\ unread'[i - 1].token = "SepPipe"
      BY <1>1, <2>1, <2>2, <2>3, <3>1
    <3> QED BY <3>2 DEF PipeAhead
  <2> QED BY <2>4, <2>5
<1>5. lex_state' # "end" /\ (lex_state' = "eof" => unread' = <<>>)
  <2>1. \A x \in Symbol : LexStateAt(x) \notin {"end", "eof"}
    <3> SUFFICES ASSUME NEW x \in Symbol PROVE LexStateAt(x) \notin {"end", "eof"}
      OBVIOUS
    <3>1. x \in Word => x.token \notin {"end", "eof"}
      BY WordIs DEF Keyword
    <3>2. x \notin Word => x = Space \/ x.token \notin {"end", "eof"}
      BY SymbolKinds DEF Separator, Quantifier
    <3> QED BY <3>1, <3>2 DEF LexStateAt
  <2>2. rest # <<>> => Head(rest) \in Symbol
    BY <1>3
  <2> QED BY <1>1, <2>1, <2>2
<1> QED BY <1>1, <1>4, <1>5, PipeKept DEF EndInv, LexerEnds

\* A symbol of the text goes to the channel.
LEMMA SentEnds ==
  ASSUME LexerInv, EndInv, NEW x \in Tokens, x.token # "LitEof", Emit(x),
         lex_state \notin LexerEnds, lex_state' \notin LexerEnds, UNCHANGED <<condition, parser>>,
         lex_state' = "eof" => unread' = <<>>,
         PipeAhead => PipeAhead' \/ x.token = "Unsupported",
         lex_state \in {"SepPipe", "aggregation"} => lex_state' = "aggregation" \/ x.token = "Unsupported"
  PROVE  EndInv'
<1>1. /\ channel \in Seq(Tokens) /\ channel' = Append(channel, x) /\ phase = "collect"
      /\ phase' = "collect" /\ previous' = previous /\ Piped' = Piped
  BY PipeKept DEF Emit, ReceiverAlive, LexerInv, parser
<1>2. lex_state # "end" /\ lex_state' # "end"
  BY DEF LexerEnds
<1>3. previous # "LitEof" /\ NoEnd(channel)
  BY <1>1, <1>2 DEF EndInv
<1>4. /\ NoEnd(channel')
      /\ Spoiled(channel) => Spoiled(channel')
      /\ x.token = "Unsupported" => Spoiled(channel')
  BY <1>1, <1>3, EndOfLonger
<1>5. Piped => PipeAhead \/ lex_state \in {"SepPipe", "aggregation"} \/ Spoiled(channel)
  BY <1>1 DEF EndInv
<1>6. Piped' => PipeAhead' \/ lex_state' \in {"SepPipe", "aggregation"} \/ Spoiled(channel')
  BY <1>1, <1>4, <1>5
<1> QED BY <1>1, <1>2, <1>3, <1>4, <1>6 DEF EndInv

LEMMA LexerEndsRight ==
  ASSUME LexerInv, EndInv, LexStep \/ LexTimeout
  PROVE  EndInv'
<1>0. \A x \in Word : x \in Tokens /\ x.token # "LitEof"
  BY SymbolKinds, WordIs DEF Keyword
<1>1. CASE LexCondition
  BY <1>1, ConditionEnds
<1>2. CASE LexWord \/ (LexAccumulate /\ text # <<>>)
  <2>1. Emit(Head(text)) /\ text # <<>> /\ lex_state \in {"rpar_with_tokens", "eof", "accumulate"}
        /\ lex_state' \in {"rpar_with_tokens", "eof", "condition"} /\ UNCHANGED <<condition, unread, parser>>
    BY <1>2 DEF LexWord, LexAccumulate
  <2>2. Head(text) \in Word
    BY <2>1 DEF LexerInv
  <2>3. PipeAhead' = PipeAhead /\ (lex_state' = "eof" => unread' = <<>>)
    <3>1. lex_state' = "eof" => lex_state = "eof"
      BY <1>2, <2>1 DEF LexWord, LexAccumulate
    <3> QED BY <2>1, <3>1 DEF PipeAhead, EndInv
  <2>4. PICK x \in Tokens : x = Head(text) /\ x.token # "LitEof"
    BY <1>0, <2>2
  <2> QED BY <2>1, <2>3, <2>4, SentEnds DEF LexerEnds
<1>3. CASE LexAccumulate /\ text = <<>>
  <2>1. lex_state = "accumulate" /\ lex_state' = "condition" /\ UNCHANGED <<condition, unread, channel, parser>>
    BY <1>3 DEF LexAccumulate
  <2>2. PipeAhead' = PipeAhead
    BY <2>1 DEF PipeAhead
  <2> QED BY <2>1, <2>2, PipeKept DEF EndInv, LexerEnds, parser
<1>4. CASE LexRpar \/ LexSeparator
  <2>1. PICK t \in {"SepRpar", "SepLpar"} \cup Quantifier : Emit(Item(t, {}))
    BY <1>4 DEF LexRpar, LexSeparator
  <2>2. lex_state \in {"rpar_with_tokens", "SepLpar"} \cup Quantifier /\ lex_state' = "condition"
        /\ UNCHANGED <<condition, unread, parser>>
    BY <1>4 DEF LexRpar, LexSeparator
  <2>3. PICK x \in Tokens : x = Item(t, {}) /\ x.token # "LitEof"
    <3>1. Item(t, {}) \in Tokens /\ Item(t, {}).token = t
      BY SymbolKinds DEF Separator, Item
    <3>2. t # "LitEof"
      BY DEF Quantifier
    <3> QED BY <3>1, <3>2
  <2>4. PipeAhead' = PipeAhead
    BY <2>2 DEF PipeAhead
  <2> QED BY <2>1, <2>2, <2>3, <2>4, SentEnds DEF LexerEnds, Quantifier
<1>5. CASE LexPipe
  <2>1. Emit(Item("SepPipe", {})) /\ lex_state = "SepPipe" /\ lex_state' = "aggregation"
        /\ UNCHANGED <<condition, unread, parser>>
    BY <1>5 DEF LexPipe
  <2>2. PICK x \in Tokens : x = Item("SepPipe", {}) /\ x.token # "LitEof"
    <3>1. Item("SepPipe", {}) \in Tokens /\ Item("SepPipe", {}).token = "SepPipe"
      BY SymbolKinds DEF Item
    <3>2. Item("SepPipe", {}).token # "LitEof"
      BY <3>1
    <3> QED BY <3>1, <3>2
  <2>3. PipeAhead' = PipeAhead
    BY <2>1 DEF PipeAhead
  <2> QED BY <2>1, <2>2, <2>3, SentEnds DEF LexerEnds
<1>6. CASE LexAggregation
  <2>1. Emit(Item("Unsupported", {})) /\ lex_state = "aggregation" /\ lex_state' = "eof" /\ unread' = <<>>
        /\ UNCHANGED <<condition, parser>>
    BY <1>6 DEF LexAggregation
  <2>2. PICK x \in Tokens : x = Item("Unsupported", {}) /\ x.token = "Unsupported"
    BY SymbolKinds DEF Item
  <2> QED BY <2>1, <2>2, SentEnds DEF LexerEnds
<1>7. CASE LexEof
  <2>1. /\ lex_state = "eof" /\ lex_state' = "end" /\ phase = "collect" /\ phase' = "collect" /\ previous' = previous
        /\ channel' = Append(channel, Item("LitEof", {})) /\ channel \in Seq(Tokens) /\ Piped' = Piped
        /\ unread' = unread
    BY <1>7, PipeKept DEF LexEof, Emit, ReceiverAlive, parser, LexerInv
  <2>2. Spoiled(channel) => Spoiled(channel')
    BY <2>1, SymbolKinds, EndOfLonger
  <2>3. ~PipeAhead
    <3>1. 1..Len(<<>>) = {}
      OBVIOUS
    <3> QED BY <2>1, <3>1 DEF EndInv, PipeAhead
  <2> QED BY <2>1, <2>2, <2>3 DEF EndInv, LexerEnds
<1>8. CASE LexSendFails
  BY <1>8 DEF LexSendFails, ReceiverAlive, EndInv, parser
<1>9. CASE LexTimeout
  <2>1. lex_state' = "timeout" /\ lex_state # "end" /\ UNCHANGED <<channel, phase, previous>>
    BY <1>9 DEF LexTimeout, Emitting, LexerEnds, parser
  <2> QED BY <2>1 DEF EndInv, LexerEnds
<1>10. CASE LexPanics
  <2>1. lex_state' = "panicked" /\ lex_state \notin LexerEnds /\ UNCHANGED <<channel, phase, previous, condition>>
    BY <1>10 DEF LexPanics, KeywordPanics, Checked, LexerEnds, parser
  <2> QED BY <2>1 DEF EndInv, LexerEnds
<1> QED BY <1>1, <1>2, <1>3, <1>4, <1>5, <1>6, <1>7, <1>8, <1>9, <1>10 DEF LexStep

LEMMA ParserEndsRight ==
  ASSUME LexerInv, EndInv, ParseStep
  PROVE  EndInv'
<1>1. UNCHANGED <<condition, unread, text, lex_state>>
  BY DEF ParseStep, Collect, CollectFails, StartParse, ParseIdentifier, ParseAnd, ParseOr, ParseNot,
         ParseQuantifier, ParseQuantified, ParseGroup, ParseGroupEnds, ParseEnds, ParseFails,
         Rejects, Fails, GoesOn, lexer
<1>2. PipeAhead' = PipeAhead /\ Piped' = Piped
  BY <1>1, PipeKept DEF PipeAhead
<1>3. CASE Collect
  <2>1. /\ phase = "collect" /\ phase' = "collect" /\ channel # <<>> /\ channel \in Seq(Tokens)
        /\ channel' = Tail(channel) /\ previous' = Head(channel).token /\ Head(channel).token # "Unsupported"
    BY <1>3 DEF Collect, LexerInv
  <2>2. /\ NoEnd(channel) => previous' # "LitEof" /\ NoEnd(channel')
        /\ Spoiled(channel) => previous' # "LitEof" /\ Spoiled(channel')
    BY <2>1, EndOfShorter
  <2> QED BY <1>1, <1>2, <2>1, <2>2 DEF EndInv
<1>4. CASE ~Collect
  <2>1. phase' # "collect"
    BY <1>4 DEF ParseStep, CollectFails, StartParse, ParseIdentifier, ParseAnd, ParseOr, ParseNot,
           ParseQuantifier, ParseQuantified, ParseGroup, ParseGroupEnds, ParseEnds, ParseFails,
           Rejects, Fails, GoesOn, AtQuantified, Parsing
  <2> QED BY <1>1, <2>1 DEF EndInv
<1> QED BY <1>3, <1>4

TextInv == LexSynced /\ EndInv

LEMMA TextKept == IInv /\ TextInv /\ [Next]_vars => TextInv'
<1> SUFFICES ASSUME IInv, TextInv, [Next]_vars PROVE TextInv'
  OBVIOUS
<1>1. CASE LexStep \/ LexTimeout
  BY <1>1, LexerSynced, LexerEndsRight DEF IInv, TextInv
<1>2. CASE ParseStep
  BY <1>2, ParserSynced, ParserEndsRight DEF IInv, TextInv
<1>3. CASE UNCHANGED vars
  <2>1. UNCHANGED <<condition, unread, text, lex_state, channel, phase, previous, tokens>>
    BY <1>3 DEF vars, lexer, parser
  <2>2. Apart' = Apart /\ Text' = Text /\ Piped' = Piped
    BY <2>1, StillMeant, PipeKept
  <2>3. LexSynced'
    BY <2>1, <2>2 DEF TextInv, LexSynced, ReadInv, SentInv, LastSeen, Emitted, Position, Held
  <2>4. EndInv'
    BY <2>1, <2>2 DEF TextInv, EndInv, PipeAhead
  <2> QED BY <2>3, <2>4 DEF TextInv
<1> QED BY <1>1, <1>2, <1>3 DEF Next

\* The stream that the parser has collected when it sees the end is the condition, of every
\* condition in which a space, a right parenthesis, a pipe or the end follows each word: so
\* TokensAreTheText fails only where a word stands directly before a left parenthesis
\* or a quantifier.
THEOREM TokensAreTheCondition == Spec => [](WordsApart(condition) => TokensAreTheText)
<1>1. TextInv /\ IInv => (WordsApart(condition) => TokensAreTheText)
  <2> SUFFICES ASSUME TextInv, IInv, WordsApart(condition), phase = "collect", previous = "LitEof"
               PROVE  tokens = Text
    BY DEF TokensAreTheText
  <2>1. lex_state = "end" /\ ~Piped
    BY DEF TextInv, EndInv
  <2>2. Apart
    BY <2>1 DEF Apart, Piped
  <2>3. SentInv
    BY <2>2 DEF TextInv, LexSynced
  <2>4. CASE previous = "LitEof" /\ tokens = Text
    BY <2>4
  <2>5. CASE channel # <<>>
    <3>1. NextItem /\ Text \in Seq(Tokens) /\ tokens \in Seq(Tokens)
      BY <2>1, <2>2, <2>3, <2>5, NextIsOfText DEF TextInv, LexSynced, IInv, ParserInv
    <3>2. LastSeen = "LitEof" /\ tokens # <<>>
      BY <3>1 DEF NextItem, LastSeen, Begin
    <3>3. PICK l \in Nat : l = Len(tokens) /\ l \in 1..Len(tokens) /\ l \in 1..Len(Text)
      <4>1. Len(tokens) \in Nat \ {0} /\ Len(Text) \in Nat /\ Len(tokens) <= Len(Text)
        BY <3>1, <3>2 DEF NextItem
      <4> QED BY <4>1
    <3>4. tokens[l] = Text[l] /\ Text[l].token # "LitEof"
      BY <3>1, <3>3, TextType DEF NextItem, IInv
    <3> QED BY <3>2, <3>3, <3>4 DEF LastSeen
  <2> QED BY <2>1, <2>3, <2>4, <2>5 DEF SentInv
<1>2. Init => TextInv
  BY LexSyncedInit, EndInit DEF TextInv
<1> QED BY <1>1, <1>2, TextKept, Invariant, PTL DEF Spec
==============================================================================
