---------------------------- MODULE ConditionParser ----------------------------
(***************************************************************************)
(* From the text of a rule's condition to its match tree: the Lexer        *)
(* (src/lexer), a task that sends tokens on a bounded channel, and the     *)
(* Parser (src/parser), which collects and checks them and then builds the *)
(* tree in new_branch().                                                   *)
(*                                                                         *)
(* The text is a sequence of symbols: a word of the condition is one       *)
(* symbol, as are a parenthesis, a pipe, "1 of", "all of" and any run of   *)
(* spaces.  A word carries the token that check_keyword() makes of it and, *)
(* as its value, the entries of the detection that it names: at most one   *)
(* for an identifier, those that match for one with wildcards; and whether *)
(* check_keyword() can split it.                                           *)
(*                                                                         *)
(* A branch of the tree is the function of its answers to every event; an  *)
(* event is what each entry of the detection answers to it.  The recursion *)
(* of new_branch() over groups is a stack of its local variables.          *)
(***************************************************************************)
EXTENDS MatchTree, SequencesExt

CONSTANTS
  Selection,      \* the entries of the detection
  Texts,          \* the conditions explored
  ChannelBuffer,  \* DEFAULT_CHANNEL_BUFFER
  MaxTokens,      \* MAX_TOKENS
  MaxDepth        \* MAX_RECURSION_DEPTH

VARIABLES
  condition,             \* the text of the rule's condition
  unread, text,          \* lexer: what follows `position`; what is collected before
  lex_state,             \* LexState
  channel,               \* items_tx, rx
  phase,                 \* parser: "collect", "parse", "ok" or "err"
  previous, tokens,      \* the last token seen; those collected and not yet parsed
  stack,                 \* local variables of new_branch(), innermost call first
  result                 \* the tree: its answer to each event

lexer == <<condition, unread, text, lex_state>>
parser == <<phase, previous, tokens, stack, result>>
vars == <<lexer, channel, parser>>

Item(token, value) == [token |-> token, value |-> value, splits |-> TRUE]
Quantifier == {"StmtOneOf", "StmtAllOf"}
Separator == {"SepLpar", "SepRpar"} \cup Quantifier
Keyword == {"IdentifierAll", "KeywordAnd", "KeywordOr", "KeywordNot", "KeywordAgg"}
Identifiers == {Item("Identifier", {s}) : s \in Selection} \cup {Item("Identifier", {})}
               \cup {Item("IdentifierWithWildcard", w) : w \in SUBSET Selection}

\* A word of six bytes or more whose byte 3 is inside a character: check_keyword(),
\* which looks for "all" at its beginning, panics where it splits it.
Unsplittable == {[x EXCEPT !.splits = FALSE] : x \in Identifiers}
Word == Identifiers \cup Unsplittable \cup {Item(k, {}) : k \in Keyword}
Space == Item("Space", {})
Symbol == Word \cup {Item(t, {}) : t \in Separator \cup {"SepPipe"}} \cup {Space}

ASSUME ParserAssumption ==
  /\ IsFiniteSet(Selection)
  /\ Texts \subseteq Seq(Symbol)
  /\ \A t \in Texts : \A i \in 2..Len(t) : ~(t[i - 1] \in Word /\ t[i] \in Word)
  /\ ChannelBuffer \in Nat \ {0} /\ MaxTokens \in Nat /\ MaxDepth \in Nat

Tokens == (Symbol \ {Space}) \cup {Item("Unsupported", {}), Item("LitEof", {})}

Event == [Selection -> FieldAnswer]
Frame == [and : Seq([Event -> MatchResult]), or : Seq([Event -> MatchResult]),
          negated : BOOLEAN, wildcard : Quantifier \cup {"None"}]
EmptyFrame == [and |-> <<>>, or |-> <<>>, negated |-> FALSE, wildcard |-> "None"]
Begin == "begin"     \* the placeholder before the first token
NoResult == <<>>

Init ==
  /\ condition \in Texts /\ unread = condition /\ text = <<>>
  /\ lex_state = "condition" /\ channel = <<>>
  /\ phase = "collect" /\ previous = Begin /\ tokens = <<>> /\ stack = <<>>
  /\ result = NoResult

------------------------------------------------------------------------------
(* The lexer: one action per state of LexState                              *)

\* The state that follows lex_condition() at a symbol that is no word.
LexStateAt(x) ==
  CASE x = Space -> "accumulate"
    [] x.token = "SepRpar" -> "rpar_with_tokens"
    [] OTHER -> x.token

\* It reads on over a word, if there is one, to the first symbol that is none.
LexCondition ==
  LET collected == IF unread # <<>> /\ Head(unread) \in Word THEN <<Head(unread)>> ELSE <<>>
      rest == SubSeq(unread, Len(collected) + 1, Len(unread))
  IN
  /\ lex_state = "condition"
  /\ text' = collected
  /\ IF rest = <<>> THEN unread' = <<>> /\ lex_state' = "eof"
     ELSE unread' = Tail(rest) /\ lex_state' = LexStateAt(Head(rest))
  /\ UNCHANGED <<condition, channel, parser>>

ReceiverAlive == phase = "collect"

\* emit(): waits for room in the channel; what was collected goes with the item.
Emit(item) ==
  /\ ReceiverAlive /\ Len(channel) < ChannelBuffer
  /\ channel' = Append(channel, item)
  /\ text' = <<>>

\* check_keyword() is asked about a word before a right parenthesis, a space or the
\* end, and about no other.
Checked == lex_state \in {"rpar_with_tokens", "accumulate", "eof"} /\ text # <<>>
KeywordPanics == Checked /\ ~Head(text).splits

\* Its panic ends the lexer's task, without an await, and closes the channel.
LexPanics ==
  /\ KeywordPanics
  /\ lex_state' = "panicked"
  /\ UNCHANGED <<condition, unread, text, channel, parser>>

\* A right parenthesis and the end first emit the word before them.
LexWord ==
  /\ lex_state \in {"rpar_with_tokens", "eof"} /\ text # <<>> /\ ~KeywordPanics
  /\ Emit(Head(text))
  /\ UNCHANGED <<condition, unread, lex_state, parser>>

\* So does a space; lex_whitespace() skips the rest of the spaces, without an await.
LexAccumulate ==
  /\ lex_state = "accumulate" /\ ~KeywordPanics
  /\ IF text # <<>> THEN Emit(Head(text)) ELSE UNCHANGED <<text, channel>>
  /\ lex_state' = "condition"
  /\ UNCHANGED <<condition, unread, parser>>

LexRpar ==
  /\ lex_state = "rpar_with_tokens" /\ text = <<>>
  /\ Emit(Item("SepRpar", {}))
  /\ lex_state' = "condition"
  /\ UNCHANGED <<condition, unread, parser>>

\* A left parenthesis or a quantifier: what was collected before it becomes part
\* of its text.
LexSeparator ==
  /\ lex_state \in {"SepLpar"} \cup Quantifier
  /\ Emit(Item(lex_state, {}))
  /\ lex_state' = "condition"
  /\ UNCHANGED <<condition, unread, parser>>

LexPipe ==
  /\ lex_state = "SepPipe"
  /\ Emit(Item("SepPipe", {}))
  /\ lex_state' = "aggregation"
  /\ UNCHANGED <<condition, unread, parser>>

\* The rest of the text is one token.
LexAggregation ==
  /\ lex_state = "aggregation"
  /\ Emit(Item("Unsupported", {}))
  /\ unread' = <<>> /\ lex_state' = "eof"
  /\ UNCHANGED <<condition, parser>>

LexEof ==
  /\ lex_state = "eof" /\ text = <<>>
  /\ Emit(Item("LitEof", {}))
  /\ lex_state' = "end"
  /\ UNCHANGED <<condition, unread, parser>>

LexerEnds == {"end", "failed", "timeout", "panicked"}
Emitting == /\ lex_state \notin LexerEnds \cup {"condition"} /\ ~KeywordPanics
            /\ lex_state = "accumulate" => text # <<>>

LexSendWaits == FALSE   \* mutant of LexSendFails: the receiver is never dropped

\* A send on a channel whose receiver is gone: Err(ChannelClosed).
LexSendFails ==
  /\ Emitting /\ ~ReceiverAlive
  /\ lex_state' = "failed"
  /\ UNCHANGED <<condition, unread, text, channel, parser>>

\* scan_with_timeout(): the task is cut short where it awaits, sending an item.
LexTimeout ==
  /\ Emitting
  /\ lex_state' = "timeout"
  /\ UNCHANGED <<condition, unread, text, channel, parser>>

------------------------------------------------------------------------------
(* The parser, first pass: collect() and validate_parentheses()             *)

Operand == {"Identifier", "IdentifierAll", "IdentifierWithWildcard"}
Opening == {"SepLpar", "KeywordAnd", "KeywordOr"}

\* Mutant of Precedes: no group after a `not`.
PrecedesNoNegatedGroup(token) ==
  CASE token \in Quantifier -> Opening \cup {"KeywordNot"}
    [] token = "IdentifierAll" -> Quantifier
    [] token \in {"Identifier", "IdentifierWithWildcard"} ->
         Opening \cup {"KeywordNot"} \cup Quantifier
    [] token \in {"KeywordNot", "SepLpar"} -> Opening
    [] token = "SepRpar" -> Operand \cup {"SepLpar", "SepRpar"}
    [] token \in {"KeywordAnd", "KeywordOr", "LitEof", "SepPipe"} -> Operand \cup {"SepRpar"}
    [] OTHER -> {}

\* valid_token_sequence(): what may come before each token.
Precedes(token) ==
  CASE token \in Quantifier -> Opening \cup {"KeywordNot"}
    [] token = "IdentifierAll" -> Quantifier
    [] token \in {"Identifier", "IdentifierWithWildcard"} ->
         Opening \cup {"KeywordNot"} \cup Quantifier
    [] token = "KeywordNot" -> Opening
    [] token = "SepLpar" -> Opening \cup {"KeywordNot"}
    [] token = "SepRpar" -> Operand \cup {"SepLpar", "SepRpar"}
    [] token \in {"KeywordAnd", "KeywordOr", "LitEof", "SepPipe"} -> Operand \cup {"SepRpar"}
    [] OTHER -> {}

ValidNext(token) == previous = Begin \/ previous \in Precedes(token)

Fails ==
  /\ phase' = "err" /\ tokens' = <<>> /\ stack' = <<>>
  /\ UNCHANGED <<lexer, previous, result>>

Collect ==
  LET item == Head(channel) IN
  /\ phase = "collect" /\ channel # <<>>
  /\ item.token # "Unsupported" /\ ValidNext(item.token)
  /\ item.token # "LitEof" => Len(tokens) < MaxTokens
  /\ tokens' = (IF item.token = "LitEof" THEN tokens ELSE Append(tokens, item))
  /\ previous' = item.token
  /\ channel' = Tail(channel)
  /\ UNCHANGED <<lexer, phase, stack, result>>

CollectFails ==
  LET item == Head(channel) IN
  /\ phase = "collect" /\ channel # <<>>
  /\ \/ item.token = "Unsupported" \/ ~ValidNext(item.token)
     \/ item.token # "LitEof" /\ Len(tokens) >= MaxTokens
  /\ channel' = <<>>
  /\ Fails

\* The parentheses open after the first n tokens.
Depth(n) == Cardinality({i \in 1..n : tokens[i].token = "SepLpar"})
            - Cardinality({i \in 1..n : tokens[i].token = "SepRpar"})

\* Mutant of ParenthesesValid: the balance without the limit on the depth.
ParenthesesBalanced ==
  /\ \A n \in 1..Len(tokens) : Depth(n) >= 0
  /\ Depth(Len(tokens)) = 0

ParenthesesValid ==
  /\ \A n \in 1..Len(tokens) : Depth(n) \in 0..MaxDepth
  /\ Depth(Len(tokens)) = 0

\* The channel is closed: the lexer must have succeeded, the end must have come
\* last, and the parentheses must balance.
CollectOk == lex_state = "end" /\ previous = "LitEof" /\ ParenthesesValid

StartParse ==
  /\ phase = "collect" /\ channel = <<>> /\ lex_state \in LexerEnds
  /\ IF CollectOk
     THEN /\ phase' = "parse" /\ stack' = <<EmptyFrame>>
          /\ UNCHANGED <<lexer, previous, tokens, result>>
     ELSE Fails
  /\ UNCHANGED channel

------------------------------------------------------------------------------
(* The parser, second pass: new_branch(), one action per kind of token      *)

Top == Head(stack)
Parsing(kinds) == phase = "parse" /\ tokens # <<>> /\ Head(tokens).token \in kinds

\* The next token is consumed and the innermost call goes on with the frame f.
GoesOn(f) ==
  /\ stack' = <<f>> \o Tail(stack)
  /\ tokens' = Tail(tokens)
  /\ UNCHANGED <<lexer, channel, phase, previous, result>>

Rejects == Fails /\ UNCHANGED channel

Leaf(s) == [e \in Event |-> e[s]]
Negated(branch) == [e \in Event |-> NodeNot(branch[e])]
At(branches, e) == [i \in DOMAIN branches |-> branches[i][e]]
AndOf(branches) == [e \in Event |-> NodeSimpleAnd(At(branches, e))]
OrOf(branches) == [e \in Event |-> NodeSimpleOr(At(branches, e))]
ReducedAnd(branches) == [e \in Event |-> ReduceAnd(At(branches, e))]
ReducedOr(branches) == [e \in Event |-> ReduceOr(At(branches, e))]

WithBranch(f, branch) ==
  [f EXCEPT !.and = Append(@, IF f.negated THEN Negated(branch) ELSE branch),
            !.negated = FALSE]

ParseIdentifier ==
  /\ Parsing({"Identifier"})
  /\ \E s \in Head(tokens).value : GoesOn(WithBranch(Top, Leaf(s)))

ParseAnd == Parsing({"KeywordAnd"}) /\ GoesOn(Top)

\* Mutant of ParseOr: the branches of the group so far are joined one level up.
ParseOrFlat ==
  /\ Parsing({"KeywordOr"}) /\ Top.and # <<>>
  /\ GoesOn([Top EXCEPT !.or = @ \o Top.and, !.and = <<>>])

ParseOr ==
  /\ Parsing({"KeywordOr"}) /\ Top.and # <<>>
  /\ GoesOn([Top EXCEPT !.or = Append(@, ReducedAnd(Top.and)), !.and = <<>>])

ParseNot == Parsing({"KeywordNot"}) /\ GoesOn([Top EXCEPT !.negated = TRUE])

ParseQuantifier ==
  Parsing(Quantifier) /\ GoesOn([Top EXCEPT !.wildcard = Head(tokens).token])

\* The entries of "them" or of a wildcard come in the order of a HashMap.
Named(item) == IF item.token = "IdentifierAll" THEN Selection ELSE item.value
QuantifiedNode(wildcard, order) ==
  LET branches == [i \in DOMAIN order |-> Leaf(order[i])]
  IN IF wildcard = "StmtAllOf" THEN AndOf(branches) ELSE OrOf(branches)

AtQuantified == Parsing({"IdentifierAll", "IdentifierWithWildcard"})

ParseQuantified ==
  /\ AtQuantified /\ Top.wildcard # "None" /\ Named(Head(tokens)) # {}
  /\ \E order \in SetToSeqs(Named(Head(tokens))) :
       GoesOn([WithBranch(Top, QuantifiedNode(Top.wildcard, order)) EXCEPT !.wildcard = "None"])

\* The call for a group begins; validate_parentheses() has bounded its depth.
ParseGroup ==
  /\ Parsing({"SepLpar"})
  /\ stack' = <<EmptyFrame>> \o stack
  /\ tokens' = Tail(tokens)
  /\ UNCHANGED <<lexer, channel, phase, previous, result>>

\* The end of a call: the last AND group joins the others.
Branches(f) == IF f.and = <<>> THEN f.or ELSE Append(f.or, ReducedAnd(f.and))

ParseGroupEnds ==
  /\ Parsing({"SepRpar"}) /\ Len(stack) > 1 /\ Branches(Top) # <<>>
  /\ stack' = <<WithBranch(stack[2], ReducedOr(Branches(Top)))>> \o Tail(Tail(stack))
  /\ tokens' = Tail(tokens)
  /\ UNCHANGED <<lexer, channel, phase, previous, result>>

ParseEnds ==
  /\ phase = "parse" /\ tokens = <<>> /\ Branches(Top) # <<>>
  /\ phase' = "ok" /\ result' = ReducedOr(Branches(Top)) /\ stack' = <<>>
  /\ UNCHANGED <<lexer, channel, previous, tokens>>

\* Err: an entry that is missing, an empty alternative or group, a quantified
\* identifier without a quantifier or that names nothing.  The checks of the
\* first pass leave no other token without a place.
ParseFails ==
  /\ \/ Parsing({"Identifier"}) /\ Head(tokens).value = {}
     \/ Parsing({"KeywordOr"}) /\ Top.and = <<>>
     \/ /\ AtQuantified
        /\ Top.wildcard = "None" \/ Named(Head(tokens)) = {}
     \/ Parsing({"SepRpar"}) /\ Branches(Top) = <<>>
     \/ phase = "parse" /\ tokens = <<>> /\ Branches(Top) = <<>>
  /\ Rejects

LexStep == \/ LexCondition
           \/ LexWord \/ LexAccumulate \/ LexRpar \/ LexSeparator \/ LexPipe
           \/ LexAggregation \/ LexEof \/ LexSendFails \/ LexPanics

ParseStep == \/ Collect \/ CollectFails \/ StartParse
             \/ ParseIdentifier \/ ParseAnd \/ ParseOr \/ ParseNot \/ ParseQuantifier
             \/ ParseQuantified \/ ParseGroup \/ ParseGroupEnds \/ ParseEnds \/ ParseFails

Next == LexStep \/ LexTimeout \/ ParseStep

Spec == Init /\ [][Next]_vars
FairSpec == Spec /\ WF_vars(LexStep) /\ WF_vars(ParseStep)

------------------------------------------------------------------------------
(* Properties *)

LexStates == {"condition", "accumulate", "rpar_with_tokens", "SepPipe", "eof",
              "aggregation"} \cup LexerEnds \cup Separator

\* The types of the variables; a call of new_branch() is in progress while the
\* parser parses, and the calls never nest deeper than the limit, so that the
\* second check of the depth, in new_branch(), never fails.
TypeOK ==
  /\ condition \in Seq(Symbol) /\ unread \in Seq(Symbol) /\ text \in Seq(Word) /\ lex_state \in LexStates
  /\ channel \in Seq(Tokens)
  /\ phase \in {"collect", "parse", "ok", "err"}
  /\ tokens \in Seq(Tokens)
  /\ stack \in Seq(Frame)
  /\ phase = "parse" => stack # <<>> /\ Len(stack) <= MaxDepth + 1
  /\ phase = "ok" => result \in [Event -> MatchResult]

\* No tree claims a match that does not apply: Tree::eval() drops such a match
\* without a word.
MatchesApply == phase = "ok" => \A e \in Event : result[e].matched => result[e].applicable

\* A text without its spaces.
Unspaced(t) ==
  LET UpTo[n \in 0..Len(t)] ==
        IF n = 0 THEN <<>> ELSE IF t[n] = Space THEN UpTo[n - 1] ELSE Append(UpTo[n - 1], t[n])
  IN UpTo
Text == Unspaced(condition)[Len(condition)]

\* "Converts input string into a stream of tokens": when the parser has seen the
\* end, it has every symbol of the text but the spaces, in their order.
TokensAreTheText ==
  phase = "collect" /\ previous = "LitEof" => tokens = Text

\* The two tasks end: neither the bounded channel nor an error of one leaves
\* the other one waiting.
BothTasksEnd == <>(phase \in {"ok", "err"} /\ lex_state \in LexerEnds)
==============================================================================
