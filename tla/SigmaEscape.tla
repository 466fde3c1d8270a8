------------------------------ MODULE SigmaEscape ------------------------------
(***************************************************************************)
(* The escape of a rule's text for the glob crate, of which the code has   *)
(* two copies: escape_sigma_for_glob_owned() (src/pattern/escape.rs) fills *)
(* a buffer from its end, escape_sigma_for_glob()                          *)
(* (src/pattern/string_matcher.rs) pushes the characters in reverse.  Both *)
(* go through the text backwards; what they should give is told forwards.  *)
(* A text is a sequence of characters.                                     *)
(***************************************************************************)
EXTENDS Integers, Sequences, SequencesExt

VARIABLE
  entry   \* of a detection: [field, value], and of a value its kind and text

Bracket == {"[", "]", "{", "}"}
Wildcard == {"*", "?"}
Odd(n) == n % 2 # 0
WildcardAtOnce(c, before) == c \in Wildcard   \* mutant of WildcardAt
WildcardAt(c, before) == c \in Wildcard \/ (c = "\\" /\ before)
SlashesAt(c, a) ==
  IF c # "\\" THEN 0 ELSE IF a.wildcard THEN a.slashes ELSE a.slashes + 1
Balances(c, a) == c # "\\" /\ Odd(a.slashes)

\* What a character adds to a text that is made from its end.
Pushed(c, a) == (IF Balances(c, a) THEN <<"\\">> ELSE <<>>) \o <<c>>
                \o (IF c \in Bracket THEN <<"\\">> ELSE <<>>)

\* The buffer has twice the length; x is the next place, counted down, and the
\* result begins behind the last.
Put(a, t) ==
  [a EXCEPT !.buffer = [i \in DOMAIN @ |-> IF i \in a.x - Len(t) + 1 .. a.x THEN t[a.x + 1 - i] ELSE @[i]],
            !.x = @ - Len(t)]
PutCharacter(c, a) ==
  [Put(a, Pushed(c, a)) EXCEPT !.wildcard = WildcardAt(c, a.wildcard), !.slashes = SlashesAt(c, a)]
PutLast(a) == Put(a, IF Odd(a.slashes) THEN <<"\\">> ELSE <<>>)
Filled(a) == SubSeq(a.buffer, a.x + 1, Len(a.buffer))

\* After the last n characters of the text.
Filling(s) ==
  LET Back[n \in 0..Len(s)] ==
        IF n = 0 THEN [buffer |-> [i \in 1..2 * Len(s) |-> "NUL"], x |-> 2 * Len(s),
                       wildcard |-> FALSE, slashes |-> 0]
        ELSE PutCharacter(s[Len(s) + 1 - n], Back[n - 1])
  IN Back
EscapeIntoBuffer(s) == Filled(PutLast(Filling(s)[Len(s)]))

\* escape_sigma_for_glob_cow(): most texts need no escape.
EscapeSigma(s) ==
  IF \E i \in DOMAIN s : s[i] \in Bracket \cup {"\\"} THEN EscapeIntoBuffer(s) ELSE s

PushCharacter(c, a) ==
  [out |-> a.out \o Pushed(c, a), wildcard |-> WildcardAt(c, a.wildcard), slashes |-> SlashesAt(c, a)]
Pushing(s) ==
  LET Back[n \in 0..Len(s)] ==
        IF n = 0 THEN [out |-> <<>>, wildcard |-> FALSE, slashes |-> 0]
        ELSE PushCharacter(s[Len(s) + 1 - n], Back[n - 1])
  IN Back
EscapeReversed(s) ==
  LET end == Pushing(s)[Len(s)]
  IN Reverse(IF Odd(end.slashes) THEN Append(end.out, "\\") ELSE end.out)

------------------------------------------------------------------------------
(* What an escaped text is: the backslashes before a wildcard stay, before *)
(* anything else they are made even, and a bracket gets one of its own.    *)

Slashes(n) == [i \in 1..n |-> "\\"]
Before(n, c) == IF c \in Wildcard THEN n ELSE n + (n % 2) + (IF c \in Bracket THEN 1 ELSE 0)
Escape(c, a) ==
  IF c = "\\" THEN [out |-> a.out, run |-> a.run + 1]
  ELSE [out |-> Append(a.out \o Slashes(Before(a.run, c)), c), run |-> 0]
Escaping(s) ==
  LET UpTo[n \in 0..Len(s)] ==
        IF n = 0 THEN [out |-> <<>>, run |-> 0] ELSE Escape(s[n], UpTo[n - 1])
  IN UpTo
Escaped(s) ==
  LET end == Escaping(s)[Len(s)] IN end.out \o Slashes(Before(end.run, "end"))

EscapedAlike(s) == EscapeSigma(s) = Escaped(s) /\ EscapeReversed(s) = Escaped(s)

\* The two copies of escape_sigma_for_glob(), one of which fills a buffer from its end
\* and leaves most texts as they are, both give the text escaped.
EscapesAgree == entry.value.kind = "string" => EscapedAlike(entry.value.text)
================================================================================
