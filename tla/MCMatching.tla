------------------------------ MODULE MCMatching ------------------------------
(***************************************************************************)
(* Entries of a detection, with one value, a list or an object, against    *)
(* events with some of their fields; and, as another subject that a        *)
(* behaviour may be about, the pool of pattern strings, which the matchers *)
(* only see as the texts it returns.                                       *)
(***************************************************************************)
EXTENDS FieldMeaning, StringInterner

VARIABLES subject

F == <<"f">>
G == <<"g", "h">>
One1 == Number(<<"1">>, <<"1">>, {1}, TRUE)
Fraction == Number(<<"1", ".", "5">>, <<"1">>, {1}, FALSE)
Huge == Number(<<"2^64">>, <<"2^63">>, {}, FALSE)

Plain == {Str(<<"a">>), Str(<<"a", "b">>), Str(<<"a", "tab", " ", "b">>)}
Starred == {Str(<<"*", "a">>), Str(<<"a", "*", "b">>), Str(<<"?">>), Str(<<"?", "*", "b">>)}
Scalars == Plain \cup Starred \cup
           {Str(<<>>), Str(<<" ", "a">>), Str(<<"/", "a", "/">>), Str(<<"/", "*", "/">>), One1, Bool("true")}
Few == {Str(<<"a">>), Str(<<"*", "a">>), Str(<<"b">>), One1, Null}
Modifiers == {<<>>, <<"contains">>, <<"startswith">>, <<"endswith">>, <<"re">>, <<"all">>, <<"keyword">>,
              <<"contains", "all">>, <<"re", "contains">>, <<"cased">>}
Chosen == {<<>>, <<"contains">>, <<"contains", "all">>, <<"re">>}

Entry(field, value) == [field |-> field, value |-> value]
At(names, modifiers, values) == {Entry(Field(n, m), v) : n \in names, m \in modifiers, v \in values}
Lists(V) == {Array(s) : s \in {<<>>} \cup {<<v, w>> : v \in V, w \in V}}
Objects(X, Y) == {Object(<<x>>) : x \in X} \cup {Object(<<x, y>>) : x \in X, y \in Y}
Selections ==
  Objects(At({F}, Chosen, Few), At({G}, Chosen, Few \ {Null}) \cup At({F}, {<<>>}, Lists({Str(<<"*", "a">>), One1})))
Written == UNION {[1..n -> {"a", "*", "\\", "["}] : n \in 0..4}
Expressions == UNION {[1..n -> {"a", "b", "*", "?", "."}] : n \in 1..4}

MCEntries ==
  At({F, G}, Modifiers, Scalars \cup {Fraction, Huge, Null})
  \cup At({F}, Chosen \cup {<<"all">>}, Lists(Few \cup {Array(<<>>)}))
  \cup At({<<"sel">>}, {<<>>}, Selections \cup {Object(<<>>)}
                               \cup Lists({Object(<<Entry(Field(F, <<>>), v)>>) : v \in Few}))
  \cup At({F}, {<<>>}, {Str(w) : w \in Written})
  \cup At({F}, {<<"re">>}, {Str(w) : w \in Expressions})
  \cup At({F}, {<<>>}, {Str(<<"/">> \o w \o <<"/">>) : w \in {w \in Expressions : Len(w) < 4}})

Values == Plain \cup {Str(<<" ", "a">>), Str(<<"b">>), Str(<<"b", "a">>), Str(<<"1">>), Str(<<>>), One1, Fraction, Huge, Bool("true"),
                      Null, Array(<<>>), Str(<<"*", "a">>), Str(<<"a", "\\", "b">>), Str(<<"[", "a", "]">>)}
SomeValues == {Str(<<"a">>), One1}
Fields(f) == [kind |-> "object", fields |-> f]
MCEvents ==
  {[nested |-> FALSE, data |-> Fields([n \in {F} |-> v])] : v \in Values}
  \cup {[nested |-> FALSE, data |-> Fields([n \in {F, G} |-> IF n = F THEN v ELSE w])] : v \in SomeValues, w \in SomeValues}
  \cup {[nested |-> TRUE, data |-> Fields([n \in {"g", "f"} |-> IF n = "f" THEN v ELSE w])]
        : v \in SomeValues, w \in {Null} \cup {Fields([n \in {"h"} |-> w]) : w \in SomeValues}}
  \cup {[nested |-> TRUE, data |-> Fields([n \in {"message"} |-> Str(<<"a">>)])],
        [nested |-> TRUE, data |-> Fields([n \in {} |-> Null])],
        [nested |-> TRUE, data |-> Fields([n \in {"alert"} |-> Fields([m \in {"signature"} |-> Str(<<"b">>)])])]}

\* A behaviour about one subject leaves the other in a state of its own.
MCInit ==
  \/ /\ subject = "fields" /\ max_capacity = 1 /\ want = [t \in Thread |-> CHOOSE s \in Text : TRUE]
     /\ InternerInit /\ Init
  \/ /\ subject = "pool" /\ InternerInit
     /\ entry = Entry(Field(F, <<>>), Null) /\ builder = "parser" /\ no_collapse_ws = TRUE
     /\ state = "build" /\ branch = Failed
MCNext ==
  \/ subject = "fields" /\ Next /\ UNCHANGED <<subject, interner_vars>>
  \/ subject = "pool" /\ InternerNext /\ UNCHANGED <<subject, vars>>
MCSpec == MCInit /\ [][MCNext]_<<subject, vars, interner_vars>>
==============================================================================
