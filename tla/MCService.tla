------------------------------- MODULE MCService -------------------------------
(***************************************************************************)
(* The engine and the service on a few rule directories, and the callers   *)
(* of a shared rule set.  A behaviour is about one of them, and of the     *)
(* service about the HTTP requests or the gRPC stream, which share nothing *)
(* but the runner.                                                         *)
(***************************************************************************)
EXTENDS SigmaService, RuleSet

VARIABLES subject

File(id, yaml, builds) ==
  [id |-> id, title |-> TRUE, condition |-> "plain", keys |-> {"sel"}, yaml |-> yaml,
   builds |-> builds, verdict |-> "match"]
Rule(name, id, yaml, builds) == [kind |-> "rule", name |-> name, file |-> File(id, yaml, builds)]
NoIdMC == <<"no", "id">>

ContentsMC ==
  [top   |-> {[kind |-> "dir", dir |-> "left"], [kind |-> "dir", dir |-> "right"],
              [kind |-> "other"], Rule("1", <<"id", "a">>, TRUE, TRUE)},
   left  |-> {Rule("2", <<"id", "b">>, TRUE, FALSE), [kind |-> "dir", dir |-> "deep"]},
   right |-> {Rule("3", <<"id", "a">>, TRUE, TRUE)},
   deep  |-> {Rule("4", NoIdMC, TRUE, TRUE)},
   dark  |-> {},
   void  |-> {},
   small |-> {Rule("5", <<"id", "a">>, TRUE, TRUE), Rule("6", <<"id", "c">>, FALSE, TRUE)}]
UnreadableMC == {"dark"}
RuleDirsMC == {<<>>, <<"top">>, <<"small">>, <<"void">>, <<"dark", "small">>, <<"missing", "top">>}

BodyOf(kind, event) == [kind |-> kind, event |-> event]
Match == {<<"id", "a">>}
RequestsMC ==
  {[route |-> route, key |-> route = "metrics", body |-> BodyOf("empty", {})] : route \in {"rules", "metrics"}}
  \cup {[route |-> "evaluate", key |-> TRUE, body |-> b]
          : b \in {BodyOf("bad", {}), BodyOf("empty", {}), BodyOf("event", {}), BodyOf("event", Match)}}
StreamRequestsMC == {BodyOf("event", Match), BodyOf("event", {}), BodyOf("bad", {})}

\* A rule without an id gets an id another rule may have; one rule panics, one cannot be built.
RulesMC == {[id |-> <<"rule", 2>>, builds |-> TRUE, verdict |-> "match"],
            [id |-> NoIdMC, builds |-> TRUE, verdict |-> "panic"],
            [id |-> <<"rule", 2>>, builds |-> FALSE, verdict |-> "other"]}

Init ==
  /\ subject \in {"engine", "http", "stream", "callers"}
  /\ ServiceInit /\ RuleSetInit
  /\ subject \in {"http", "stream"} => entry = "new" /\ ~fail_on_parse_error /\ rule_dirs \in {<<>>, <<"small">>}
  /\ subject = "callers" => entry = "new" /\ ~fail_on_parse_error /\ rule_dirs = <<>>

Next ==
  \/ subject = "engine" /\ EngineNext /\ UNCHANGED <<service, concurrent, subject>>
  \/ subject = "http" /\ ServiceNext /\ UNCHANGED <<stream, concurrent, subject>>
  \/ subject = "stream" /\ ServiceNext /\ UNCHANGED <<connections, concurrent, subject>>
  \/ subject = "callers" /\ RuleSetNext /\ UNCHANGED <<engine, service, subject>>

Spec == Init /\ [][Next]_<<engine, service, concurrent, subject>>

\* With the fairness of each one's specification.
FairSpec ==
  /\ Spec
  /\ WF_engine(subject # "callers" /\ EngineNext)
  /\ WF_<<engine, service>>(Start)
  /\ WF_<<engine, service>>(Stop \/ AwaitServer)
  /\ \A c \in Connections : WF_<<engine, service>>(Handle(c) \/ TimeOut(c))
  /\ RuleSetFairness

TypeOK == ServiceTypeOK /\ RuleSetTypeOK
================================================================================
