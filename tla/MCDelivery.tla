------------------------------ MODULE MCDelivery ------------------------------
(***************************************************************************)
(* The delivery of two messages, the first of which has a header, and the  *)
(* metrics, of which the durations and the maps share no more than reset();*)
(* a behaviour is about one of the three.                                  *)
(***************************************************************************)
EXTENDS MessageDelivery, ConsumerMetrics

VARIABLE subject   \* what the behaviour is about

PublishedMC == <<[payload |-> "a", headers |-> <<Header(<<"trace">>, 7)>>], [payload |-> "b", headers |-> <<>>]>>
Policy(n, initial, max, multiplier, jitter, exponential) ==
  [max_retries |-> n, initial_backoff |-> initial, max_backoff |-> max, backoff_multiplier |-> multiplier,
   jitter_percent |-> jitter, exponential |-> exponential]
\* One that grows past its maximum, one that is fixed, one without retries, and one whose
\* backoff is no number at the fourth.
PoliciesMC == {Policy(2, 1, 2, 4, 50, TRUE), Policy(1, 3, 3, 1, 0, FALSE), Policy(0, 2, 5, 2, 0, TRUE),
               Policy(4, 0, 5, 100, 0, TRUE)}

Init == subject \in {"delivery", "durations", "maps"} /\ DeliveryInit /\ MetricsInit
        /\ (subject # "delivery" => policy = (CHOOSE p \in Policies : TRUE) /\ dlq_after_retries = 0 /\ dlq_producer /\ wrapped)
Next ==
  \/ subject = "delivery" /\ DeliveryNext /\ UNCHANGED <<subject, metricsVars>>
  \/ subject = "durations" /\ MetricsNext /\ UNCHANGED <<subject, delivery, map>>
     /\ \A t \in Updaters \cup Exporters : thread_pc'[t] = "idle"
  \/ subject = "maps" /\ MetricsNext /\ UNCHANGED <<subject, delivery, buffer, recent>>
Spec == Init /\ [][Next]_<<subject, delivery, metricsVars>> /\ \A w \in Workers : WF_delivery(Work(w))
===============================================================================
