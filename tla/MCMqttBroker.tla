---------------------------- MODULE MCMqttBroker ----------------------------
(* The instance of MqttBroker that TLC checks. *)
EXTENDS MqttBroker, TLC

Topics == {<<"a", "/", "b">>, <<"c">>}
Exps == {<<"a", "/", "#">>, <<"a", "/", "b">>, <<"c">>}

\* Two that overlap, and a topic by its name.
WantedTopics == {<<<<"a", "/", "#">>, <<"a", "/", "b">>>>, <<<<"c">>>>}

Symmetry == Permutations(Conn) \cup Permutations(Sess)

=============================================================================
