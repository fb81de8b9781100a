------------------------------- MODULE PubSub -------------------------------
(***************************************************************************)
(* What an MQTT broker promises: a message published to a topic reaches    *)
(* every client that has a matching subscription at that moment, once, and *)
(* nobody else; all clients see the messages in the order the broker took  *)
(* them.                                                                   *)
(***************************************************************************)
EXTENDS Sequences

CONSTANTS Client, Exp,
          Msg,        \* messages, each with a topic
          Matching    \* the pairs of an expression and a topic that match

VARIABLES subs,     \* the topic expressions each client has subscribed to
          inbox     \* the messages sent to each client

Init == subs = [c \in Client |-> {}] /\ inbox = [c \in Client |-> <<>>]

Subscribe(c, E) == subs' = [subs EXCEPT ![c] = @ \cup E] /\ UNCHANGED inbox

Matches(c, t) == \E e \in subs[c] : <<e, t>> \in Matching

Publish(m) ==
    /\ inbox' = [c \in Client |-> IF Matches(c, m.topic) THEN Append(inbox[c], m) ELSE inbox[c]]
    /\ UNCHANGED subs

Leave(c) == subs' = [subs EXCEPT ![c] = {}] /\ inbox' = [inbox EXCEPT ![c] = <<>>]

Next ==
    \/ \E c \in Client : Leave(c) \/ \E E \in SUBSET Exp : Subscribe(c, E)
    \/ \E m \in Msg : Publish(m)

Spec == Init /\ [][Next]_<<subs, inbox>>

=============================================================================
