----------------------------- MODULE MqttBroker -----------------------------
(***************************************************************************)
(* The MQTT broker (mqtt-broker.c) under mqtt_handler() (mqtt.c): sessions *)
(* in a doubly linked list, their subscriptions, and publishing by walking *)
(* the list.  A handler runs to its end before the next event, so it is    *)
(* one step.  Clients follow MQTT: CONNECT first and once.  They may go at *)
(* any time, also before CONNECT.                                          *)
(***************************************************************************)
EXTENDS Integers, Sequences, FiniteSets

CONSTANTS
    Conn,       \* memory blocks for accepted connections
    Sess,       \* memory blocks for struct ns_mqtt_session
    NULL,
    Exp, Topic, \* topic expressions and topics, as sequences of characters
    Wanted,     \* what a SUBSCRIBE may ask for: sequences of expressions
    MaxMsg      \* bound: messages sent by all clients

ASSUME BrokerAssumption == NULL \notin Conn \cup Sess /\ Conn \cap Sess = {} /\ MaxMsg \in Nat /\ Wanted \subseteq Seq(Exp) \ {<<>>}

VARIABLES
    head, next, prev,   \* brk->sessions and its links
    sess,               \* sessions that are allocated
    snc,                \* session -> connection
    topics,             \* session -> topic of each element of subscriptions
    open,               \* connections that are open
    ud,                 \* user_data: a session, or NULL: what the listener has, the broker
    buf,                \* recv_mbuf, as the messages in it
    out,                \* what was sent to the connection: published messages
    said,               \* connections on which CONNECT was sent
    sent,               \* messages sent so far
    crashed             \* memory that is not a session was used as one

listVars == <<head, next, prev, sess, snc>>
connVars == <<open, ud, buf, said>>
vars == <<listVars, topics, connVars, out, sent, crashed>>

Ptr == Sess \cup {NULL}
Pub == [kind : {"publish"}, topic : Topic, id : 0 .. MaxMsg]
Sub == [kind : {"subscribe"}, topics : Wanted]
Connect == [kind |-> "connect"]
Ping == [kind |-> "ping"]      \* PINGREQ or DISCONNECT: no bytes follow the length

Init ==
    /\ head = NULL /\ next = [s \in Sess |-> NULL] /\ prev = [s \in Sess |-> NULL]
    /\ sess = {} /\ snc = [s \in Sess |-> NULL] /\ topics = [s \in Sess |-> <<>>]
    /\ open = {} /\ ud = [c \in Conn |-> NULL] /\ buf = [c \in Conn |-> <<>>]
    /\ out = [c \in Conn |-> <<>>] /\ said = {} /\ sent = 0 /\ crashed = FALSE

-----------------------------------------------------------------------------
(* Sessions *)

\* Mutant: the old head does not point back.
ns_mqtt_add_session_no_backlink(s) ==
    /\ next' = [next EXCEPT ![s] = head]
    /\ head' = s
    /\ prev' = [prev EXCEPT ![s] = NULL]

ns_mqtt_add_session(s) ==
    /\ next' = [next EXCEPT ![s] = head]
    /\ head' = s
    /\ prev' = [d \in Sess |-> IF d = s THEN NULL ELSE IF d = head THEN s ELSE prev[d]]

\* The links of the removed session are memory that is freed next.
ns_mqtt_remove_session(s) ==
    /\ head' = IF prev[s] = NULL THEN next[s] ELSE head
    /\ next' = [d \in Sess |-> IF d = s THEN NULL ELSE IF d = prev[s] THEN next[s] ELSE next[d]]
    /\ prev' = [d \in Sess |-> IF d = s THEN NULL ELSE IF d = next[s] THEN prev[s] ELSE prev[d]]

\* Mutant: the session is not freed.
ns_mqtt_destroy_session_leaks(s) == UNCHANGED <<sess, snc, topics>>

ns_mqtt_destroy_session(s) ==
    /\ sess' = sess \ {s} /\ snc' = [snc EXCEPT ![s] = NULL] /\ topics' = [topics EXCEPT ![s] = <<>>]

\* The sessions ns_mqtt_next() yields one after the other.
Listed ==
    {s \in Sess : \A S \in SUBSET Sess :
        (head # NULL => head \in S) /\ (\A d \in S : next[d] \in S \cup {NULL}) => s \in S}

-----------------------------------------------------------------------------
(* Handlers *)

\* malloc() may fail; CONNACK carries the outcome.
ns_mqtt_broker_handle_connect(c) ==
    /\ \/ \E s \in Sess \ sess :
             /\ ns_mqtt_add_session(s)
             /\ sess' = sess \cup {s} /\ snc' = [snc EXCEPT ![s] = c] /\ ud' = [ud EXCEPT ![c] = s]
             /\ topics' = [topics EXCEPT ![s] = <<>>]
       \/ UNCHANGED <<listVars, topics, ud>>
    /\ UNCHANGED <<out, crashed>>

\* realloc() makes room for the topics of this message alone: with earlier
\* ones the array is written past its end, which may or may not go unnoticed.
\* Without a session user_data is not one.
ns_mqtt_broker_handle_subscribe(c, m) ==
    /\ \/ /\ ud[c] # NULL
          /\ topics' = [topics EXCEPT ![ud[c]] = @ \o m.topics]
          /\ UNCHANGED crashed
       \/ /\ ud[c] # NULL => topics[ud[c]] # <<>>
          /\ crashed' = TRUE
          /\ UNCHANGED topics
    /\ UNCHANGED <<listVars, ud, out>>

\* strncmp() over the expression, less "/#"; for "#" alone the length wraps
\* and the comparison goes to the end of both.
ns_mqtt_match_topic_expression(exp, topic) ==
    LET len == Len(exp) - (IF \E i \in 1 .. Len(exp) : exp[i] = "#" THEN 2 ELSE 0)
    IN  IF len < 0 THEN exp = topic
        ELSE len <= Len(topic) /\ \A i \in 1 .. len : exp[i] = topic[i]

Matching == {et \in Exp \X Topic : ns_mqtt_match_topic_expression(et[1], et[2])}

\* Mutant: one copy per matching subscription.
subscribed_each(c, t) ==
    {p \in Listed \X (1 .. 4) : /\ snc[p[1]] = c /\ p[2] <= Len(topics[p[1]])
                               /\ <<topics[p[1]][p[2]], t>> \in Matching}

\* The sessions of connection c that a message to topic t is sent to.
subscribed(c, t) ==
    {s \in Listed : snc[s] = c /\ \E i \in 1 .. Len(topics[s]) : <<topics[s][i], t>> \in Matching}

ns_mqtt_broker_handle_publish(m) ==
    /\ out' = [c \in Conn |-> out[c] \o [i \in 1 .. Cardinality(subscribed(c, m.topic)) |-> m]]
    /\ UNCHANGED <<listVars, topics, ud, crashed>>

-----------------------------------------------------------------------------
(* Events *)

running == ~crashed

\* NS_ACCEPT: the connection starts with the listener's user_data.
accept(c) ==
    /\ running /\ c \notin open
    /\ open' = open \cup {c} /\ ud' = [ud EXCEPT ![c] = NULL]
    /\ buf' = [buf EXCEPT ![c] = <<>>] /\ said' = said \ {c}
    /\ UNCHANGED <<listVars, topics, out, sent, crashed>>

\* What may come in one read: one or two messages.
Later == [kind : {"publish"}, topic : Topic, id : {sent}] \cup Sub \cup {Ping}
First(c) == IF c \in said THEN Later ELSE {Connect}
Arrivals(c) == {<<m>> : m \in First(c)} \cup (First(c) \X Later)

\* mqtt_handler() on NS_RECV: one message is taken from the buffer, whatever
\* it holds; parse_mqtt() never finds a message of length 0 complete.
recv(c) ==
    /\ running /\ c \in open
    /\ \E ms \in Arrivals(c) :
          LET b == buf[c] \o ms
              m == Head(b)
          IN  /\ sent + Len(ms) <= MaxMsg
              /\ sent' = sent + Len(ms)
              /\ said' = said \cup {c}
              /\ buf' = [buf EXCEPT ![c] = IF m = Ping THEN b ELSE Tail(b)]
              /\ \/ m = Connect /\ ns_mqtt_broker_handle_connect(c)
                 \/ m \in Sub /\ ns_mqtt_broker_handle_subscribe(c, m)
                 \/ m \in Pub /\ ns_mqtt_broker_handle_publish(m)
                 \/ m = Ping /\ UNCHANGED <<listVars, topics, ud, out, crashed>>
    /\ UNCHANGED open

\* NS_CLOSE, then the connection is freed.  Without a session the broker
\* itself is taken for one and freed.
close(c) ==
    /\ running /\ c \in open
    /\ IF ud[c] # NULL
       THEN /\ ns_mqtt_remove_session(ud[c]) /\ ns_mqtt_destroy_session(ud[c])
            /\ UNCHANGED crashed
       ELSE crashed' = TRUE /\ UNCHANGED <<listVars, topics>>
    /\ open' = open \ {c} /\ ud' = [ud EXCEPT ![c] = NULL]
    /\ buf' = [buf EXCEPT ![c] = <<>>] /\ out' = [out EXCEPT ![c] = <<>>]
    /\ UNCHANGED <<said, sent>>

Next == \E c \in Conn : accept(c) \/ recv(c) \/ close(c)

Spec == Init /\ [][Next]_vars

-----------------------------------------------------------------------------
(* Properties *)

\* Type invariant.
TypeOK ==
    /\ head \in Ptr /\ next \in [Sess -> Ptr] /\ prev \in [Sess -> Ptr]
    /\ sess \in SUBSET Sess /\ snc \in [Sess -> Conn \cup {NULL}] /\ topics \in [Sess -> Seq(Exp)]
    /\ open \in SUBSET Conn /\ ud \in [Conn -> Ptr] /\ out \in [Conn -> Seq(Pub)]
    /\ buf \in [Conn -> Seq(Pub \cup Sub \cup {Connect, Ping})]
    /\ said \in SUBSET Conn /\ sent \in 0 .. MaxMsg /\ crashed \in BOOLEAN

\* The list of sessions is doubly linked and holds exactly the allocated
\* ones, in whatever order clients come and go.
SessionsLinked ==
    /\ head \in sess \cup {NULL} /\ (head = NULL <=> sess = {})
    /\ \A s \in sess :
          /\ next[s] \in sess \cup {NULL} /\ prev[s] \in sess \cup {NULL}
          /\ next[s] # NULL => prev[next[s]] = s
          /\ prev[s] # NULL => next[prev[s]] = s
          /\ prev[s] = NULL <=> s = head
    /\ \A s \in Sess \ sess : next[s] = NULL /\ prev[s] = NULL

\* The walk of ns_mqtt_broker_handle_publish() reaches every session.
SessionsReached ==
    \A S \in SUBSET sess :
        (head # NULL => head \in S) /\ (\A s \in S : next[s] \in S \cup {NULL}) => S = sess

\* A session and its connection know each other: publishing never sends to
\* a connection that is gone, and closing a connection frees its own session.
SessionsLive ==
    /\ \A s \in sess : snc[s] \in open /\ ud[snc[s]] = s
    /\ \A c \in Conn : ud[c] # NULL => ud[c] \in sess /\ snc[ud[c]] = c

RangeOf(q) == {q[i] : i \in 1 .. Len(q)}

PS == INSTANCE PubSub WITH
        Client <- Conn, Msg <- Pub,
        subs <- [c \in Conn |-> IF ud[c] = NULL THEN {} ELSE RangeOf(topics[ud[c]])],
        inbox <- out

\* The broker implements PubSub: one copy per client with a matching
\* subscription although the walk is over sessions and their subscriptions.
RefinesPubSub == PS!Spec

=============================================================================
