-------------------------- MODULE MqttBrokerProofs --------------------------
(***************************************************************************)
(* The inductive invariant of MqttBroker: what its conjuncts are, why the  *)
(* list operations keep it, and that every handler keeps it.               *)
(***************************************************************************)
EXTENDS MqttBroker, SequenceTheorems, FiniteSetTheorems, TLAPS

Msgs == Pub \cup Sub \cup {Ping}

\* CONNECT is handled at once, so it never waits in a buffer, and before it
\* there is neither a session nor anything else in the buffer.
Traffic ==
    \A c \in Conn : /\ buf[c] \in Seq(Msgs)
                    /\ c \notin said \/ c \notin open => buf[c] = <<>> /\ ud[c] = NULL

Inv == TypeOK /\ SessionsLinked /\ SessionsReached /\ SessionsLive /\ Traffic

-----------------------------------------------------------------------------
(* The list *)

\* No session is its own successor.
LEMMA SelfLoopFree ==
    ASSUME SessionsLinked, SessionsReached, sess \subseteq Sess, NEW s \in sess
    PROVE  next[s] # s
<1> USE BrokerAssumption
<1> SUFFICES ASSUME next[s] = s PROVE FALSE
  OBVIOUS
<1> DEFINE S == sess \ {s}
<1>1. prev[s] = s /\ s # head
  BY DEF SessionsLinked
<1>2. head # NULL => head \in S
  BY <1>1 DEF SessionsLinked
<1>3. \A d \in S : next[d] \in S \cup {NULL}
  BY <1>1 DEF SessionsLinked
<1>4. S = sess
  BY <1>2, <1>3, Zenon DEF SessionsReached
<1>5. QED
  BY <1>4

\* ns_mqtt_add_session() keeps the list linked and complete.
LEMMA AddSession ==
    ASSUME SessionsLinked, SessionsReached, next \in [Sess -> Ptr], prev \in [Sess -> Ptr],
           sess \subseteq Sess, NEW s \in Sess \ sess, ns_mqtt_add_session(s), sess' = sess \cup {s}
    PROVE  SessionsLinked' /\ SessionsReached'
<1> USE BrokerAssumption
<1>1. /\ head' = s /\ next'[s] = head /\ prev'[s] = NULL
      /\ \A d \in sess : next'[d] = next[d] /\ prev'[d] = (IF d = head THEN s ELSE prev[d])
      /\ \A d \in Sess \ sess' : next'[d] = next[d] /\ prev'[d] = prev[d]
  BY DEF ns_mqtt_add_session, SessionsLinked
<1>2. SessionsLinked'
  BY <1>1 DEF SessionsLinked
<1>3. SessionsReached'
  <2> SUFFICES ASSUME NEW S \in SUBSET sess', s \in S, \A d \in S : next'[d] \in S \cup {NULL}
               PROVE  S = sess'
    BY <1>1 DEF SessionsReached
  <2> DEFINE T == S \ {s}
  <2>1. T \in SUBSET sess
    OBVIOUS
  <2>2. head # NULL => head \in T
    BY <1>1 DEF SessionsLinked
  <2>3. \A d \in T : next[d] \in T \cup {NULL}
    BY <1>1, <2>1 DEF SessionsLinked
  <2>4. T = sess
    BY <2>1, <2>2, <2>3, Zenon DEF SessionsReached
  <2>5. QED
    BY <2>4
<1>4. QED
  BY Zenon, <1>2, <1>3

\* So does ns_mqtt_remove_session().
LEMMA RemoveSession ==
    ASSUME SessionsLinked, SessionsReached, next \in [Sess -> Ptr], prev \in [Sess -> Ptr],
           sess \subseteq Sess, NEW s \in sess, ns_mqtt_remove_session(s), sess' = sess \ {s}
    PROVE  SessionsLinked' /\ SessionsReached'
<1> USE BrokerAssumption
<1>1. next[s] # s /\ prev[s] # s
  BY SelfLoopFree DEF SessionsLinked
<1>2. /\ head' = (IF prev[s] = NULL THEN next[s] ELSE head)
      /\ \A d \in sess' : /\ next'[d] = (IF d = prev[s] THEN next[s] ELSE next[d])
                          /\ prev'[d] = (IF d = next[s] THEN prev[s] ELSE prev[d])
      /\ \A d \in Sess \ sess' : next'[d] = NULL /\ prev'[d] = NULL
  BY DEF ns_mqtt_remove_session, SessionsLinked
<1>3. SessionsLinked'
  <2>1. head' \in sess' \cup {NULL} /\ (head' = NULL <=> sess' = {})
    <3>1. CASE s # head
      BY Zenon, <1>1, <1>2, <3>1 DEF SessionsLinked
    <3>2. CASE s = head /\ next[s] # NULL
      BY Zenon, <1>1, <1>2, <3>2 DEF SessionsLinked
    <3>3. CASE s = head /\ next[s] = NULL
      <4> DEFINE S == {s}
      <4>1. S \in SUBSET sess /\ head \in S /\ \A d \in S : next[d] \in S \cup {NULL}
        BY <3>3
      <4>2. S = sess
        BY <4>1, Zenon DEF SessionsReached
      <4>3. QED
        BY Zenon, <1>2, <3>3, <4>2 DEF SessionsLinked
    <3>4. QED
      BY Zenon, <3>1, <3>2, <3>3
  <2>2. ASSUME NEW d \in sess'
        PROVE  /\ next'[d] \in sess' \cup {NULL} /\ prev'[d] \in sess' \cup {NULL}
               /\ next'[d] # NULL => prev'[next'[d]] = d
               /\ prev'[d] # NULL => next'[prev'[d]] = d
               /\ prev'[d] = NULL <=> d = head'
    BY <1>1, <1>2 DEF SessionsLinked
  <2>3. QED
    BY Zenon, <1>2, <2>1, <2>2 DEF SessionsLinked
<1>4. SessionsReached'
  <2> SUFFICES ASSUME NEW S \in SUBSET sess', head' # NULL => head' \in S,
                      \A d \in S : next'[d] \in S \cup {NULL}
               PROVE  S = sess'
    BY DEF SessionsReached
  <2>1. CASE s = head \/ prev[s] \in S
    <3> DEFINE T == S \cup {s}
    <3>1. T \in SUBSET sess /\ (head # NULL => head \in T)
      BY <1>2, <2>1 DEF SessionsLinked
    <3>2. \A d \in T : next[d] \in T \cup {NULL}
      <4>1. next[s] \in T \cup {NULL}
        BY <1>1, <1>2, <2>1 DEF SessionsLinked
      <4>2. QED
        BY <1>2, <4>1 DEF SessionsLinked
    <3>3. T = sess
      BY <3>1, <3>2, Zenon DEF SessionsReached
    <3>4. QED
      BY Zenon, <3>3
  <2>2. CASE s # head /\ prev[s] \notin S
    <3>1. head # NULL => head \in S
      BY <1>2, <2>2 DEF SessionsLinked
    <3>2. \A d \in S : next[d] \in S \cup {NULL}
      BY <1>2, <2>2
    <3>3. S = sess
      BY <3>1, <3>2 DEF SessionsReached
    <3>4. QED
      BY <3>3
  <2>3. QED
    BY <2>1, <2>2
<1>5. QED
  BY Zenon, <1>3, <1>4

\* The walk over the list visits exactly the sessions.
LEMMA WalkVisitsAll ==
    ASSUME SessionsLinked, SessionsReached, sess \subseteq Sess
    PROVE  Listed = sess
<1> USE BrokerAssumption
<1>1. ASSUME NEW s \in Listed PROVE s \in sess
  <2>1. (head # NULL => head \in sess) /\ \A d \in sess : next[d] \in sess \cup {NULL}
    BY DEF SessionsLinked
  <2>2. QED
    BY <1>1, <2>1, Zenon DEF Listed
<1>2. ASSUME NEW s \in sess, NEW S \in SUBSET Sess, head # NULL => head \in S,
             \A d \in S : next[d] \in S \cup {NULL}
      PROVE  s \in S
  <2> DEFINE T == S \cap sess
  <2>1. T \in SUBSET sess /\ (head # NULL => head \in T) /\ \A d \in T : next[d] \in T \cup {NULL}
    BY <1>2 DEF SessionsLinked
  <2>2. T = sess
    BY <2>1, Zenon DEF SessionsReached
  <2>3. QED
    BY <2>2
<1>3. \A s \in sess : s \in Listed
  BY <1>2, Zenon DEF Listed
<1>4. QED
  BY <1>1, <1>3

-----------------------------------------------------------------------------
(* The invariant *)

\* The broker starts in the invariant.
LEMMA InitInv == Init => Inv
<1> SUFFICES ASSUME Init PROVE Inv
  OBVIOUS
<1> USE BrokerAssumption DEF Init
<1>1. TypeOK
  <2>1. <<>> \in Seq(Exp) /\ <<>> \in Seq(Pub) /\ <<>> \in Seq(Pub \cup Sub \cup {Connect, Ping})
    BY EmptySeq
  <2>2. /\ topics \in [Sess -> Seq(Exp)] /\ out \in [Conn -> Seq(Pub)]
        /\ buf \in [Conn -> Seq(Pub \cup Sub \cup {Connect, Ping})]
    BY <2>1
  <2>3. head \in Ptr /\ next \in [Sess -> Ptr] /\ prev \in [Sess -> Ptr] /\ ud \in [Conn -> Ptr]
    BY DEF Ptr
  <2>4. sent \in 0 .. MaxMsg
    OBVIOUS
  <2>5. QED
    BY <2>2, <2>3, <2>4, Zenon DEF TypeOK
<1>2. SessionsLinked /\ SessionsReached /\ SessionsLive
  BY DEF SessionsLinked, SessionsReached, SessionsLive
<1>3. Traffic
  BY DEF Traffic
<1>4. QED
  BY Zenon, <1>1, <1>2, <1>3 DEF Inv

\* The kinds of messages are told apart by their first byte.
LEMMA Kinds ==
    /\ Connect \notin Msgs /\ Ping \notin Pub \cup Sub
    /\ \A m \in Sub : m \notin Pub /\ m.topics \in Wanted
    /\ \A m \in Pub : m.topic \in Topic
BY DEF Connect, Ping, Msgs, Pub, Sub

\* Sequences of one and of two elements.
LEMMA ShortSeq ==
    ASSUME NEW S, NEW T, NEW m \in S, NEW ms, ms = <<m>> \/ \E n \in T : ms = <<m, n>>, T \subseteq S
    PROVE  ms \in Seq(S) /\ ms # <<>> /\ Head(ms) = m /\ Tail(ms) \in Seq(T)
<1>1. CASE ms = <<m>>
  BY <1>1
<1>2. CASE \E n \in T : ms = <<m, n>>
  <2>1. PICK n \in T : ms = <<m, n>>
    BY <1>2
  <2>2. QED
    BY <2>1
<1>3. QED
  BY <1>1, <1>2

\* What arrives on a connection, and what is then in its buffer.
LEMMA Buffered ==
    ASSUME Inv, NEW c \in open, NEW ms \in Arrivals(c), sent \in 0 .. MaxMsg
    PROVE  LET b == buf[c] \o ms IN
           /\ Head(b) \in Msgs \cup {Connect}
           /\ Head(b) = Connect => c \notin said /\ ud[c] = NULL
           /\ Head(b) = Ping => b \in Seq(Msgs)
           /\ Tail(b) \in Seq(Msgs)
           /\ b \in Seq(Msgs \cup {Connect})
<1> DEFINE b == buf[c] \o ms
<1>1. Later \subseteq Msgs
  BY DEF Later, Msgs, Pub
<1>2. c \in Conn /\ buf[c] \in Seq(Msgs) /\ (c \notin said => buf[c] = <<>> /\ ud[c] = NULL)
  BY DEF Inv, Traffic, TypeOK
<1>3. PICK m \in First(c) : ms = <<m>> \/ \E n \in Later : ms = <<m, n>>
  BY DEF Arrivals
<1>4. CASE c \in said
  <2>1. m \in Msgs
    BY <1>1, <1>4 DEF First
  <2>2. ms \in Seq(Msgs) /\ ms # <<>>
    BY <1>1, <1>3, <2>1, ShortSeq, Zenon
  <2>3. b \in Seq(Msgs) /\ b # <<>>
    BY <1>2, <2>2, ConcatProperties, ConcatEqualIffEmpty
  <2>4. Head(b) \in Msgs /\ Tail(b) \in Seq(Msgs)
    BY Zenon, <2>3, HeadTailProperties
  <2>5. QED
    BY <2>3, <2>4, Kinds, SeqMonotonic
<1>5. CASE c \notin said
  <2> DEFINE All == Msgs \cup {Connect}
  <2>1. m = Connect /\ m \in All /\ Later \subseteq All
    BY <1>1, <1>5 DEF First
  <2> HIDE DEF All
  <2>2. ms \in Seq(All) /\ Head(ms) = Connect
    BY <1>3, <2>1, ShortSeq, Zenon
  <2>3. Tail(ms) \in Seq(Msgs)
    <3>1. Tail(ms) \in Seq(Later)
      BY <1>3, <2>1, ShortSeq, Zenon
    <3>2. QED
      BY <1>1, <3>1, SeqMonotonic
  <2>4. b = ms
    BY Zenon, <1>2, <1>5, <2>2, ConcatEmptySeq
  <2>5. QED
    BY Zenon, <1>2, <1>5, <2>2, <2>3, <2>4, Kinds DEF Msgs, All
<1>6. QED
  BY <1>4, <1>5

\* A new connection.
LEMMA AcceptInv == ASSUME Inv, NEW c \in Conn, accept(c) PROVE Inv'
<1> USE BrokerAssumption
<1>1. c \notin open /\ ud' = [ud EXCEPT ![c] = NULL] /\ open' = open \cup {c} /\ UNCHANGED listVars
  BY DEF accept
<1>2. ud[c] = NULL
  BY <1>1 DEF Inv, Traffic
<1>3. ud' = ud
  BY <1>1, <1>2 DEF Inv, TypeOK
<1>4. TypeOK'
  <2>1. buf' \in [Conn -> Seq(Pub \cup Sub \cup {Connect, Ping})]
    BY EmptySeq DEF accept, Inv, TypeOK
  <2>2. open' \in SUBSET Conn /\ said' \in SUBSET Conn
    BY DEF accept, Inv, TypeOK
  <2>3. QED
    BY <1>3, <2>1, <2>2, Zenon DEF accept, Inv, TypeOK, listVars
<1>5. SessionsLinked' /\ SessionsReached'
  BY Zenon, <1>1 DEF Inv, SessionsLinked, SessionsReached, listVars
<1>6. SessionsLive'
  BY Zenon, <1>1, <1>3 DEF Inv, SessionsLive, listVars
<1>7. Traffic'
  BY <1>1, <1>3, <1>2, EmptySeq DEF accept, Inv, Traffic, TypeOK
<1>8. QED
  BY <1>4, <1>5, <1>6, <1>7 DEF Inv

\* A connection that closes.
LEMMA CloseInv == ASSUME Inv, NEW c \in Conn, close(c) PROVE Inv'
<1> USE BrokerAssumption
<1>1. /\ c \in open /\ open' = open \ {c} /\ ud' = [ud EXCEPT ![c] = NULL]
      /\ buf' = [buf EXCEPT ![c] = <<>>] /\ out' = [out EXCEPT ![c] = <<>>]
      /\ said' = said /\ sent' = sent
  BY Zenon DEF close
<1>2. /\ buf' \in [Conn -> Seq(Pub \cup Sub \cup {Connect, Ping})] /\ out' \in [Conn -> Seq(Pub)]
      /\ open' \in SUBSET Conn /\ said' \in SUBSET Conn /\ ud' \in [Conn -> Ptr] /\ sent' \in 0 .. MaxMsg
  BY Zenon, <1>1, EmptySeq DEF Inv, TypeOK, Ptr
<1>3. Traffic'
  BY Zenon, <1>1, EmptySeq DEF Inv, Traffic, TypeOK
<1>4. CASE ud[c] # NULL
  <2> DEFINE s == ud[c]
  <2>1. /\ ns_mqtt_remove_session(s) /\ sess' = sess \ {s} /\ snc' = [snc EXCEPT ![s] = NULL]
        /\ topics' = [topics EXCEPT ![s] = <<>>] /\ crashed' = crashed
    BY Zenon, <1>4 DEF close, ns_mqtt_destroy_session
  <2>2. s \in sess /\ snc[s] = c /\ s \in Sess
    BY Zenon, <1>4 DEF Inv, SessionsLive, TypeOK
  <2> HIDE DEF s
  <2>3. SessionsLinked' /\ SessionsReached'
    BY Zenon, <2>1, <2>2, RemoveSession DEF Inv, TypeOK
  <2>4. SessionsLive'
    BY <1>1, <2>1, <2>2 DEF Inv, SessionsLive, TypeOK, s
  <2>5. head' \in Ptr /\ next' \in [Sess -> Ptr] /\ prev' \in [Sess -> Ptr]
    BY Zenon, <2>1, <2>2 DEF ns_mqtt_remove_session, Inv, TypeOK, Ptr
  <2>6. sess' \in SUBSET Sess /\ snc' \in [Sess -> Conn \cup {NULL}] /\ topics' \in [Sess -> Seq(Exp)]
    BY Zenon, <2>1, EmptySeq DEF Inv, TypeOK
  <2>7. TypeOK'
    BY <1>2, <2>1, <2>5, <2>6, Zenon DEF Inv, TypeOK
  <2>8. QED
    BY Zenon, <1>3, <2>3, <2>4, <2>7 DEF Inv
<1>5. CASE ud[c] = NULL
  <2>1. UNCHANGED <<listVars, topics>> /\ crashed' = TRUE
    BY Zenon, <1>5 DEF close
  <2>2. ud' = ud
    BY Zenon, <1>1, <1>5 DEF Inv, TypeOK
  <2>3. TypeOK'
    BY <1>2, <2>1, Zenon DEF Inv, TypeOK, listVars
  <2>4. SessionsLinked' /\ SessionsReached'
    BY Zenon, <2>1 DEF Inv, SessionsLinked, SessionsReached, listVars
  <2>5. SessionsLive'
    BY <1>1, <1>5, <2>1, <2>2 DEF Inv, SessionsLive, TypeOK, listVars
  <2>6. QED
    BY Zenon, <1>3, <2>3, <2>4, <2>5 DEF Inv
<1>6. QED
  BY Zenon, <1>4, <1>5

\* The sessions a message goes to: the one of the connection, or none.
LEMMA OneSession ==
    ASSUME Inv, NEW c \in Conn, NEW t
    PROVE  subscribed(c, t) = IF ud[c] # NULL /\ \E e \in RangeOf(topics[ud[c]]) : <<e, t>> \in Matching
                              THEN {ud[c]} ELSE {}
<1> USE BrokerAssumption
<1>1. Listed = sess
  BY WalkVisitsAll DEF Inv, TypeOK
<1>2. NULL \notin sess
  BY DEF Inv, TypeOK
<1>3. \A s \in sess : snc[s] = c <=> s = ud[c]
  BY Zenon, <1>2 DEF Inv, SessionsLive
<1>4. ud[c] # NULL => ud[c] \in sess
  BY Zenon DEF Inv, SessionsLive
<1>5. QED
  BY Zenon, <1>1, <1>2, <1>3, <1>4 DEF subscribed, RangeOf

\* What ns_mqtt_broker_handle_publish() sends to each connection.
LEMMA OneCopy ==
    ASSUME Inv, NEW m \in Pub, ns_mqtt_broker_handle_publish(m), NEW c \in Conn
    PROVE  out'[c] = IF ud[c] # NULL /\ \E e \in RangeOf(topics[ud[c]]) : <<e, m.topic>> \in Matching
                     THEN Append(out[c], m) ELSE out[c]
<1> DEFINE n == Cardinality(subscribed(c, m.topic))
           copies == [i \in 1 .. n |-> m]
<1>1. out'[c] = out[c] \o copies
  BY Zenon DEF ns_mqtt_broker_handle_publish
<1>2. out[c] \in Seq(Pub)
  BY DEF Inv, TypeOK
<1>3. CASE ud[c] # NULL /\ \E e \in RangeOf(topics[ud[c]]) : <<e, m.topic>> \in Matching
  <2>1. n = 1
    BY Zenon, <1>3, OneSession, FS_Singleton
  <2>2. copies = <<m>>
    BY <2>1
  <2>3. QED
    BY Zenon, <1>1, <1>2, <1>3, <2>2, AppendIsConcat
<1>4. CASE ~(ud[c] # NULL /\ \E e \in RangeOf(topics[ud[c]]) : <<e, m.topic>> \in Matching)
  <2>1. n = 0
    BY Zenon, <1>4, OneSession, FS_EmptySet
  <2>2. copies = <<>>
    BY <2>1
  <2>3. QED
    BY Zenon, <1>1, <1>2, <1>4, <2>2, ConcatEmptySeq
<1>5. QED
  BY <1>3, <1>4

\* A message is read.
LEMMA RecvInv == ASSUME Inv, NEW c \in Conn, recv(c) PROVE Inv'
<1> USE BrokerAssumption
<1> DEFINE b(ms) == buf[c] \o ms
<1>1. PICK ms \in Arrivals(c) :
        /\ c \in open /\ sent' = sent + Len(ms) /\ sent + Len(ms) <= MaxMsg
        /\ said' = said \cup {c} /\ UNCHANGED open
        /\ buf' = [buf EXCEPT ![c] = IF Head(b(ms)) = Ping THEN b(ms) ELSE Tail(b(ms))]
        /\ \/ Head(b(ms)) = Connect /\ ns_mqtt_broker_handle_connect(c)
           \/ Head(b(ms)) \in Sub /\ ns_mqtt_broker_handle_subscribe(c, Head(b(ms)))
           \/ Head(b(ms)) \in Pub /\ ns_mqtt_broker_handle_publish(Head(b(ms)))
           \/ Head(b(ms)) = Ping /\ UNCHANGED <<listVars, topics, ud, out, crashed>>
  BY Zenon DEF recv
<1> DEFINE m == Head(b(ms))
<1>2. /\ m = Connect => c \notin said /\ ud[c] = NULL
      /\ m = Ping => b(ms) \in Seq(Msgs)
      /\ Tail(b(ms)) \in Seq(Msgs)
  BY Zenon, <1>1, Buffered DEF Inv, TypeOK
<1>3. buf' \in [Conn -> Seq(Msgs)] /\ \A d \in Conn \ {c} : buf'[d] = buf[d]
  BY <1>1, <1>2 DEF Inv, Traffic, TypeOK
<1>4. Len(ms) \in Nat
  BY DEF Arrivals
<1>5. /\ sent' \in 0 .. MaxMsg /\ said' \in SUBSET Conn /\ open' \in SUBSET Conn
      /\ buf' \in [Conn -> Seq(Pub \cup Sub \cup {Connect, Ping})]
  <2>1. sent' \in 0 .. MaxMsg /\ said' \in SUBSET Conn /\ open' \in SUBSET Conn
    BY <1>1, <1>4 DEF Inv, TypeOK
  <2>2. \A q \in Seq(Msgs) : q \in Seq(Pub \cup Sub \cup {Connect, Ping})
    BY SeqMonotonic DEF Msgs
  <2>3. QED
    BY Zenon, <1>3, <2>1, <2>2
<1> HIDE DEF m
<1>6. ASSUME \A d \in Conn \ {c} : ud'[d] = ud[d] PROVE Traffic'
  BY Zenon, <1>1, <1>3, <1>6 DEF Inv, Traffic
<1>7. CASE UNCHANGED <<listVars, ud>> /\ topics' \in [Sess -> Seq(Exp)] /\ out' \in [Conn -> Seq(Pub)]
           /\ crashed' \in BOOLEAN
  <2>1. TypeOK'
    BY <1>5, <1>7, Zenon DEF Inv, TypeOK, listVars
  <2>2. SessionsLinked' /\ SessionsReached'
    BY Zenon, <1>7 DEF Inv, SessionsLinked, SessionsReached, listVars
  <2>3. SessionsLive'
    BY Zenon, <1>1, <1>7 DEF Inv, SessionsLive, listVars
  <2>4. QED
    BY Zenon, <1>6, <1>7, <2>1, <2>2, <2>3 DEF Inv
<1>8. CASE m = Connect /\ ns_mqtt_broker_handle_connect(c)
  <2>1. CASE UNCHANGED <<listVars, topics, ud>>
    BY <1>7, <1>8, <2>1, Zenon DEF ns_mqtt_broker_handle_connect, Inv, TypeOK
  <2>2. ASSUME NEW s \in Sess \ sess,
               /\ ns_mqtt_add_session(s) /\ sess' = sess \cup {s} /\ snc' = [snc EXCEPT ![s] = c]
               /\ ud' = [ud EXCEPT ![c] = s] /\ topics' = [topics EXCEPT ![s] = <<>>]
        PROVE  Inv'
    <3>1. SessionsLinked' /\ SessionsReached'
      BY Zenon, <2>2, AddSession DEF Inv, TypeOK
    <3>2. ud[c] = NULL
      BY Zenon, <1>2, <1>8 DEF m
    <3>3. SessionsLive'
      BY <1>1, <2>2, <3>2 DEF Inv, SessionsLive, TypeOK
    <3>4. head' \in Ptr /\ next' \in [Sess -> Ptr] /\ prev' \in [Sess -> Ptr]
      BY Zenon, <2>2 DEF ns_mqtt_add_session, Inv, TypeOK, Ptr
    <3>5. /\ sess' \in SUBSET Sess /\ snc' \in [Sess -> Conn \cup {NULL}]
          /\ topics' \in [Sess -> Seq(Exp)] /\ ud' \in [Conn -> Ptr]
      BY Zenon, <2>2, EmptySeq DEF Inv, TypeOK, Ptr
    <3>6. TypeOK'
      BY <1>5, <1>8, <3>4, <3>5, Zenon DEF ns_mqtt_broker_handle_connect, Inv, TypeOK
    <3>7. Traffic'
      BY <1>6, <2>2 DEF Inv, TypeOK
    <3>8. QED
      BY Zenon, <3>1, <3>3, <3>6, <3>7 DEF Inv
  <2>3. QED
    BY <1>8, <2>1, <2>2, Zenon DEF ns_mqtt_broker_handle_connect
<1>9. CASE m \in Sub /\ ns_mqtt_broker_handle_subscribe(c, m)
  <2>1. topics' \in [Sess -> Seq(Exp)]
    <3>1. m.topics \in Seq(Exp)
      BY Zenon, <1>9, Kinds
    <3>2. CASE UNCHANGED topics
      BY Zenon, <3>2 DEF Inv, TypeOK
    <3>3. CASE ud[c] # NULL /\ topics' = [topics EXCEPT ![ud[c]] = @ \o m.topics]
      <4>1. ud[c] \in Sess /\ topics[ud[c]] \in Seq(Exp)
        BY Zenon, <3>3 DEF Inv, TypeOK, Ptr
      <4>2. topics[ud[c]] \o m.topics \in Seq(Exp)
        BY Zenon, <3>1, <4>1, ConcatProperties
      <4>3. QED
        BY Zenon, <3>3, <4>1, <4>2 DEF Inv, TypeOK
    <3>4. QED
      BY Zenon, <1>9, <3>2, <3>3 DEF ns_mqtt_broker_handle_subscribe
  <2>2. UNCHANGED <<listVars, ud, out>> /\ crashed' \in BOOLEAN
    BY <1>9, Zenon DEF ns_mqtt_broker_handle_subscribe, Inv, TypeOK
  <2>3. QED
    BY <1>7, <2>1, <2>2, Zenon DEF Inv, TypeOK
<1>10. CASE m \in Pub /\ ns_mqtt_broker_handle_publish(m)
  <2>1. \A d \in Conn : out'[d] \in Seq(Pub)
    <3> TAKE d \in Conn
    <3>1. out'[d] = Append(out[d], m) \/ out'[d] = out[d]
      BY Zenon, <1>10, OneCopy
    <3>2. out[d] \in Seq(Pub)
      BY DEF Inv, TypeOK
    <3>3. m \in Pub
      BY <1>10
    <3>4. Append(out[d], m) \in Seq(Pub)
      BY <3>2, <3>3, AppendProperties, Zenon
    <3>5. QED
      BY <3>1, <3>2, <3>4, Zenon
  <2>2. out' \in [Conn -> Seq(Pub)]
    BY Zenon, <1>10, <2>1 DEF ns_mqtt_broker_handle_publish
  <2>3. UNCHANGED <<listVars, topics, ud, crashed>>
    BY <1>10 DEF ns_mqtt_broker_handle_publish
  <2>4. QED
    BY <1>7, <2>2, <2>3, Zenon DEF Inv, TypeOK
<1>11. CASE UNCHANGED <<listVars, topics, ud, out, crashed>>
  BY <1>7, <1>11, Zenon DEF Inv, TypeOK
<1>12. QED
  BY Zenon, <1>1, <1>8, <1>9, <1>10, <1>11 DEF m

-----------------------------------------------------------------------------
(***************************************************************************)
(* Theorems about MqttBroker, for any number of connections, sessions,     *)
(* topics and messages: the session list is never damaged, sessions and    *)
(* connections stay paired, and the broker implements PubSub.              *)
(***************************************************************************)

-----------------------------------------------------------------------------
(* Theorems *)

\* Inv is inductive.
LEMMA StepInv == Inv /\ [Next]_vars => Inv'
<1> SUFFICES ASSUME Inv, [Next]_vars PROVE Inv'
  OBVIOUS
<1>1. CASE Next
  BY Zenon, <1>1, AcceptInv, RecvInv, CloseInv DEF Next
<1>2. CASE UNCHANGED vars
  BY <1>2, Zenon
  DEF vars, listVars, connVars, Inv, TypeOK, SessionsLinked, SessionsReached, SessionsLive, Traffic, Msgs, Pub, Sub
<1>3. QED
  BY Zenon, <1>1, <1>2

\* The inductive invariant holds throughout: whatever clients connect,
\* subscribe, publish and close, in any order.
THEOREM BrokerInvariant == Spec => []Inv
BY InitInv, StepInv, PTL DEF Spec

\* The session list of ns_mqtt_add_session() and ns_mqtt_remove_session() is
\* never damaged, for any number of sessions.
THEOREM SessionListSound == Spec => []SessionsLinked
<1>1. Inv => SessionsLinked
  BY Zenon DEF Inv
<1>2. QED
  BY <1>1, BrokerInvariant, PTL

\* Sessions and connections stay paired: ns_mqtt_broker_handle_publish() never
\* writes to a connection that was freed.
THEOREM NoStaleSession == Spec => []SessionsLive
<1>1. Inv => SessionsLive
  BY Zenon DEF Inv
<1>2. QED
  BY <1>1, BrokerInvariant, PTL

-----------------------------------------------------------------------------
(* The broker implements PubSub *)

\* The subscriptions of each client, as PubSub sees them.
SubsOf == [c \in Conn |-> IF ud[c] = NULL THEN {} ELSE RangeOf(topics[ud[c]])]

\* Nobody subscribes to what is not a topic expression.
LEMMA RangeConcat ==
    ASSUME NEW p \in Seq(Exp), NEW q \in Seq(Exp)
    PROVE  RangeOf(p \o q) = RangeOf(p) \cup RangeOf(q) /\ RangeOf(q) \subseteq Exp
<1>1. /\ Len(p) \in Nat /\ Len(q) \in Nat /\ Len(p \o q) = Len(p) + Len(q)
      /\ \A i \in 1 .. Len(p) + Len(q) : (p \o q)[i] = IF i <= Len(p) THEN p[i] ELSE q[i - Len(p)]
  BY Zenon, ConcatProperties, LenProperties
<1>2. ASSUME NEW x \in RangeOf(p \o q) PROVE x \in RangeOf(p) \cup RangeOf(q)
  <2>1. PICK i \in 1 .. Len(p) + Len(q) : x = (p \o q)[i]
    BY Zenon, <1>1 DEF RangeOf
  <2>2. CASE i <= Len(p)
    BY <1>1, <2>1, <2>2 DEF RangeOf
  <2>3. CASE i > Len(p)
    <3>1. i - Len(p) \in 1 .. Len(q) /\ x = q[i - Len(p)]
      BY <1>1, <2>1, <2>3
    <3>2. QED
      BY Zenon, <3>1 DEF RangeOf
  <2>4. QED
    BY <1>1, <2>1, <2>2, <2>3
<1>3. ASSUME NEW x \in RangeOf(p) PROVE x \in RangeOf(p \o q)
  BY <1>1 DEF RangeOf
<1>4. ASSUME NEW x \in RangeOf(q) PROVE x \in RangeOf(p \o q)
  <2>1. PICK i \in 1 .. Len(q) : x = q[i]
    BY Zenon DEF RangeOf
  <2>2. Len(p) + i \in 1 .. Len(p) + Len(q) /\ (p \o q)[Len(p) + i] = q[i]
    BY <1>1, <2>1
  <2>3. QED
    BY Zenon, <1>1, <2>1, <2>2 DEF RangeOf
<1>5. RangeOf(q) \subseteq Exp
  BY Zenon, ElementOfSeq DEF RangeOf
<1>6. QED
  BY Zenon, <1>2, <1>3, <1>4, <1>5

\* Handling a message is a step of PubSub, or none.
LEMMA RecvRefines == ASSUME Inv, NEW c \in Conn, recv(c) PROVE PS!Next \/ UNCHANGED <<SubsOf, out>>
<1> USE BrokerAssumption
<1>0. PICK ms \in Arrivals(c) :
        /\ c \in open
        /\ \/ Head(buf[c] \o ms) = Connect /\ ns_mqtt_broker_handle_connect(c)
           \/ Head(buf[c] \o ms) \in Sub /\ ns_mqtt_broker_handle_subscribe(c, Head(buf[c] \o ms))
           \/ Head(buf[c] \o ms) \in Pub /\ ns_mqtt_broker_handle_publish(Head(buf[c] \o ms))
           \/ Head(buf[c] \o ms) = Ping /\ UNCHANGED <<listVars, topics, ud, out, crashed>>
  BY Zenon DEF recv
<1> DEFINE m == Head(buf[c] \o ms)
<1>1. m = Connect => ud[c] = NULL
  BY Zenon, <1>0, Buffered DEF Inv, TypeOK
<1> HIDE DEF m
<1>2. CASE UNCHANGED <<topics, ud, out>>
  BY <1>2 DEF SubsOf
<1>3. CASE m = Connect /\ ns_mqtt_broker_handle_connect(c)
  <2>1. ASSUME NEW s \in Sess \ sess,
               ud' = [ud EXCEPT ![c] = s] /\ topics' = [topics EXCEPT ![s] = <<>>] /\ out' = out
        PROVE  UNCHANGED <<SubsOf, out>>
    <3>1. \A d \in Conn : ud[d] # s
      BY <2>1 DEF Inv, SessionsLive, TypeOK
    <3>2. RangeOf(<<>>) = {}
      BY DEF RangeOf
    <3>3. \A d \in Conn : (IF ud'[d] = NULL THEN {} ELSE RangeOf(topics'[ud'[d]]))
                            = IF ud[d] = NULL THEN {} ELSE RangeOf(topics[ud[d]])
      BY Zenon, <1>1, <1>3, <2>1, <3>1, <3>2 DEF Inv, TypeOK, Ptr
    <3>4. QED
      BY Zenon, <2>1, <3>3 DEF SubsOf
  <2>2. QED
    BY <1>2, <1>3, <2>1, Zenon DEF ns_mqtt_broker_handle_connect
<1>4. CASE m \in Sub /\ ns_mqtt_broker_handle_subscribe(c, m)
  <2>1. CASE UNCHANGED topics
    BY Zenon, <1>2, <1>4, <2>1 DEF ns_mqtt_broker_handle_subscribe
  <2>2. CASE ud[c] # NULL /\ topics' = [topics EXCEPT ![ud[c]] = @ \o m.topics]
    <3> DEFINE E == RangeOf(m.topics)
    <3>1. ud[c] \in Sess /\ topics[ud[c]] \in Seq(Exp) /\ m.topics \in Seq(Exp)
      BY Zenon, <1>4, <2>2, Kinds DEF Inv, TypeOK, Ptr
    <3>2. RangeOf(topics[ud[c]] \o m.topics) = RangeOf(topics[ud[c]]) \cup E /\ E \in SUBSET Exp
      BY Zenon, <3>1, RangeConcat
    <3>3. ud' = ud /\ out' = out
      BY Zenon, <1>4 DEF ns_mqtt_broker_handle_subscribe
    <3>4. \A d \in Conn \ {c} : ud[d] # NULL => ud[d] # ud[c] /\ ud[d] \in Sess
      BY <2>2 DEF Inv, SessionsLive, TypeOK, Ptr
    <3> HIDE DEF E
    <3>5. \A d \in Conn : (IF ud'[d] = NULL THEN {} ELSE RangeOf(topics'[ud'[d]]))
                            = IF d = c THEN SubsOf[c] \cup E ELSE SubsOf[d]
      BY Zenon, <2>2, <3>1, <3>2, <3>3, <3>4 DEF SubsOf, Inv, TypeOK
    <3>6. SubsOf' = [SubsOf EXCEPT ![c] = @ \cup E]
      BY Zenon, <3>5 DEF SubsOf
    <3>7. PICK X \in SUBSET Exp : X = E
      BY Zenon, <3>2
    <3>8. PS!Subscribe(c, X)
      BY Zenon, <3>3, <3>6, <3>7 DEF PS!Subscribe, SubsOf
    <3>9. QED
      BY <3>8, Zenon DEF PS!Next
  <2>3. QED
    BY Zenon, <1>4, <2>1, <2>2 DEF ns_mqtt_broker_handle_subscribe
<1>5. CASE m \in Pub /\ ns_mqtt_broker_handle_publish(m)
  <2>1. UNCHANGED <<topics, ud>> /\ DOMAIN out' = Conn /\ out' = [d \in Conn |-> out'[d]]
    BY Zenon, <1>5 DEF ns_mqtt_broker_handle_publish
  <2>2. \A d \in Conn : out'[d] = IF PS!Matches(d, m.topic) THEN Append(out[d], m) ELSE out[d]
    <3> TAKE d \in Conn
    <3>1. PS!Matches(d, m.topic) <=> ud[d] # NULL /\ \E e \in RangeOf(topics[ud[d]]) : <<e, m.topic>> \in Matching
      BY Zenon DEF PS!Matches
    <3>2. QED
      BY Zenon, <1>5, <3>1, OneCopy
  <2>3. PS!Publish(m)
    BY Zenon, <2>1, <2>2 DEF PS!Publish
  <2>4. QED
    BY Zenon, <1>5, <2>3 DEF PS!Next
<1>6. CASE UNCHANGED <<listVars, topics, ud, out, crashed>>
  BY Zenon, <1>2, <1>6
<1>7. QED
  BY Zenon, <1>0, <1>3, <1>4, <1>5, <1>6 DEF m

\* A client that goes away leaves, in PubSub too.
LEMMA CloseRefines == ASSUME Inv, NEW c \in Conn, close(c) PROVE PS!Next \/ UNCHANGED <<SubsOf, out>>
<1> USE BrokerAssumption
<1>1. ud' = [ud EXCEPT ![c] = NULL] /\ out' = [out EXCEPT ![c] = <<>>]
  BY Zenon DEF close
<1>2. \A d \in Conn \ {c} : ud[d] # NULL => topics'[ud[d]] = topics[ud[d]]
  <2>1. CASE ud[c] = NULL
    BY Zenon, <2>1 DEF close
  <2>2. CASE ud[c] # NULL
    <3>1. topics' = [topics EXCEPT ![ud[c]] = <<>>]
      BY Zenon, <2>2 DEF close, ns_mqtt_destroy_session
    <3>2. \A d \in Conn \ {c} : ud[d] # NULL => ud[d] # ud[c] /\ ud[d] \in Sess
      BY <2>2 DEF Inv, SessionsLive, TypeOK, Ptr
    <3>3. QED
      BY Zenon, <3>1, <3>2 DEF Inv, TypeOK
  <2>3. QED
    BY Zenon, <2>1, <2>2
<1>3. \A d \in Conn : (IF ud'[d] = NULL THEN {} ELSE RangeOf(topics'[ud'[d]]))
                        = IF d = c THEN {} ELSE SubsOf[d]
  BY <1>1, <1>2 DEF SubsOf, Inv, TypeOK
<1>4. SubsOf' = [SubsOf EXCEPT ![c] = {}]
  BY Zenon, <1>3 DEF SubsOf
<1>5. PS!Leave(c)
  BY Zenon, <1>1, <1>4 DEF PS!Leave, SubsOf
<1>6. QED
  BY <1>5, Zenon DEF PS!Next

\* The broker implements PubSub: a published message is sent once to every
\* client with a matching subscription and to nobody else, in one order.
THEOREM BrokerRefinesPubSub == Spec => RefinesPubSub
<1>1. Init => PS!Init
  <2> SUFFICES ASSUME Init PROVE PS!Init
    OBVIOUS
  <2>1. SubsOf = [c \in Conn |-> {}]
    BY DEF Init, SubsOf
  <2>2. QED
    BY Zenon, <2>1 DEF Init, PS!Init, SubsOf
<1>2. Inv /\ [Next]_vars => [PS!Next]_<<SubsOf, out>>
  <2> SUFFICES ASSUME Inv, [Next]_vars PROVE PS!Next \/ UNCHANGED <<SubsOf, out>>
    BY Zenon
  <2>1. ASSUME NEW c \in Conn, accept(c) PROVE UNCHANGED <<SubsOf, out>>
    <3>1. ud' = [ud EXCEPT ![c] = NULL] /\ topics' = topics /\ out' = out /\ ud[c] = NULL
      BY Zenon, <2>1 DEF accept, Inv, Traffic
    <3>2. ud' = ud
      BY Zenon, <3>1 DEF Inv, TypeOK
    <3>3. QED
      BY Zenon, <3>1, <3>2 DEF SubsOf
  <2>2. CASE UNCHANGED vars
    BY <2>2 DEF vars, connVars, SubsOf
  <2>3. QED
    BY Zenon, <2>1, <2>2, RecvRefines, CloseRefines DEF Next
<1>3. QED
  BY <1>1, <1>2, BrokerInvariant, PTL DEF Spec, RefinesPubSub, PS!Spec, SubsOf

=============================================================================
