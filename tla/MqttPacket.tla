----------------------------- MODULE MqttPacket -----------------------------
(***************************************************************************)
(* MQTT packets: ns_mqtt_prepend_header() and the functions that send      *)
(* commands on one side, parse_mqtt() and mqtt_handler() on the other.     *)
(* The receiver is [io, got, early]: recv_mbuf, the events, and whether    *)
(* parse_mqtt() has taken a packet that had not arrived in full; what the  *)
(* code does after that depends on memory it does not own, and the model   *)
(* stops there.                                                            *)
(***************************************************************************)
EXTENDS Integers, SequencesExt

CONNACK == 2
PUBLISH == 3
PUBACK == 4
SUBSCRIBE == 8
PINGREQ == 12

u16(n) == <<n \div 256, n % 256>>
qos(flags) == (flags \div 2) % 4

\* The variable length of ns_mqtt_prepend_header().
RECURSIVE var_length(_)
var_length(len) ==
    IF len < 128 THEN <<len>> ELSE <<128 + (len % 128)>> \o var_length(len \div 128)

ns_mqtt_prepend_header(cmd, flags, body) ==
    <<16 * cmd + flags>> \o var_length(Len(body)) \o body

ns_mqtt_publish(m) ==
    ns_mqtt_prepend_header(PUBLISH, m.flags,
      u16(Len(m.topic)) \o m.topic \o (IF qos(m.flags) > 0 THEN u16(m.id) ELSE <<>>) \o m.data)

\* topics is a sequence of [topic, qos].
ns_mqtt_subscribe(m) ==
    ns_mqtt_prepend_header(SUBSCRIBE, 2,
      u16(m.id) \o FlattenSeq([i \in DOMAIN m.topics |->
        u16(Len(m.topics[i].topic)) \o m.topics[i].topic \o <<m.topics[i].qos>>]))

ns_mqtt_connack(m) == ns_mqtt_prepend_header(CONNACK, 0, <<0, m.code>>)

ns_send_mqtt_short_command(m) == ns_mqtt_prepend_header(m.cmd, 2, u16(m.id))

ns_mqtt_ping == ns_mqtt_prepend_header(PINGREQ, 0, <<>>)

send_mqtt(m) ==
    CASE m.cmd = PUBLISH -> ns_mqtt_publish(m)
      [] m.cmd = SUBSCRIBE -> ns_mqtt_subscribe(m)
      [] m.cmd = CONNACK -> ns_mqtt_connack(m)
      [] m.cmd = PINGREQ -> ns_mqtt_ping
      [] OTHER -> ns_send_mqtt_short_command(m)

-----------------------------------------------------------------------------
\* The bytes of the variable length at io[2]: up to the first one below 128,
\* as far as they are there.
vlen(io) ==
    LET last == {i \in 2 .. Len(io) : io[i] < 128}
    IN  SubSeq(io, 2, IF last = {} THEN Len(io) ELSE Min(last))

decoded(v) == FoldLeftDomain(LAMBDA n, i : n + (v[i] % 128) * 2^(7 * (i - 1)), 0, v)

\* What parse_mqtt() makes of the packet io[1], whose contents are body.
event(header, body) ==
    LET cmd == header \div 16
        topic_len == 256 * body[1] + body[2]
        id == 256 * body[1] + body[2]
        from(n) == SubSeq(body, n + 1, Len(body))
    IN  CASE cmd = CONNACK -> [cmd |-> cmd, code |-> body[2], payload |-> from(2)]
          [] cmd = PUBLISH ->
               [cmd |-> cmd, topic |-> SubSeq(body, 3, 2 + topic_len),
                payload |-> from(2 + topic_len + (IF qos(header % 16) > 0 THEN 2 ELSE 0))]
          [] cmd \in {PUBACK, SUBSCRIBE} -> [cmd |-> cmd, id |-> id, payload |-> from(2)]
          [] OTHER -> [cmd |-> cmd, payload |-> body]

\* Mutant: the packet's own header is left in the buffer.
mqtt_handler_keeps(r, bytes) ==
    LET io == r.io \o bytes
        v == vlen(io)
        len == decoded(v)
        end == 1 + Len(v) + len
    IN  IF Len(io) < 2 \/ len = 0 \/ Len(io) < len - 1 THEN [r EXCEPT !.io = io]
        ELSE IF Last(v) >= 128 \/ Len(io) < end THEN [r EXCEPT !.early = TRUE]
        ELSE [r EXCEPT !.got = Append(@, event(io[1], SubSeq(io, 2 + Len(v), end))),
                       !.io = SubSeq(io, len + 1, Len(io))]

\* NS_RECV of mqtt_handler(): at most one packet.  A length of 0 is never
\* "fully buffered": len - 1 is then the largest size_t.
mqtt_handler(r, bytes) ==
    LET io == r.io \o bytes
        v == vlen(io)
        len == decoded(v)
        end == 1 + Len(v) + len
    IN  IF Len(io) < 2 \/ len = 0 \/ Len(io) < len - 1 THEN [r EXCEPT !.io = io]
        ELSE IF Last(v) >= 128 \/ Len(io) < end THEN [r EXCEPT !.early = TRUE]
        ELSE [r EXCEPT !.got = Append(@, event(io[1], SubSeq(io, 2 + Len(v), end))),
                       !.io = SubSeq(io, end + 1, Len(io))]

\* ns_mqtt_next_subscribe_topic() over the payload of a SUBSCRIBE.
RECURSIVE subscribe_topics(_)
subscribe_topics(p) ==
    IF p = <<>> THEN <<>>
    ELSE LET n == 256 * p[1] + p[2]
         IN  <<[topic |-> SubSeq(p, 3, 2 + n), qos |-> p[3 + n]]>>
             \o subscribe_topics(SubSeq(p, 4 + n, Len(p)))

=============================================================================
