-------------------------------- MODULE Wire --------------------------------
(***************************************************************************)
(* One peer sends messages with the library's encoders, the other runs the *)
(* library's protocol handler on what the network brings: a byte stream    *)
(* cut anywhere for WebSocket, chunked HTTP and MQTT, whole datagrams for  *)
(* CoAP and DNS.                                                           *)
(***************************************************************************)
EXTENDS Integers, SequencesExt

WS == INSTANCE WebSocket
HC == INSTANCE HttpChunk
CO == INSTANCE Coap
MQ == INSTANCE MqttPacket
DN == INSTANCE DnsPacket

CONSTANTS
    WsMessages,     \* sequences of [op, key, frags]: frags is a sequence of payloads
    ChunkMessages,  \* [delete, chunks]
    CoapMessages,   \* ns_coap_message, options in the order they are added
    MqttMessages,   \* sequences of commands
    DnsMessages,    \* [tid, name, rtype, answers, compressed]
    Junk,           \* values of bytes nobody has written
    NameSize        \* the buffer given to ns_dns_uncompress_name()

VARIABLES
    proto,          \* the protocol
    sent,           \* what the sender has sent
    rest,           \* the bytes that have not arrived
    rcv,            \* the receiver
    closed          \* the receiver has seen the end of the stream

vars == <<proto, sent, rest, rcv, closed>>

Waiting == [waiting |-> TRUE]

-----------------------------------------------------------------------------
(* The sender.                                                             *)

ws_bytes(m) ==
    FlattenSeq([i \in DOMAIN m.frags |->
      WS!ns_send_websocket_frame(i = Len(m.frags), IF i = 1 THEN m.op ELSE 0, m.frags[i], m.key)])

\* The message as ns_coap_add_option() leaves it.
coap_message(m) == [m EXCEPT !.options = FoldLeft(CO!ns_coap_add_option, <<>>, m.options)]

dns_bytes(m) == DN!reply(DN!ns_send_dns_query(m.tid, m.name, m.rtype), m.answers, m.compressed)

Init ==
    /\ closed = FALSE
    /\ \/ /\ proto = "websocket" /\ sent \in WsMessages
          /\ rest = FlattenSeq([i \in DOMAIN sent |-> ws_bytes(sent[i])])
          /\ rcv = [mem |-> <<>>, len |-> 0, closing |-> FALSE, got |-> <<>>]
       \/ /\ proto = "chunked" /\ sent \in ChunkMessages
          /\ rest = HC!send_chunked(sent.chunks)
          /\ rcv = [io |-> <<>>, body_len |-> 0, delete |-> sent.delete, chunks |-> <<>>, replies |-> <<>>]
       \/ /\ proto = "mqtt" /\ sent \in MqttMessages
          /\ rest = FlattenSeq([i \in DOMAIN sent |-> MQ!send_mqtt(sent[i])])
          /\ rcv = [io |-> <<>>, got |-> <<>>, early |-> FALSE]
       \/ /\ proto = "coap" /\ sent \in CoapMessages
          /\ rest = CO!ns_coap_compose(coap_message(sent)).bytes
          /\ rcv = Waiting
       \/ /\ proto = "dns" /\ sent \in DnsMessages
          /\ rest = dns_bytes(sent)
          /\ rcv = Waiting

-----------------------------------------------------------------------------
(* The receiver: NS_RECV with the next k bytes, or with a datagram.        *)

stream(p, k) ==
    /\ proto = p /\ k \in 1 .. Len(rest)
    /\ rest' = SubSeq(rest, k + 1, Len(rest))
    /\ UNCHANGED <<proto, sent, closed>>

ws_recv(k) == stream("websocket", k) /\ rcv' = WS!websocket_handler(rcv, SubSeq(rest, 1, k))

chunked_recv(k) == stream("chunked", k) /\ rcv' = HC!http_handler(rcv, SubSeq(rest, 1, k))

chunked_close ==
    /\ proto = "chunked" /\ rest = <<>> /\ ~closed
    /\ closed' = TRUE
    /\ rcv' = HC!http_handler_close(rcv)
    /\ UNCHANGED <<proto, sent, rest>>

mqtt_recv(k) == stream("mqtt", k) /\ ~rcv.early /\ rcv' = MQ!mqtt_handler(rcv, SubSeq(rest, 1, k))

datagram(p) ==
    /\ proto = p /\ rcv = Waiting
    /\ rest' = <<>>
    /\ UNCHANGED <<proto, sent, closed>>

\* What ns_coap_compose() has reserved and not written goes out as it is.
coap_recv ==
    /\ datagram("coap")
    /\ \E junk \in Junk :
         LET c == CO!ns_coap_compose(coap_message(sent))
         IN  rcv' = CO!ns_coap_parse(c.bytes \o [i \in 1 .. c.stray |-> junk])

dns_recv == datagram("dns") /\ rcv' = DN!dns_handler(rest, NameSize)

Next ==
    \/ chunked_close \/ coap_recv \/ dns_recv
    \/ \E k \in 1 .. Len(rest) : ws_recv(k) \/ chunked_recv(k) \/ mqtt_recv(k)

Spec == Init /\ [][Next]_vars

-----------------------------------------------------------------------------
\* Every WebSocket message arrives once, in order and unchanged, control frames
\* as such, wherever the network cuts the stream and however the peer cuts a
\* message into (masked) fragments (deliver_websocket_data(), which puts the
\* fragments together in recv_mbuf).
WsWhole ==
    proto = "websocket" =>
      LET told == [i \in DOMAIN sent |-> [control |-> sent[i].op >= 8, data |-> FlattenSeq(sent[i].frags)]]
      IN  IsPrefix(rcv.got, told) /\ (rest = <<>> => rcv.got = told)

\* The connection is closed after the peer's CLOSE, and never before the peer
\* has begun a CLOSE or a fragmented message.  Nothing stronger holds once
\* there are fragments: the test of "If client closes, close too" reads buf[0]
\* after the message has been moved over it and removed, so it may find any
\* byte of that message, or of the header, the key or the data of the next one.
WsCloses ==
    proto = "websocket" =>
      /\ rest = <<>> /\ Last(sent).op = WS!CLOSE => rcv.closing
      /\ rcv.closing =>
           \E i \in DOMAIN sent :
             i <= Len(rcv.got) + 1 /\ (sent[i].op = WS!CLOSE \/ Len(sent[i].frags) > 1)

\* The body of a chunked reply is what the chunks held, whatever their bytes
\* look like and wherever the stream is cut: each NS_HTTP_CHUNK shows a prefix
\* of it, or, when the handler deletes what it has seen, the next part of it;
\* the reply is delivered when the last chunk is in, and only once if there is
\* a body and the handler keeps it (ns_handle_chunked(), http_handler()).
ChunkedWhole ==
    proto = "chunked" =>
      LET told == FlattenSeq(sent.chunks)
          seen == IF rcv.delete THEN FlattenSeq(rcv.chunks)
                  ELSE IF rcv.chunks = <<>> THEN <<>> ELSE Last(rcv.chunks)
      IN  /\ IsPrefix(seen, told)
          /\ \A i, j \in DOMAIN rcv.chunks :
               ~rcv.delete /\ i < j => IsPrefix(rcv.chunks[i], rcv.chunks[j])
          /\ rest = <<>> => seen = told /\ rcv.replies # <<>>
          /\ rcv.replies # <<>> => rest = <<>> /\ rcv.replies[1] = IF rcv.delete THEN <<>> ELSE told
          /\ ~rcv.delete /\ told # <<>> => Len(rcv.replies) <= 1

\* MQTT packets are delivered in order and unchanged, one per read, and what has
\* not been delivered is, to the byte, the packets that follow: unless a read
\* ends inside the last three bytes of a packet or inside its length, where
\* parse_mqtt() does not wait for the rest.  (The message id of a PUBLISH is
\* not compared: parse_mqtt() reads it from the place of the topic's length.)
MqttWhole ==
    proto = "mqtt" /\ ~rcv.early =>
      LET shown(e) == IF e.cmd = MQ!SUBSCRIBE
                        THEN [cmd |-> e.cmd, id |-> e.id, topics |-> MQ!subscribe_topics(e.payload)] ELSE e
          told(m) ==
            CASE m.cmd = MQ!PUBLISH -> [cmd |-> m.cmd, topic |-> m.topic, payload |-> m.data]
              [] m.cmd = MQ!SUBSCRIBE -> m
              [] m.cmd = MQ!CONNACK -> [cmd |-> m.cmd, code |-> m.code, payload |-> <<>>]
              [] m.cmd = MQ!PUBACK -> [cmd |-> m.cmd, id |-> m.id, payload |-> <<>>]
              [] OTHER -> [cmd |-> m.cmd, payload |-> <<>>]
          n == Len(rcv.got)
          later == FlattenSeq([i \in 1 .. Len(sent) - n |-> MQ!send_mqtt(sent[n + i])])
      IN  /\ n <= Len(sent) /\ \A i \in 1 .. n : shown(rcv.got[i]) = told(sent[i])
          /\ rcv.io \o rest = later

\* A CoAP packet never needs more room than coap_calculate_packet_size() has
\* reserved for it, and one that takes all of it is parsed as it was composed, its options in the order of their numbers and those with
\* the same number in the order they were added.  (A message whose options are
\* close together is followed by bytes nobody has written.)
CoapWhole ==
    proto = "coap" =>
      LET c == CO!ns_coap_compose(coap_message(sent))
      IN  /\ c.stray >= 0
          /\ rcv # Waiting /\ c.stray = 0 =>
               /\ rcv # CO!Malformed
               /\ [rcv EXCEPT !.options = <<>>] = [sent EXCEPT !.options = <<>>]
               /\ \A i, j \in DOMAIN rcv.options : i < j => rcv.options[i].number <= rcv.options[j].number
               /\ \A o \in ToSet(sent.options) \cup ToSet(rcv.options) :
                    LET same(os) == SelectSeq(os, LAMBDA x : x.number = o.number)
                    IN  same(rcv.options) = same(sent.options)

\* The client of a DNS server made with the library finds in the answer the
\* name it asked for and every record the server added, up to
\* NS_MAX_DNS_ANSWERS, with its name, type, time to live and data; also when
\* another server has compressed the names.
DnsWhole ==
    (proto = "dns" /\ rcv # Waiting) =>
      /\ rcv.tid = sent.tid /\ rcv.name = sent.name
      /\ Len(rcv.answers) = IF Len(sent.answers) < DN!MaxAnswers THEN Len(sent.answers) ELSE DN!MaxAnswers
      /\ \A i \in DOMAIN rcv.answers :
           /\ rcv.answers[i].name = sent.name
           /\ [rcv.answers[i] EXCEPT !.name = <<>>]
                = [name |-> <<>>, rtype |-> sent.answers[i].rtype, ttl |-> sent.answers[i].ttl,
                   rdata |-> sent.answers[i].rdata]

=============================================================================
