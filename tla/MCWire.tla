------------------------------- MODULE MCWire -------------------------------
EXTENDS Wire

Run(b, n) == [i \in 1 .. n |-> b]

\* Payloads with a byte that looks like a CLOSE (24 % 16 = 8), empty ones, and
\* one that needs the two-byte length; whole messages from either side,
\* messages of two and three fragments from a client, a ping, a CLOSE.
Key == <<17, 2, 200, 4>>
Payloads == {<<>>, <<1>>, <<24, 1>>}
WholeMsgs == [op : {1}, key : {Key, <<>>}, frags : {<<p>> : p \in Payloads \cup {Run(7, 126)}}]
Control == {[op |-> 9, key |-> Key, frags |-> <<<<5>>>>], [op |-> 8, key |-> Key, frags |-> <<<<>>>>]}
Fragmented == [op : {1}, key : {Key}, frags : (Payloads \X Payloads) \cup {<<<<1>>, <<>>, <<2, 3>>>>, <<<<1, 2>>, <<3>>, <<4>>>>}]
Short == {m \in WholeMsgs : Len(m.frags[1]) < 126} \cup Control \cup Fragmented

\* Any two short messages, nothing after a CLOSE; the long ones alone, before
\* a control frame, and behind a fragmented message of one byte; the longest
\* ones with a one-byte length alone.
Long == WholeMsgs \ Short
Split == [op |-> 1, key |-> Key, frags |-> <<<<1>>, <<>>>>]
Edge == {[m EXCEPT !.frags = <<Run(7, 125)>>] : m \in Long}
MCWsMessages ==
    {<<m>> : m \in Short \cup Long \cup Edge} \cup {<<m, n>> : m \in {x \in Short : x.op # 8}, n \in Short}
      \cup {<<m, n>> : m \in Long, n \in Control} \cup {<<Split, m>> : m \in Long}

\* Chunks whose bytes look like chunk framing, and one with a two-digit length.
Bits == {<<1>>, <<100, 101>>, <<0, 100, 101>>, Run(10, 17)}
MCChunkMessages == [delete : BOOLEAN,
                    chunks : {<<>>} \cup {<<c>> : c \in Bits} \cup {<<c, d>> : c, d \in Bits}
                               \cup {<<c, d, e>> : c, d, e \in {x \in Bits : Len(x) < 17}}]

\* Numbers and lengths on both sides of 13 and of 269, steps of 0.
Numbers == {3, 12, 13, 16, 268, 269, 281, 600}
Options == {[number |-> n, value |-> Run(9, l)] : n \in Numbers, l \in {0, 12, 13, 268, 269}}
Near == {[number |-> n, value |-> Run(n % 256, l)] : n \in Numbers, l \in {0, 1}}
MCCoapMessages ==
    [msg_type : {0, 3}, code_class : {7}, code_detail : {31}, msg_id : {513}, token : {<<>>, Run(2, 8)},
     options : {<<>>} \cup {<<o>> : o \in Options} \cup {<<o, p>> : o, p \in Near}
                 \cup {<<o, p, o>> : o, p \in Near}, payload : {<<>>, <<255, 1>>}]

\* Lengths on both sides of 128, a packet without contents, several topics.
Commands ==
    [cmd : {3}, flags : {0, 2}, topic : {<<7>>}, id : {1}, data : {<<>>, <<1, 2>>, Run(3, 124), Run(3, 125)}]
      \cup {[cmd |-> 2, code |-> 5], [cmd |-> 4, id |-> 258], [cmd |-> 12],
            [cmd |-> 8, id |-> 3, topics |-> <<[topic |-> <<7, 8>>, qos |-> 1], [topic |-> <<>>, qos |-> 0]>>]}
MCMqttMessages == {<<c>> : c \in Commands} \cup {<<c, d>> : c, d \in {x \in Commands : x.cmd # 3 \/ Len(x.data) < 5}}
                    \cup {<<c, c, c>> : c \in {x \in Commands : x.cmd \in {2, 4}}}

Names == {<<97>>, <<97, 98, 46, 99>>, <<97, 46, 98, 46, 99>>}
Answers == {[rtype |-> 1, ttl |-> 65537, rdata |-> <<127, 0, 0, 1>>]}
             \cup {[rtype |-> 5, ttl |-> 3, rdata |-> n] : n \in Names}
MCDnsMessages ==
    [tid : {161, 65535}, name : Names, rtype : {1, 5}, compressed : BOOLEAN,
     answers : {<<>>} \cup {<<a>> : a \in Answers} \cup {<<a, b>> : a, b \in Answers}
                 \cup {[i \in 1 .. n |-> CHOOSE a \in Answers : a.rtype = 1] : n \in {32, 33}}]

=============================================================================
