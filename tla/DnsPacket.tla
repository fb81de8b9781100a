------------------------------ MODULE DnsPacket ------------------------------
(***************************************************************************)
(* DNS packets over UDP: ns_send_dns_query(), the server that parses the   *)
(* query and answers it with ns_dns_create_reply(), ns_dns_reply_record()  *)
(* and ns_dns_send_reply(), and ns_parse_dns() with                        *)
(* ns_dns_uncompress_name() on the answer.  A name is a sequence of bytes, *)
(* 46 the dot.  A position in a packet is the number of bytes before it.   *)
(***************************************************************************)
EXTENDS Integers, SequencesExt

DOT == 46
A == 1              \* NS_DNS_A_RECORD
CNAME == 5          \* NS_DNS_CNAME_RECORD
MaxAnswers == 32    \* NS_MAX_DNS_ANSWERS
HeaderSize == 12

u16(n) == <<n \div 256, n % 256>>
u32(n) == u16(n \div 2^16) \o u16(n % 2^16)
get16(pkt, at) == 256 * pkt[at + 1] + pkt[at + 2]

-----------------------------------------------------------------------------
(* Writing.                                                                *)

RECURSIVE ns_dns_encode_name(_)
ns_dns_encode_name(name) ==
    LET dots == {i \in DOMAIN name : name[i] = DOT}
        k == Min(dots)
    IN  IF dots = {} THEN <<Len(name)>> \o name \o <<0>>
        ELSE <<k - 1>> \o SubSeq(name, 1, k - 1) \o ns_dns_encode_name(SubSeq(name, k + 1, Len(name)))

\* transaction_id is copied as it lies in memory.
ns_dns_insert_header(tid, flags, questions, answers) ==
    <<tid % 256, tid \div 256>> \o u16(flags) \o u16(questions) \o u16(answers) \o <<0, 0, 0, 0>>

ns_dns_encode_question(name, rtype) == ns_dns_encode_name(name) \o u16(rtype) \o u16(1)

\* Mutant: the length of a CNAME does not count its last byte.
ns_dns_encode_answer_short(name, a) ==
    LET rdata == IF a.rtype = CNAME THEN ns_dns_encode_name(a.rdata) ELSE a.rdata
        rlen == IF a.rtype = CNAME THEN Len(rdata) - 1 ELSE Len(rdata)
    IN  name \o u16(a.rtype) \o u16(1) \o u32(a.ttl) \o u16(rlen) \o rdata

\* An answer; its name comes encoded.
ns_dns_encode_answer(name, a) ==
    LET rdata == IF a.rtype = CNAME THEN ns_dns_encode_name(a.rdata) ELSE a.rdata
    IN  name \o u16(a.rtype) \o u16(1) \o u32(a.ttl) \o u16(Len(rdata)) \o rdata

ns_send_dns_query(tid, name, rtype) ==
    ns_dns_insert_header(tid, 256, 1, 0) \o ns_dns_encode_question(name, rtype)

-----------------------------------------------------------------------------
(* Reading.                                                                *)

\* Where the walk over a name at position at stops: on its last byte.
RECURSIVE name_end(_, _)
name_end(pkt, at) ==
    IF at >= Len(pkt) \/ pkt[at + 1] = 0 THEN at
    ELSE IF pkt[at + 1] >= 64 THEN at + 1
    ELSE name_end(pkt, at + pkt[at + 1] + 1)

\* ns_parse_dns_resource_record() at position at.
ns_parse_dns_resource_record(pkt, at, reply) ==
    LET d == name_end(pkt, at) + 1
        rr == [name |-> at, rtype |-> get16(pkt, d), ttl |-> 0, rdata |-> 0, rlen |-> 0, next |-> d + 4]
    IN  IF d > Len(pkt) - 4 THEN [name |-> at, rtype |-> 0, ttl |-> 0, rdata |-> 0, rlen |-> 0, next |-> d]
        ELSE IF ~reply \/ d + 4 >= Len(pkt) - 6 THEN rr
        ELSE [rr EXCEPT !.ttl = 2^16 * get16(pkt, d + 4) + get16(pkt, d + 6), !.rlen = get16(pkt, d + 8),
                        !.rdata = d + 10, !.next = d + 10 + get16(pkt, d + 8)]

RECURSIVE records(_, _, _, _)
records(pkt, at, n, reply) ==
    IF n = 0 THEN <<>>
    ELSE LET rr == ns_parse_dns_resource_record(pkt, at, reply)
         IN  <<rr>> \o records(pkt, rr.next, n - 1, reply)

\* ns_parse_dns() on a packet with one question.
ns_parse_dns(pkt) ==
    LET q == records(pkt, HeaderSize, get16(pkt, 4), FALSE)
        n == get16(pkt, 6)
    IN  [tid |-> pkt[1] + 256 * pkt[2], flags |-> get16(pkt, 2), questions |-> q,
         answers |-> records(pkt, Last(q).next, IF n < MaxAnswers THEN n ELSE MaxAnswers, TRUE)]

\* ns_dns_uncompress_name() from position at, with dst written so far and
\* room for dst_len bytes.
RECURSIVE uncompress(_, _, _, _)
uncompress(pkt, at, dst, dst_len) ==
    LET n == pkt[at + 1]
        leeway == dst_len - Len(dst)
        m == IF n > leeway THEN leeway ELSE n
        to == dst \o SubSeq(pkt, at + 2, at + 1 + m)
    IN  IF n = 0 THEN (IF dst = <<>> THEN dst ELSE Front(dst))
        ELSE IF at + 1 >= Len(pkt) THEN <<>>
        ELSE IF n >= 64
          THEN LET off == 256 * (n % 64) + pkt[at + 2]
               IN  IF off >= Len(pkt) THEN <<>> ELSE uncompress(pkt, off, dst, dst_len)
        ELSE IF at + 1 + m >= Len(pkt) THEN <<>>
        ELSE IF m = leeway THEN to
        ELSE uncompress(pkt, at + 1 + m, to \o <<DOT>>, dst_len)

ns_dns_uncompress_name(pkt, at, dst_len) ==
    IF at >= Len(pkt) THEN <<>> ELSE uncompress(pkt, at, <<>>, dst_len)

-----------------------------------------------------------------------------
(* A server made with the library, and the client that gets its packet.    *)

\* ns_dns_create_reply(), ns_dns_reply_record() for each answer, and
\* ns_dns_send_reply().  The name of an answer is that of the question; another
\* server writes it as a pointer to the question.
reply(query, answers, compressed) ==
    LET msg == ns_parse_dns(query)
        rname == ns_dns_uncompress_name(query, msg.questions[1].name, 511)
        name == IF compressed THEN <<192, HeaderSize>> ELSE ns_dns_encode_name(rname)
        taken == SubSeq(answers, 1, IF Len(answers) < MaxAnswers THEN Len(answers) ELSE MaxAnswers)
    IN  ns_dns_insert_header(msg.tid, msg.flags + 32768 + 128, 1, Len(taken))
        \o SubSeq(query, HeaderSize + 1, Len(query))
        \o FlattenSeq([i \in DOMAIN taken |-> ns_dns_encode_answer(name, taken[i])])

\* What the client's handler finds in the message: names through
\* ns_dns_uncompress_name(), data through ns_dns_parse_record_data().
ns_dns_parse_record_data(pkt, rr, dst_len) ==
    IF rr.rtype = CNAME THEN ns_dns_uncompress_name(pkt, rr.rdata, dst_len)
    ELSE SubSeq(pkt, rr.rdata + 1, rr.rdata + 4)

dns_handler(pkt, dst_len) ==
    LET msg == ns_parse_dns(pkt)
    IN  [tid |-> msg.tid, name |-> ns_dns_uncompress_name(pkt, msg.questions[1].name, dst_len),
         answers |-> [i \in DOMAIN msg.answers |->
           [name |-> ns_dns_uncompress_name(pkt, msg.answers[i].name, dst_len),
            rtype |-> msg.answers[i].rtype, ttl |-> msg.answers[i].ttl,
            rdata |-> ns_dns_parse_record_data(pkt, msg.answers[i], dst_len)]]]

=============================================================================
