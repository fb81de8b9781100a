-------------------------------- MODULE Coap --------------------------------
(***************************************************************************)
(* CoAP messages: ns_coap_add_option() and ns_coap_compose() on one side,  *)
(* ns_coap_parse() on the other.  A message is a record with the fields of *)
(* ns_coap_message; a value, a token or a payload is a sequence of bytes.  *)
(***************************************************************************)
EXTENDS Integers, SequencesExt

-----------------------------------------------------------------------------
(* Composing.                                                              *)

\* ns_coap_add_option(): behind every option with a number not greater.
ns_coap_add_option(options, o) ==
    LET after == {i \in DOMAIN options : options[i].number > o.number}
    IN  InsertAt(options, IF after = {} THEN Len(options) + 1 ELSE Min(after), o)

coap_get_ext_opt_size(value) ==
    IF value >= 13 /\ value <= 255 + 13 THEN 1
    ELSE IF value > 255 + 13 /\ value <= 65535 + 269 THEN 2 ELSE 0

\* Mutant: two bytes count from 256.
coap_split_opt_wrong_base(value) ==
    IF value < 13 THEN [base |-> value, ext |-> <<>>]
    ELSE IF value <= 255 + 13 THEN [base |-> 13, ext |-> <<value - 13>>]
    ELSE [base |-> 14, ext |-> <<(value - 256) \div 256, (value - 256) % 256>>]

\* coap_split_opt() and coap_add_opt_info(): the four bits and the bytes that follow.
coap_split_opt(value) ==
    IF value < 13 THEN [base |-> value, ext |-> <<>>]
    ELSE IF value <= 255 + 13 THEN [base |-> 13, ext |-> <<value - 13>>]
    ELSE [base |-> 14, ext |-> <<(value - 269) \div 256, (value - 269) % 256>>]

\* The packet size that coap_calculate_packet_size() reserves: it looks at an
\* option's number, where the packet holds its distance from the one before.
coap_calculate_packet_size(m) ==
    4 + Len(m.token) + (IF m.payload = <<>> THEN 0 ELSE Len(m.payload) + 1)
      + FoldLeft(LAMBDA n, o : n + 1 + coap_get_ext_opt_size(o.number)
                                 + coap_get_ext_opt_size(Len(o.value)) + Len(o.value), 0, m.options)

compose_option(m, i) ==
    LET o == m.options[i]
        delta == coap_split_opt(o.number - (IF i = 1 THEN 0 ELSE m.options[i - 1].number))
        length == coap_split_opt(Len(o.value))
    IN  <<16 * delta.base + length.base>> \o delta.ext \o length.ext \o o.value

\* ns_coap_compose(): the bytes it writes, and how many of the bytes it has
\* reserved behind them it leaves as they are.
ns_coap_compose(m) ==
    LET bytes == <<64 + 16 * m.msg_type + Len(m.token), 32 * m.code_class + m.code_detail,
                   m.msg_id \div 256, m.msg_id % 256>>
                 \o m.token
                 \o FlattenSeq([i \in DOMAIN m.options |-> compose_option(m, i)])
                 \o (IF m.payload = <<>> THEN <<>> ELSE <<255>> \o m.payload)
    IN  [bytes |-> bytes, stray |-> coap_calculate_packet_size(m) - Len(bytes)]

-----------------------------------------------------------------------------
(* Parsing.  A position is the number of bytes before it.                  *)

\* coap_get_ext_opt(): the value and the bytes it takes, -1 if they are not there.
coap_get_ext_opt(io, at, base) ==
    CASE base = 13 -> IF at < Len(io) THEN [value |-> io[at + 1] + 13, size |-> 1] ELSE [value |-> 0, size |-> -1]
      [] base = 14 -> IF at + 1 < Len(io)
                        THEN [value |-> (256 * io[at + 1] + io[at + 2] + 269) % 2^16, size |-> 2]
                        ELSE [value |-> 0, size |-> -1]
      [] OTHER -> [value |-> base, size |-> 0]

\* coap_get_options() from position at: the options, where they end, and whether
\* something was wrong.
RECURSIVE coap_get_options(_, _, _, _)
coap_get_options(io, at, prev, options) ==
    IF at >= Len(io) \/ io[at + 1] = 255 THEN [options |-> options, at |-> at, error |-> FALSE]
    ELSE LET delta == coap_get_ext_opt(io, at + 1, io[at + 1] \div 16)
             length == coap_get_ext_opt(io, at + 1 + delta.size, io[at + 1] % 16)
             from == at + 1 + delta.size + length.size
             number == (delta.value + prev) % 2^16
             o == [number |-> number, value |-> SubSeq(io, from + 1, from + length.value)]
         IN  IF \/ io[at + 1] \div 16 = 15 \/ io[at + 1] % 16 = 15
                \/ delta.size = -1 \/ length.size = -1 \/ from + length.value > Len(io)
               THEN [options |-> <<>>, at |-> at, error |-> TRUE]
               ELSE coap_get_options(io, from + length.value, number, ns_coap_add_option(options, o))

Malformed == [error |-> TRUE]

\* coap_parse_header(): the fields of the first four bytes.
coap_parse_header(io) ==
    IF Len(io) < 4 \/ io[1] \div 64 # 1 \/ io[1] % 16 > 8 THEN Malformed
    ELSE [msg_type |-> (io[1] \div 16) % 4, token_len |-> io[1] % 16, code_class |-> io[2] \div 32,
          code_detail |-> io[2] % 32, msg_id |-> 256 * io[3] + io[4]]

\* coap_get_token(): whether the token is there.
coap_get_token(io, token_len) == 4 + token_len <= Len(io)

ns_coap_parse(io) ==
    LET h == coap_parse_header(io)
        opts == coap_get_options(io, 4 + h.token_len, 0, <<>>)
    IN  IF h = Malformed \/ ~coap_get_token(io, h.token_len) \/ opts.error THEN Malformed
        ELSE [msg_type |-> h.msg_type, code_class |-> h.code_class, code_detail |-> h.code_detail,
              msg_id |-> h.msg_id, token |-> SubSeq(io, 5, 4 + h.token_len),
              options |-> opts.options, payload |-> SubSeq(io, opts.at + 2, Len(io))]

=============================================================================
