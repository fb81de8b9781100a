------------------------------ MODULE HttpChunk ------------------------------
(***************************************************************************)
(* A reply with Transfer-Encoding: chunked, from ns_send_http_chunk() to   *)
(* http_handler() and ns_handle_chunked(), which takes the chunk framing   *)
(* out of the body inside recv_mbuf as the chunks arrive.  A byte 0 .. 15  *)
(* is that hexadecimal digit; the head of the reply is two bytes.  The     *)
(* receiver is [io, body_len, delete, chunks, replies]: recv_mbuf,          *)
(* dp->body_len, whether the handler sets NSF_DELETE_CHUNK, and the bodies *)
(* of the NS_HTTP_CHUNK and NS_HTTP_REPLY events.                          *)
(***************************************************************************)
EXTENDS Integers, SequencesExt

CR == 100
LF == 101
ReplyHead == <<200, 201>>
CRLF == <<CR, LF>>

hex(n) == IF n < 16 THEN <<n>> ELSE <<n \div 16, n % 16>>

ns_send_http_chunk(data) == hex(Len(data)) \o CRLF \o data \o CRLF

send_chunked(chunks) ==
    ReplyHead \o FlattenSeq([i \in DOMAIN chunks |-> ns_send_http_chunk(chunks[i])])
         \o ns_send_http_chunk(<<>>)

-----------------------------------------------------------------------------
isxdigit(c) == c < 16

\* How many hexadecimal digits s begins with.
digits(s) == LET other == {i \in DOMAIN s : ~isxdigit(s[i])}
             IN  IF other = {} THEN Len(s) ELSE Min(other) - 1

number(s) == FoldLeft(LAMBDA n, d : 16 * n + d, 0, s)

\* Mutant: the new line after the data is not waited for.
parse_chunk_early(s) ==
    LET i == digits(s)
        n == number(SubSeq(s, 1, i))
    IN  IF i = 0 \/ i + 2 > Len(s) \/ SubSeq(s, i + 1, i + 2) # CRLF \/ i + 2 + n > Len(s)
          THEN [n |-> 0, data |-> <<>>]
          ELSE [n |-> i + 2 + n, data |-> SubSeq(s, i + 3, i + 2 + n)]

\* parse_chunk(): the length of the whole chunk at the start of s, 0 when it is
\* not complete, and where its data is.
parse_chunk(s) ==
    LET i == digits(s)
        n == number(SubSeq(s, 1, i))
        j == i + 2 + n
    IN  IF i = 0 \/ i + 2 > Len(s) \/ SubSeq(s, i + 1, i + 2) # CRLF THEN [n |-> 0, data |-> <<>>]
        ELSE IF j + 2 > Len(s) \/ SubSeq(s, j + 1, j + 2) # CRLF THEN [n |-> 0, data |-> <<>>]
        ELSE [n |-> j + 2, data |-> SubSeq(s, i + 3, j)]

\* All the complete chunks at the start of raw: their data, how much they take,
\* and whether the last one is the empty one.
RECURSIVE collapse(_, _, _)
collapse(body, used, raw) ==
    LET c == parse_chunk(SubSeq(raw, used + 1, Len(raw)))
    IN  IF c.n = 0 THEN [body |-> body, used |-> used, zero |-> FALSE]
        ELSE IF c.data = <<>> THEN [body |-> body, used |-> used + c.n, zero |-> TRUE]
        ELSE collapse(body \o c.data, used + c.n, raw)

\* ns_handle_chunked() on the bytes after the head: r with the new recv_mbuf
\* and dp->body_len, hm->body.len, and hm->message.len (-1 for ~0).
ns_handle_chunked(r) ==
    LET buf == SubSeq(r.io, Len(ReplyHead) + 1, Len(r.io))
        old == SubSeq(buf, 1, r.body_len)
        c == collapse(old, 0, SubSeq(buf, r.body_len + 1, Len(buf)))
        rest == SubSeq(buf, r.body_len + c.used + 1, Len(buf))
        keep == IF r.delete THEN <<>> ELSE c.body
    IN  IF c.used = 0 THEN [r |-> r, body |-> <<>>, message_len |-> -1]
        ELSE [r |-> [r EXCEPT !.io = ReplyHead \o keep \o rest, !.body_len = Len(keep),
                              !.chunks = Append(@, c.body)],
              body |-> keep,
              message_len |-> IF c.zero THEN Len(keep) + Len(rest) ELSE -1]

\* NS_RECV of http_handler() on a client.
http_handler(r0, bytes) ==
    LET r == [r0 EXCEPT !.io = @ \o bytes]
        t == ns_handle_chunked(r)
    IN  IF ~IsPrefix(ReplyHead, r.io) THEN r
        ELSE IF t.message_len < 0 THEN t.r
        ELSE [t.r EXCEPT !.replies = Append(@, t.body),
                         !.io = SubSeq(@, t.message_len + 1, Len(@))]

\* NS_CLOSE of http_handler(): what is left is a message, if it has a head.
http_handler_close(r) ==
    IF IsPrefix(ReplyHead, r.io)
      THEN [r EXCEPT !.replies = Append(@, SubSeq(r.io, Len(ReplyHead) + 1, Len(r.io)))]
      ELSE r

=============================================================================
