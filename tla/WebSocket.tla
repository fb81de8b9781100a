------------------------------ MODULE WebSocket ------------------------------
(***************************************************************************)
(* WebSocket frames: ns_send_ws_header() and ws_mask_frame() on one side,  *)
(* deliver_websocket_data() on the other, which puts the fragments of a    *)
(* message together inside recv_mbuf.  The receiver is [mem, len, closing, *)
(* got]: mem is the memory of recv_mbuf, of which the first len bytes are  *)
(* in use and the rest is what earlier bytes have left behind.             *)
(***************************************************************************)
EXTENDS Integers, Sequences, Bitwise

CLOSE == 8      \* WEBSOCKET_OP_CLOSE
SizeOf == 4     \* sizeof(*sizep)

-----------------------------------------------------------------------------
(* The sender.  The library always sets the FIN bit; a peer that sends     *)
(* fragments does not.  A client masks with a key of four bytes.           *)

ns_send_ws_header(fin, op, len, key) ==
    LET m == IF key = <<>> THEN 0 ELSE 128
    IN  <<(IF fin THEN 128 ELSE 0) + (op % 16)>>
        \o (IF len < 126 THEN <<m + len>>
            ELSE IF len < 65535 THEN <<m + 126, len \div 256, len % 256>>
            ELSE <<m + 127, 0, 0, 0, 0, len \div 2^24, (len \div 2^16) % 256, (len \div 2^8) % 256, len % 256>>)
        \o key

ws_mask_frame(data, key) ==
    IF key = <<>> THEN data
    ELSE [i \in DOMAIN data |-> data[i] ^^ key[((i - 1) % 4) + 1]]

ns_send_websocket_frame(fin, op, data, key) ==
    ns_send_ws_header(fin, op, Len(data), key) \o ws_mask_frame(data, key)

-----------------------------------------------------------------------------
(* The receiver.                                                           *)

is_ws_fragment(flags) == flags < 128 \/ flags % 16 = 0
is_ws_first_fragment(flags) == flags < 128 /\ flags % 16 # 0

\* memmove() or memcpy() of the bytes s to position at (from 1).
Put(mem, at, s) ==
    LET end == at + Len(s) - 1
    IN  [i \in 1 .. (IF Len(mem) > end THEN Len(mem) ELSE end) |->
           IF i \in at .. end THEN s[i - at + 1] ELSE mem[i]]

mbuf_remove(b, n) ==
    [b EXCEPT !.mem = Put(@, 1, SubSeq(@, n + 1, b.len)), !.len = @ - n]

\* *sizep, little-endian.
sizep(mem) == mem[2] + 256 * mem[3]
set_sizep(mem, n) == Put(mem, 2, <<n % 256, n \div 256, 0, 0>>)

\* Lengths of the header and the data of the frame at offset off, n bytes
\* being there; both 0 when the header is not complete.
ws_lengths(mem, off, n) ==
    LET len == mem[off + 2] % 128
        mask_len == IF mem[off + 2] >= 128 THEN 4 ELSE 0
    IN  IF n < 2 THEN <<0, 0>>
        ELSE IF len < 126 /\ n >= mask_len THEN <<2 + mask_len, len>>
        ELSE IF len = 126 /\ n >= 4 + mask_len
          THEN <<4 + mask_len, 256 * mem[off + 3] + mem[off + 4]>>
        ELSE IF n >= 10 + mask_len
          THEN <<10 + mask_len, 2^24 * mem[off + 7] + 2^16 * mem[off + 8]
                                  + 2^8 * mem[off + 9] + mem[off + 10]>>
        ELSE <<0, 0>>

handle_incoming_websocket_frame(b, flags, data) ==
    [b EXCEPT !.got = Append(@, [control |-> (flags \div 8) % 2 = 1, data |-> data])]

\* Mutant: the opcode is not looked at.
close_too_never(b, buf) == b

\* "If client closes, close too": buf[0] is read after the buffer has moved.
close_too(b, buf) ==
    [b EXCEPT !.closing = @ \/ (buf < Len(b.mem) /\ b.mem[buf + 1] % 16 = CLOSE)]

\* Mutant: the size is that of the last fragment.
reassemble_forgets(b, off, head, data) ==
    LET flags == b.mem[off + 1]
        first == is_ws_first_fragment(flags)
        buf == IF first THEN 1 + SizeOf ELSE off
        m1 == IF first THEN Put(b.mem, 1, <<flags - (flags % 16)>>) ELSE b.mem
        m2 == set_sizep(Put(m1, buf + 1, SubSeq(m1, off + head + 1, b.len)), data)
        b1 == [b EXCEPT !.mem = m2, !.len = @ - (off + head - buf)]
    IN  close_too(IF flags < 128 THEN b1
                  ELSE mbuf_remove(
                         handle_incoming_websocket_frame(b1, flags, SubSeq(m2, 2 + SizeOf, 1 + SizeOf + data)),
                         1 + SizeOf + data), buf)

\* A fragment, the first one or a later one, found at offset off: it is moved
\* behind the ones before it, and the last one completes the message.
reassemble(b, off, head, data) ==
    LET flags == b.mem[off + 1]
        first == is_ws_first_fragment(flags)
        buf == IF first THEN 1 + SizeOf ELSE off
        m1 == IF first THEN set_sizep(Put(b.mem, 1, <<flags - (flags % 16)>>), 0) ELSE b.mem
        size == sizep(m1) + data
        m2 == set_sizep(Put(m1, buf + 1, SubSeq(m1, off + head + 1, b.len)), size)
        b1 == [b EXCEPT !.mem = m2, !.len = @ - (off + head - buf)]
    IN  close_too(IF flags < 128 THEN b1
                  ELSE mbuf_remove(
                         handle_incoming_websocket_frame(b1, flags, SubSeq(m2, 2 + SizeOf, 1 + SizeOf + size)),
                         1 + SizeOf + size), buf)

whole_frame(b, head, data) ==
    close_too(mbuf_remove(
      handle_incoming_websocket_frame(b, b.mem[1], SubSeq(b.mem, head + 1, head + data)), head + data), 0)

\* The bytes of the frame at off after the mask has been applied.
unmasked(mem, off, head, data) ==
    IF mem[off + 2] < 128 THEN mem
    ELSE Put(mem, off + head + 1, [i \in 1 .. data |->
           mem[off + head + i] ^^ mem[off + head - 3 + ((i - 1) % 4)]])

\* deliver_websocket_data(): the receiver after one frame, or unchanged when
\* there is no complete one.
deliver_websocket_data(b) ==
    LET reass == b.len > 0 /\ is_ws_fragment(b.mem[1])
        off == IF reass /\ ~is_ws_first_fragment(b.mem[1]) /\ b.len >= 1 + SizeOf
                  /\ b.len >= 1 + SizeOf + sizep(b.mem) THEN 1 + SizeOf + sizep(b.mem) ELSE 0
        len == ws_lengths(b.mem, off, b.len - off)
        ok == len[1] > 0 /\ len[1] + len[2] <= b.len - off
        b0 == [b EXCEPT !.mem = unmasked(@, off, len[1], len[2])]
    IN  IF ~ok THEN b
        ELSE IF reass THEN reassemble(b0, off, len[1], len[2])
        ELSE whole_frame(b0, len[1], len[2])

\* NS_RECV of websocket_handler(): frames are delivered while there are any.
RECURSIVE deliver_all(_)
deliver_all(b) ==
    LET c == deliver_websocket_data(b) IN IF c = b THEN b ELSE deliver_all(c)

websocket_handler(b, bytes) ==
    deliver_all([b EXCEPT !.mem = Put(@, b.len + 1, bytes), !.len = @ + Len(bytes)])

=============================================================================
