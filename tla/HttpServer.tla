----------------------------- MODULE HttpServer -----------------------------
(***************************************************************************)
(* One connection of a server whose handler passes every NS_HTTP_REQUEST   *)
(* to ns_serve_http(): files (whole or a range of them) sent at the pace   *)
(* of the socket, PUT, answers sent at once, and CGI programs whose output *)
(* is relayed.  The client sends a request when the answer to the one      *)
(* before is complete, and may close at any time.                          *)
(*                                                                         *)
(* A response is a sequence of tokens: a head (status line and headers)    *)
(* and body units.  A body unit of a file is known by its offset, one of   *)
(* a CGI program by its place in the program's output.                     *)
(***************************************************************************)
EXTENDS IpAcl, FiniteSets

CONSTANTS
    Buf,        \* NS_MAX_HTTP_SEND_IOBUF, in tokens
    MaxSize,    \* bound: the largest file
    MaxOut,     \* bound: the longest output of a CGI program
    MaxReq,     \* bound: requests of the client
    Ranges,     \* the Range headers to try: <<>> for none, <<a>> for "a-", <<a, b>>
    Acls        \* the access lists to try

ASSUME HttpAssumption ==
    /\ Buf \in Nat \ {0} /\ MaxSize \in Nat /\ MaxOut \in Nat /\ MaxReq \in Nat
    /\ \A r \in Ranges : r \in Seq(Nat) /\ Len(r) <= 2
    /\ Width \in Nat /\ \A acl \in Acls : acl \in Seq([sign : STRING, net : Address \cup {NoNet}, slash : Int])

VARIABLES
    nc,         \* the client's connection: st, flags, recv (a request or NoReq), send
    pd,         \* nc->proto_data: NoData, or a file being sent
    cgi,        \* the connection to the CGI program: st, flags, got, fwd
    proc,       \* the CGI program: st, wrote, hdr, bad
    out,        \* the tokens that have left on the socket since the last request
    asked,      \* the last request, its number, and the file's size when it was served
    gone,       \* the client has closed its end
    size,       \* the file's size
    changed,    \* whether somebody has written the file behind the server's back
    admit,      \* what ns_check_ip_acl() says of this peer, and what it should
    crashed     \* freed memory has been used

vars == <<nc, pd, cgi, proc, out, asked, gone, size, changed, admit, crashed>>

NoReq == [kind |-> "none"]
NoData == [type |-> "DATA_NONE"]
NoRange == <<>>

\* What a request asks for.  "now" stands for the answers made of one piece:
\* errors, redirects, MKCOL, DELETE; "last" for those that also end the
\* connection: directory listings, PROPFIND, SSI.
Requests ==
    [kind : {"file"}, range : Ranges] \cup [kind : {"put"}, len : 0 .. MaxSize]
      \cup [kind : {"now", "last", "cgi"}]

head(req, status, cl) == <<req, "head", status, cl>>
body(req, from, to) == [k \in 1 .. to - from + 1 |-> <<req, "body", from + k - 1, 0>>]

Verdicts == {[granted |-> ns_check_ip_acl(acl, ip) = "+", entitled |-> Entitled(acl, ip)] :
                acl \in Acls, ip \in Address}

-----------------------------------------------------------------------------
(* Sending a file.                                                         *)

\* free_http_proto_data(): proto_data of a CGI request is never set, so there
\* is at most a file to close.
free_http_proto_data == NoData

\* How much transfer_file_data() reads at once for data d on connection c.
\* Mutant: what is already in send_mbuf is not counted.
to_read_full_buffer(c, d) ==
    LET left == d.cl - d.sent IN IF left > 0 /\ Buf > left THEN left ELSE Buf

to_read(c, d) ==
    LET left == d.cl - d.sent
        room == IF Len(c.send) < Buf THEN Buf - Len(c.send) ELSE 0
    IN  IF left > 0 /\ room > left THEN left ELSE room

\* What fread() finds at the file's position.
fread(d, n) == IF d.pos + n <= size THEN n ELSE IF d.pos < size THEN size - d.pos ELSE 0

\* Mutant: a full send_mbuf is taken for the end of the file.
transfer_file_data_gives_up(c, d) ==
    LET n == fread(d, to_read(c, d)) IN
    IF d.sent < d.cl /\ n > 0
      THEN [nc |-> [c EXCEPT !.send = @ \o body(d.req, d.pos, d.pos + n - 1)],
            pd |-> [d EXCEPT !.sent = @ + n, !.pos = @ + n]]
      ELSE [nc |-> c, pd |-> free_http_proto_data]

\* transfer_file_data(): the connection and its data after it.
transfer_file_data(c, d) ==
    LET n == fread(d, to_read(c, d)) IN
    IF to_read(c, d) = 0 THEN [nc |-> c, pd |-> d]
    ELSE IF d.sent < d.cl /\ n > 0
      THEN [nc |-> [c EXCEPT !.send = @ \o body(d.req, d.pos, d.pos + n - 1)],
            pd |-> [d EXCEPT !.sent = @ + n, !.pos = @ + n]]
      ELSE [nc |-> c, pd |-> free_http_proto_data]

\* The part of http_handler() every event goes through.
http_handler_data(c) ==
    IF pd # NoData THEN transfer_file_data(c, pd) ELSE [nc |-> c, pd |-> pd]

\* ns_send_http_file2(), answering request i on connection c.
\* Mutant: the file is read from its start whatever the range.
ns_send_http_file2_no_seek(c, i, range) ==
    LET r1 == IF range = NoRange THEN 0 ELSE range[1]
        r2 == IF Len(range) = 2 THEN range[2] ELSE size - 1
        bad == range # NoRange /\ (r1 > r2 \/ r2 >= size)
        cl == IF bad THEN 0 ELSE IF range = NoRange THEN size ELSE r2 - r1 + 1
        status == IF bad THEN 416 ELSE IF range = NoRange THEN 200 ELSE 206
    IN  transfer_file_data(
          [c EXCEPT !.send = Append(@, head(i, status, cl))],
          [type |-> "DATA_FILE", req |-> i, cl |-> cl, sent |-> 0, pos |-> 0])

ns_send_http_file2(c, i, range) ==
    LET r1 == IF range = NoRange THEN 0 ELSE range[1]
        r2 == IF Len(range) = 2 THEN range[2] ELSE size - 1
        bad == range # NoRange /\ (r1 > r2 \/ r2 >= size)
        cl == IF bad THEN 0 ELSE IF range = NoRange THEN size ELSE r2 - r1 + 1
        status == IF bad THEN 416 ELSE IF range = NoRange THEN 200 ELSE 206
    IN  transfer_file_data(
          [c EXCEPT !.send = Append(@, head(i, status, cl))],
          [type |-> "DATA_FILE", req |-> i, cl |-> cl, sent |-> 0,
           pos |-> IF bad THEN 0 ELSE r1])

-----------------------------------------------------------------------------
(* Events of the client's connection.                                      *)

Open(c) == c.st = "open" /\ "CLOSE_IMMEDIATELY" \notin c.flags

\* An answer of one piece to request i: an error, a redirect, MKCOL, DELETE.
\* Authorisation, fopen() and the like may turn any request into one.
reply(i, c, d) ==
    /\ nc' = [c EXCEPT !.send = Append(@, head(i, 400, 0))]
    /\ pd' \in {d, free_http_proto_data}
    /\ UNCHANGED <<cgi, proc, size>>

\* Listings, PROPFIND and SSI: an answer without a length.
reply_and_close(i, c, d) ==
    /\ nc' = [c EXCEPT !.send = Append(@, head(i, 200, 0)), !.flags = @ \cup {"SEND_AND_CLOSE"}]
    /\ pd' = d
    /\ UNCHANGED <<cgi, proc, size>>

\* handle_put(): the answer, then the body, all of which is in recv_mbuf.
handle_put(i, c, len) ==
    /\ nc' = [c EXCEPT !.send = Append(@, head(i, 200, 0))]
    /\ pd' = free_http_proto_data
    /\ size' = len
    /\ UNCHANGED <<cgi, proc>>

\* handle_cgi(): its dp is not stored in nc->proto_data.  The program's output
\* is complete in its headers after h units, or has broken ones.
handle_cgi(c) ==
    /\ nc' = [c EXCEPT !.flags = @ \cup {"USER_1"}]
    /\ pd' = free_http_proto_data
    /\ cgi' = [st |-> "open", flags |-> {}, got |-> 0, fwd |-> 0]
    /\ \E h \in 1 .. MaxOut, b \in BOOLEAN :
         proc' = [st |-> "runs", wrote |-> 0, hdr |-> h, bad |-> b]
    /\ UNCHANGED size

send_file(i, c, range) ==
    /\ LET t == ns_send_http_file2(c, i, range) IN nc' = t.nc /\ pd' = t.pd
    /\ UNCHANGED <<cgi, proc, size>>

\* ns_send_http_file() for request q, number i, on connection c with data d.
ns_send_http_file(q, i, c, d) ==
    IF ~admit.granted
      THEN /\ nc' = [c EXCEPT !.flags = @ \cup {"CLOSE_IMMEDIATELY"}]
           /\ pd' = d
           /\ UNCHANGED <<cgi, proc, size>>
      ELSE \/ reply(i, c, d)
           \/ q.kind = "last" /\ reply_and_close(i, c, d)
           \/ q.kind = "put" /\ handle_put(i, c, q.len)
           \/ q.kind = "cgi" /\ handle_cgi(c)
           \/ q.kind = "file" /\ send_file(i, c, q.range)

\* NS_RECV with a whole request: http_handler() and ns_serve_http().
read ==
    /\ Open(nc) /\ nc.recv # NoReq
    /\ asked' = [asked EXCEPT !.size = size]
    /\ LET t == http_handler_data(nc)
       IN  ns_send_http_file(nc.recv, asked.n, [t.nc EXCEPT !.recv = NoReq], t.pd)
    /\ UNCHANGED <<out, gone, changed, admit, crashed>>

\* recv() returns 0.
read_eof ==
    /\ Open(nc) /\ gone /\ nc.recv = NoReq
    /\ nc' = [nc EXCEPT !.flags = @ \cup {"CLOSE_IMMEDIATELY"}]
    /\ UNCHANGED <<pd, cgi, proc, out, asked, gone, size, changed, admit, crashed>>

\* ns_write_to_socket(): the socket takes k tokens, then NS_SEND.
write(k) ==
    /\ Open(nc) /\ k \in 1 .. Len(nc.send)
    /\ out' = out \o SubSeq(nc.send, 1, k)
    /\ LET t == http_handler_data([nc EXCEPT !.send = SubSeq(@, k + 1, Len(@))])
       IN  nc' = t.nc /\ pd' = t.pd
    /\ UNCHANGED <<cgi, proc, asked, gone, size, changed, admit, crashed>>

\* NS_POLL.
poll ==
    /\ Open(nc) /\ pd # NoData
    /\ LET t == http_handler_data(nc) IN nc' = t.nc /\ pd' = t.pd
    /\ UNCHANGED <<cgi, proc, out, asked, gone, size, changed, admit, crashed>>

\* The sweep of ns_mgr_poll() and NS_CLOSE.  recv_mbuf is empty, so proto_data
\* is not freed, and nothing tells the CGI connection.
close ==
    /\ nc.st = "open"
    /\ "CLOSE_IMMEDIATELY" \in nc.flags \/ ("SEND_AND_CLOSE" \in nc.flags /\ nc.send = <<>>)
    /\ LET t == http_handler_data(nc) IN pd' = t.pd
    /\ nc' = [nc EXCEPT !.st = "closed", !.send = <<>>, !.flags = {}, !.recv = NoReq]
    /\ UNCHANGED <<cgi, proc, out, asked, gone, size, changed, admit, crashed>>

-----------------------------------------------------------------------------
(* Events of the CGI connection.  Its handler follows user_data to nc,     *)
(* whether nc still exists or not.                                         *)

\* The state of the headers in what has been read: get_request_len().
get_request_len(got) == IF proc.bad THEN -1 ELSE IF got >= proc.hdr THEN proc.hdr ELSE 0

\* Mutant: the output is passed on without waiting for the headers.
cgi_ev_handler_recv_early(got) ==
    LET i == asked.n
        first == "USER_1" \in nc.flags
    IN  /\ nc' = [nc EXCEPT
             !.send = @ \o (IF first THEN <<head(i, 200, -1)>> ELSE <<>>) \o body(i, cgi.fwd + 1, got),
             !.flags = @ \ {"USER_1"}]
        /\ cgi' = [cgi EXCEPT !.got = got, !.fwd = got]

\* NS_RECV of cgi_ev_handler(), got units of output having been read so far.
cgi_ev_handler_recv(got) ==
    LET i == asked.n
        first == "USER_1" \in nc.flags
        len == get_request_len(got)
        line == IF ~first THEN <<>> ELSE IF len < 0 THEN <<head(i, 500, 0)>> ELSE <<head(i, 200, -1)>>
    IN  IF first /\ len = 0
          THEN cgi' = [cgi EXCEPT !.got = got] /\ UNCHANGED nc
          ELSE /\ nc' = [nc EXCEPT !.send = @ \o line \o body(i, cgi.fwd + 1, got),
                                   !.flags = @ \ {"USER_1"}]
               /\ cgi' = [cgi EXCEPT !.got = got, !.fwd = got,
                            !.flags = IF first /\ len < 0 THEN @ \cup {"CLOSE_IMMEDIATELY"} ELSE @]

cgi_read ==
    /\ Open(cgi) /\ cgi.got < proc.wrote
    /\ IF nc.st = "closed" THEN crashed' = TRUE /\ UNCHANGED <<nc, cgi>>
       ELSE /\ \E got \in cgi.got + 1 .. proc.wrote : cgi_ev_handler_recv(got)
            /\ UNCHANGED crashed
    /\ UNCHANGED <<pd, proc, out, asked, gone, size, changed, admit>>

cgi_read_eof ==
    /\ Open(cgi) /\ proc.st = "exited" /\ cgi.got = proc.wrote
    /\ cgi' = [cgi EXCEPT !.flags = @ \cup {"CLOSE_IMMEDIATELY"}]
    /\ UNCHANGED <<nc, pd, proc, out, asked, gone, size, changed, admit, crashed>>

\* NS_CLOSE of cgi_ev_handler().
cgi_ev_handler_close(c) == [c EXCEPT !.flags = @ \cup {"SEND_AND_CLOSE"}]

cgi_close ==
    /\ cgi.st = "open" /\ "CLOSE_IMMEDIATELY" \in cgi.flags
    /\ cgi' = [cgi EXCEPT !.st = "closed", !.flags = {}]
    /\ IF nc.st = "closed" THEN crashed' = TRUE /\ UNCHANGED <<nc, pd>>
       ELSE /\ nc' = cgi_ev_handler_close(nc)
            /\ pd' = free_http_proto_data
            /\ UNCHANGED crashed
    /\ UNCHANGED <<proc, out, asked, gone, size, changed, admit>>

-----------------------------------------------------------------------------
(* The client, the CGI program, and whoever else writes the file.          *)

Stream == out \o nc.send

\* The bytes of the file that the last request asks for, by the file's size
\* when it was served: a range is bytes a to b; one that reaches past the end,
\* or is empty, is refused.
FileResponse ==
    LET r == asked.q.range
        n == asked.size
        a == IF r = NoRange THEN 0 ELSE r[1]
        b == IF Len(r) = 2 THEN r[2] ELSE n - 1
    IN  IF r = NoRange THEN <<head(asked.n, 200, n)>> \o body(asked.n, 0, n - 1)
        ELSE IF a <= b /\ b < n THEN <<head(asked.n, 206, b - a + 1)>> \o body(asked.n, a, b)
        ELSE <<head(asked.n, 416, 0)>>

\* The complete responses to the last request, a CGI request excepted: the end
\* of the connection is the end of that one.
Responses ==
    {<<head(asked.n, 400, 0)>>} \cup
    (CASE asked.q.kind = "file" -> {FileResponse}
       [] asked.q.kind \in {"put", "last"} -> {<<head(asked.n, 200, 0)>>}
       [] OTHER -> {})

\* s is the first part of t.
Begins(s, t) == Len(s) <= Len(t) /\ SubSeq(t, 1, Len(s)) = s

Complete(stream) == asked.q.kind # "cgi" /\ stream \in Responses

client_sends(q) ==
    /\ nc.st = "open" /\ ~gone /\ nc.recv = NoReq
    /\ asked.n < MaxReq
    /\ asked.n # 0 => Complete(out) /\ asked.q.kind # "last"
    /\ asked' = [q |-> q, n |-> asked.n + 1, size |-> 0]
    /\ out' = <<>>
    /\ nc' = [nc EXCEPT !.recv = q]
    /\ UNCHANGED <<pd, cgi, proc, gone, size, changed, admit, crashed>>

client_closes ==
    /\ ~gone /\ nc.st = "open"
    /\ gone' = TRUE
    /\ UNCHANGED <<nc, pd, cgi, proc, out, asked, size, changed, admit, crashed>>

proc_writes ==
    /\ proc.st = "runs" /\ proc.wrote < MaxOut
    /\ proc' = [proc EXCEPT !.wrote = @ + 1]
    /\ UNCHANGED <<nc, pd, cgi, out, asked, gone, size, changed, admit, crashed>>

proc_exits ==
    /\ proc.st = "runs"
    /\ proc' = [proc EXCEPT !.st = "exited"]
    /\ UNCHANGED <<nc, pd, cgi, out, asked, gone, size, changed, admit, crashed>>

file_changes(n) ==
    /\ n # size /\ changed = "no"
    /\ size' = n /\ changed' = IF n < size THEN "shrunk" ELSE "grown"
    /\ UNCHANGED <<nc, pd, cgi, proc, out, asked, gone, admit, crashed>>

Init ==
    /\ nc = [st |-> "open", flags |-> {}, recv |-> NoReq, send |-> <<>>]
    /\ pd = NoData
    /\ cgi = [st |-> "none", flags |-> {}, got |-> 0, fwd |-> 0]
    /\ proc = [st |-> "none", wrote |-> 0, hdr |-> 1, bad |-> FALSE]
    /\ out = <<>> /\ asked = [q |-> NoReq, n |-> 0, size |-> 0]
    /\ gone = FALSE /\ changed = "no" /\ crashed = FALSE
    /\ size \in 0 .. MaxSize
    /\ admit \in Verdicts

Server ==
    \/ read \/ read_eof \/ poll \/ close \/ cgi_read \/ cgi_read_eof \/ cgi_close
    \/ \E k \in 1 .. Buf + MaxOut + 1 : write(k)

Outside ==
    \/ client_closes \/ proc_writes \/ proc_exits
    \/ \E q \in Requests : client_sends(q)
    \/ \E n \in 0 .. MaxSize : file_changes(n)

Next == ~crashed /\ (Server \/ Outside)

\* Every poll of the manager calls each connection with NS_POLL, reads and
\* writes the sockets that are ready, and sweeps; the client reads what is
\* sent.  The client and the program owe nothing else.
Fairness ==
    \A step \in {"read", "poll", "write", "close", "cgi"} :
       WF_vars(~crashed /\ CASE step = "read" -> read \/ read_eof
                             [] step = "poll" -> poll
                             [] step = "write" -> (\E k \in 1 .. Buf + MaxOut + 1 : write(k))
                             [] step = "close" -> close
                             [] step = "cgi" -> cgi_read \/ cgi_read_eof \/ cgi_close)

Spec == Init /\ [][Next]_vars /\ Fairness

-----------------------------------------------------------------------------
\* Type invariant; no more of a file is sent than its head announces, and no
\* more of a program's output is passed on than was read.
TypeOK ==
    /\ nc.st \in {"open", "closed"}
    /\ nc.flags \subseteq {"CLOSE_IMMEDIATELY", "SEND_AND_CLOSE", "USER_1"}
    /\ nc.recv \in Requests \cup {NoReq}
    /\ pd = NoData \/ (pd.type = "DATA_FILE" /\ pd.req \in 1 .. asked.n
                        /\ pd.sent \in 0 .. pd.cl /\ pd.pos \in 0 .. MaxSize)
    /\ cgi.st \in {"none", "open", "closed"} /\ cgi.fwd <= cgi.got /\ cgi.got <= proc.wrote
    /\ proc.st \in {"none", "runs", "exited"}
    /\ asked.n <= MaxReq /\ size \in 0 .. MaxSize

\* The answers to a client that waits for each one arrive in the order of the
\* requests, each the head and then the bytes its head announces, from the
\* right place of the file, none twice and none left out before the next
\* answer begins, however the sends are split and even when the file grows
\* while it is sent (transfer_file_data(), ns_send_http_file2()).
ResponsesWhole ==
    asked.q.kind # "cgi" => \E r \in Responses \cup {<<>>} : Begins(Stream, r)

\* File data never fills send_mbuf past NS_MAX_HTTP_SEND_IOBUF, however slow
\* the client is (the rate limiting of transfer_file_data()).  (With the type
\* invariant: no more of a file is sent than its head announces.)
SendBounded == TypeOK /\ (cgi.st = "none" => Len(nc.send) <= Buf)

\* Nothing is sent to a peer whose address the access list does not admit and
\* no program is started for it; and the server cuts a connection off only
\* when its peer is not admitted or has gone (ns_check_ip_acl() against what
\* its list means, in ns_send_http_file()).
AclEnforced ==
    /\ Stream # <<>> \/ cgi.st # "none" => admit.entitled
    /\ "CLOSE_IMMEDIATELY" \in nc.flags => gone \/ ~admit.entitled

\* The client sees nothing of a CGI program before its headers are complete or
\* known to be broken, then the status line and the output, in order; and when
\* the server ends the connection after a program with proper headers, the
\* whole of its output has been sent (cgi_ev_handler()).
CgiRelay ==
    LET i == asked.n
        p == Stream
    IN  (cgi.st # "none" /\ ~crashed) =>
          /\ p # <<>> => /\ p[1][2] = "head" /\ Tail(p) = body(i, 1, Len(p) - 1)
                         /\ get_request_len(cgi.got) # 0
          /\ (nc.st = "closed" /\ ~gone /\ get_request_len(proc.wrote) > 0) =>
                Len(out) = proc.wrote + 1

\* A request of an admitted client that stays is answered in full, unless it
\* is for a CGI program or somebody truncates the file (NS_POLL and NS_SEND
\* both resume transfer_file_data()); and when a CGI program exits, the
\* connection is closed (NS_CLOSE of cgi_ev_handler()).
Answered ==
    /\ \A i \in 1 .. MaxReq :
         (asked.n = i /\ admit.granted) ~>
           (gone \/ changed = "shrunk" \/ asked.q.kind = "cgi" \/ Complete(out))
    /\ proc.st = "exited" ~> (gone \/ nc.st = "closed")

=============================================================================
