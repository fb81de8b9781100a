------------------------------ MODULE EventLoop ------------------------------
(***************************************************************************)
(* The connection manager of net.c: the list of active connections, the    *)
(* life of a connection (connect, bind, accept, read, write, close), the   *)
(* calls into the application's event handler, and the two builds of       *)
(* ns_mgr_poll(), the epoll() one (prog.epoll) and the select() one.        *)
(*                                                                         *)
(* One thread runs the loop and the handlers.  pc says where it is: in     *)
(* library code (a label named after the place), or in the application     *)
(* ("idle" between two polls, "user" inside a handler), where it may call  *)
(* the library.  The kernel and the peers (sk) move between any two steps. *)
(* A byte is a unit; Conn is the set of memory blocks connections use, a   *)
(* freed block may be handed out again.                                    *)
(***************************************************************************)
EXTENDS Naturals, Sequences, FiniteSets

CONSTANTS
    Conn,      \* memory blocks that can hold a struct ns_connection
    NULL,      \* the null pointer
    Programs,  \* the programs: build of ns_mgr_poll(), library calls, bounds
    ReadBuf,   \* NS_READ_BUFFER_SIZE
    Limit,     \* the recv_mbuf_limit an application sets
    NoLimit    \* the initial recv_mbuf_limit, ~0

\* A program: its build, the calls it makes, and two bounds: how many calls
\* it makes, and how many steps its peers and the kernel take.
Program == [epoll : BOOLEAN, calls : SUBSET STRING, maxapi : Nat, maxenv : Nat]

ASSUME ConstAssumption ==
    /\ NULL \notin Conn
    /\ ReadBuf \in Nat \ {0}
    /\ Limit \in Nat
    /\ NoLimit \in Nat

ASSUME ProgramAssumption == Programs \subseteq Program

VARIABLES
    head, next, prev,   \* mgr->active_connections and its links
    live,               \* allocated connections
    attr,               \* kind, ssl, listener, recv_mbuf_limit
    flags,              \* nc->flags
    rlen, slen,         \* recv_mbuf.len, send_mbuf.len
    nopoll,             \* _NS_EPF_NO_POLL in nc->mgr_data
    evts,               \* history: the events the handler has seen
    pc, phase,          \* where the thread is; which loop it is in
    cur, nxt,           \* nc and the saved next pointer of that loop
    fd, to_recv,        \* locals of ns_mgr_handle_connection and of reading
    ready,              \* events not yet processed: epoll events / fd_sets
    call,               \* the ns_call() in progress: c, flags_before, ret
    dying,              \* the argument of ns_close_conn()
    freeing,            \* ns_mgr_free() has been called
    prog,               \* the program that runs
    sk,                 \* kernel: the socket of each connection
    reg,                \* kernel: the epoll registration
    ctl, ctlev,         \* messages on ctl[1]; reported readable
    api, env            \* bounded counters

listVars == <<head, next, prev>>
connVars == <<live, attr, rlen, slen, nopoll>>
loopVars == <<phase, cur, nxt, fd, to_recv, ready, freeing, prog>>
kernVars == <<sk, reg, ctl, ctlev>>
vars == <<listVars, connVars, flags, evts, pc, loopVars, call, dying, kernVars, api, env>>

Lib  == {"LISTENING", "UDP", "CONNECTING", "SSL_HANDSHAKE_DONE", "WANT_READ", "WANT_WRITE"}
User == {"SEND_AND_CLOSE", "DONT_SEND", "CLOSE_IMMEDIATELY", "USER_1"}
Flag == Lib \cup User

Ptr == Conn \cup {NULL}
Min(a, b) == IF a < b THEN a ELSE b

\* For Lifecycle: what each memory block holds, and what its handler has seen.
BlockKind == [c \in Conn |-> IF c \in live THEN attr[c].kind ELSE "free"]
BlockEvts == [c \in Conn |-> IF c \in live THEN evts[c] ELSE <<>>]

Life == INSTANCE Lifecycle WITH kind <- BlockKind, evts <- BlockEvts

NoCall == [c |-> NULL, before |-> {}, ret |-> "idle"]
NoSock == [inq |-> 0, end |-> "open", syn |-> "ok", wr |-> FALSE]
NoAttr == [kind |-> "sock", ssl |-> FALSE, listener |-> NULL, limit |-> NoLimit]

Init ==
    /\ head = NULL /\ next = [c \in Conn |-> NULL] /\ prev = [c \in Conn |-> NULL]
    /\ live = {}
    /\ attr = [c \in Conn |-> NoAttr]
    /\ flags = [c \in Conn |-> {}]
    /\ rlen = [c \in Conn |-> 0] /\ slen = [c \in Conn |-> 0]
    /\ nopoll = [c \in Conn |-> FALSE]
    /\ evts = [c \in Conn |-> <<>>]
    /\ pc = "idle" /\ phase = "none" /\ cur = NULL /\ nxt = NULL
    /\ fd = {} /\ to_recv = 0 /\ ready = [c \in Conn |-> {}]
    /\ call = NoCall /\ dying = NULL /\ freeing = FALSE /\ prog \in Programs
    /\ sk = [c \in Conn |-> NoSock] /\ reg = [c \in Conn |-> {}]
    /\ ctl = 0 /\ ctlev = FALSE
    /\ api = 0 /\ env = 0

-----------------------------------------------------------------------------
(* Building blocks *)

\* Mutant: write events only for buffered data.
epoll_set_flags_not_connecting(f, r, lim, s) ==
    (IF r < lim THEN {"R"} ELSE {})
    \cup (IF s > 0 /\ "DONT_SEND" \notin f THEN {"W"} ELSE {})

\* Mutant: write events only to learn that connect() is done.
epoll_set_flags_no_data(f, r, lim, s) ==
    (IF r < lim THEN {"R"} ELSE {}) \cup (IF "CONNECTING" \in f THEN {"W"} ELSE {})

\* ns_ev_mgr_epoll_set_flags(): the events a connection wants.
epoll_set_flags(f, r, lim, s) ==
    (IF r < lim THEN {"R"} ELSE {})
    \cup (IF "CONNECTING" \in f \/ (s > 0 /\ "DONT_SEND" \notin f) THEN {"W"} ELSE {})

\* Mutant: c->next is not set.
ns_add_conn_drops_rest(c) ==
    /\ head' = c
    /\ next' = [next EXCEPT ![c] = NULL]
    /\ prev' = [d \in Conn |-> IF d = c THEN NULL ELSE IF d = head THEN c ELSE prev[d]]

\* Mutant: new connections go to the end of the list.
ns_add_conn_at_tail(c) ==
    LET tail == CHOOSE t \in live : next[t] = NULL IN
    /\ head' = IF head = NULL THEN c ELSE head
    /\ next' = IF head = NULL THEN next ELSE [next EXCEPT ![tail] = c]
    /\ prev' = IF head = NULL THEN prev ELSE [prev EXCEPT ![c] = tail]

\* ns_add_conn(): push at the head.
ns_add_conn(c) ==
    /\ head' = c
    /\ next' = [next EXCEPT ![c] = head]
    /\ prev' = [d \in Conn |-> IF d = c THEN NULL ELSE IF d = head THEN c ELSE prev[d]]

\* Mutant: the successor keeps its old prev.
ns_remove_conn_no_backlink(c) ==
    /\ head' = IF prev[c] = NULL THEN next[c] ELSE head
    /\ next' = [d \in Conn |-> IF d = c THEN NULL ELSE IF d = prev[c] THEN next[c] ELSE next[d]]
    /\ prev' = [prev EXCEPT ![c] = NULL]

\* ns_remove_conn(): unlink.  The block is freed next, its links go with it.
ns_remove_conn(c) ==
    /\ head' = IF prev[c] = NULL THEN next[c] ELSE head
    /\ next' = [d \in Conn |-> IF d = c THEN NULL ELSE IF d = prev[c] THEN next[c] ELSE next[d]]
    /\ prev' = [d \in Conn |-> IF d = c THEN NULL ELSE IF d = next[c] THEN prev[c] ELSE prev[d]]

\* ns_create_connection() and ns_set_sock(): a new block c, linked in and
\* registered for reading, and for writing when it is connecting.
new_conn(c, a, f, s) ==
    /\ c \notin live
    /\ live' = live \cup {c}
    /\ ns_add_conn(c)
    /\ attr' = [attr EXCEPT ![c] = a]
    /\ rlen' = [rlen EXCEPT ![c] = 0]
    /\ slen' = [slen EXCEPT ![c] = 0]
    /\ nopoll' = [nopoll EXCEPT ![c] = FALSE]
    /\ sk' = [s EXCEPT ![c] = [NoSock EXCEPT
                 !.syn = IF "CONNECTING" \in f /\ "UDP" \notin f THEN "pending" ELSE "ok",
                 !.wr  = "LISTENING" \notin f]]
    /\ reg' = [reg EXCEPT ![c] = epoll_set_flags(f, 0, NoLimit, 0)]

\* ns_call(): control enters the handler; f are the flags at that moment.
ns_call(c, f, log, ret) ==
    /\ flags' = [flags EXCEPT ![c] = f]
    /\ evts' = [evts EXCEPT ![c] = log]
    /\ call' = [c |-> c, before |-> f, ret |-> ret]
    /\ dying' = IF ret = "destroy" THEN c ELSE NULL
    /\ pc' = "user"

\* Mutant: NSF_CLOSE_IMMEDIATELY is missing from the mask.
masked_no_close(before, after) ==
    LET mask == User \ {"CLOSE_IMMEDIATELY"} IN (before \ mask) \cup (after \cap mask)

\* The end of ns_call(): of what the handler did to the flags of its own
\* connection only the bits of _NS_CALLBACK_MODIFIABLE_FLAGS_MASK stay.
\* (call.c = NULL is a broadcast callback, which is not run by ns_call().)
masked(before, after) == (before \ User) \cup (after \cap User)

\* The flags of c as the library has set them: flags_before while the handler
\* of c runs.
lib_flags(c) == IF c = call.c THEN call.before ELSE flags[c]

handler_return ==
    /\ pc = "user"
    /\ pc' = call.ret
    /\ flags' = [c \in Conn |-> IF c = call.c THEN masked(call.before, flags[c]) ELSE flags[c]]
    /\ call' = NoCall
    /\ UNCHANGED <<listVars, connVars, evts, dying, loopVars, kernVars, api, env>>

-----------------------------------------------------------------------------
(* The application: library calls between two polls and inside handlers. *)

in_application(name) ==
    /\ pc \in {"idle", "user"}
    /\ name \in prog.calls
    /\ api < prog.maxapi
    /\ api' = api + 1
    /\ UNCHANGED <<pc, loopVars, call, dying, ctl, ctlev, env>>

\* ns_connect_opt() of an address that needs no lookup, up to the end of
\* ns_finish_connect(); a call that fails leaves nothing behind.
ns_connect_opt(c) ==
    \E name \in {"connect", "connect_udp"} :
        LET f == {"CONNECTING"} \cup (IF name = "connect_udp" THEN {"UDP"} ELSE {}) IN
        /\ in_application(name)
        /\ new_conn(c, [NoAttr EXCEPT !.kind = "client"], f, sk)
        /\ flags' = [flags EXCEPT ![c] = f]
        /\ evts' = [evts EXCEPT ![c] = <<>>]

\* ns_bind_opt() (TCP or UDP) and ns_add_sock_opt().
ns_bind_opt(c) ==
    \E name \in {"bind", "bind_udp", "add_sock"} :
        LET f == CASE name = "bind" -> {"LISTENING"} [] name = "bind_udp" -> {"UDP"} [] OTHER -> {} IN
        /\ in_application(name)
        /\ new_conn(c, NoAttr, f, sk)
        /\ flags' = [flags EXCEPT ![c] = f]
        /\ evts' = [evts EXCEPT ![c] = <<>>]

\* ns_send(): buffered, except on UDP where it goes straight to sendto().
ns_send(c) ==
    /\ in_application("send")
    /\ c \in live /\ "LISTENING" \notin flags[c]
    /\ slen' = IF "UDP" \in flags[c] THEN slen ELSE [slen EXCEPT ![c] = @ + 1]
    /\ UNCHANGED <<listVars, live, attr, flags, rlen, nopoll, evts, sk, reg>>

\* The application takes the received bytes with mbuf_remove().
consume(c) ==
    /\ in_application("consume")
    /\ c \in live /\ rlen[c] > 0
    /\ rlen' = [rlen EXCEPT ![c] = 0]
    /\ UNCHANGED <<listVars, live, attr, flags, slen, nopoll, evts, sk, reg>>

\* The application sets flags: any connection's user-settable ones (closing
\* a listener only if the program does), or, in a handler, any bit of its own.
set_flag(c, f) ==
    /\ in_application(f)
    /\ c \in live
    /\ f \in User \/ c = call.c
    /\ "LISTENING" \in flags[c] => "close_listener" \in prog.calls
    /\ flags' = [flags EXCEPT ![c] = @ \cup {f}]
    /\ UNCHANGED <<listVars, connVars, evts, sk, reg>>

clear_dont_send(c) ==
    /\ in_application("resume_send")
    /\ c \in live
    /\ flags' = [flags EXCEPT ![c] = @ \ {"DONT_SEND"}]
    /\ UNCHANGED <<listVars, connVars, evts, sk, reg>>

set_limit(c) ==
    /\ in_application("limit")
    /\ c \in live /\ "UDP" \notin flags[c]
    /\ attr' = [attr EXCEPT ![c].limit = Limit]
    /\ UNCHANGED <<listVars, live, flags, rlen, slen, nopoll, evts, sk, reg>>

\* ns_set_ssl() on a listener or on a connecting client, whatever a handler has
\* just written into its own flags.
ns_set_ssl(c) ==
    /\ in_application("ssl")
    /\ c \in live /\ lib_flags(c) \cap {"LISTENING", "CONNECTING"} # {} /\ "UDP" \notin lib_flags(c)
    /\ attr' = [attr EXCEPT ![c].ssl = TRUE]
    /\ UNCHANGED <<listVars, live, flags, rlen, slen, nopoll, evts, sk, reg>>

Application ==
    \/ \E c \in Conn :
          \/ ns_connect_opt(c) \/ ns_bind_opt(c) \/ ns_send(c) \/ consume(c)
          \/ clear_dont_send(c) \/ set_limit(c) \/ ns_set_ssl(c)
          \/ \E f \in Flag : set_flag(c, f)
    \/ handler_return

-----------------------------------------------------------------------------
(* ns_mgr_handle_connection(cur, fd) *)

goto(l) == pc' = l /\ dying' = NULL /\ UNCHANGED call
quiet == UNCHANGED <<flags, evts>>

\* The outcome o of SSL_accept()/SSL_connect() in ns_ssl_begin().
SslOutcome == {"done", "want_read", "want_write", "error"}
ns_ssl_begin(f, o) ==
    CASE o = "done"       -> (f \cup {"SSL_HANDSHAKE_DONE"}) \ {"WANT_READ", "WANT_WRITE"}
      [] o = "want_read"  -> f \cup {"WANT_READ"}
      [] o = "want_write" -> f \cup {"WANT_WRITE"}
      [] OTHER            -> f \cup {"CLOSE_IMMEDIATELY"}

\* A handshake step of a connected socket; a server announces NS_ACCEPT when
\* it is done.  ret is where the caller of ns_ssl_begin() goes on.
handshake(ret) ==
    \E o \in SslOutcome :
        LET f == ns_ssl_begin(flags[cur], o) IN
        IF o = "done" /\ attr[cur].listener # NULL
        THEN ns_call(cur, f, Life!Log(evts[cur], "ACCEPT"), ret)
        ELSE goto(ret) /\ flags' = [flags EXCEPT ![cur] = f] /\ UNCHANGED evts

\* NSF_CONNECTING: nothing to do, or connect() has finished.
connecting_wait ==
    /\ pc = "handle" /\ "CONNECTING" \in flags[cur] /\ fd = {}
    /\ goto("handled") /\ quiet
    /\ UNCHANGED <<listVars, connVars, loopVars, kernVars, api, env>>

connect_done ==
    /\ pc = "handle" /\ "CONNECTING" \in flags[cur] /\ fd # {}
    /\ \E o \in (IF attr[cur].ssl THEN SslOutcome ELSE {"none"}) :
          LET f0 == IF o = "none" THEN flags[cur] ELSE ns_ssl_begin(flags[cur], o) IN
          IF sk[cur].syn = "err"
          THEN ns_call(cur, flags[cur] \cup {"CLOSE_IMMEDIATELY"},
                       Life!Log(evts[cur], "CONNECT_ERR"), "handled")
          ELSE ns_call(cur, f0 \ {"CONNECTING"}, Life!Log(evts[cur], "CONNECT_OK"), "handled")
    /\ UNCHANGED <<listVars, connVars, loopVars, kernVars, api, env>>

\* NSF_LISTENING: accept one connection.  The new block inherits from the
\* listener; a plain one gets NS_ACCEPT, an SSL one whose session cannot be
\* made is closed on the spot, before its listener field is set.  Without
\* memory the socket is closed.
connected(c) == pc = "handle" /\ flags[c] \cap {"CONNECTING"} = {}

listener_idle ==
    /\ connected(cur) /\ "LISTENING" \in flags[cur]
    /\ "R" \notin fd \/ sk[cur].inq = 0
    /\ goto("handled") /\ quiet
    /\ UNCHANGED <<listVars, connVars, loopVars, kernVars, api, env>>

accept_conn ==
    /\ connected(cur) /\ "LISTENING" \in flags[cur] /\ "R" \in fd /\ sk[cur].inq > 0
    /\ LET s == [sk EXCEPT ![cur].inq = @ - 1] IN
       \/ \E c \in Conn \ live :
             LET a(k) == [attr[cur] EXCEPT !.kind = k, !.listener = cur] IN
             \/ /\ ~attr[cur].ssl /\ new_conn(c, a("server"), {}, s)
                /\ ns_call(c, {}, <<"ACCEPT">>, "handled")
             \/ /\ attr[cur].ssl /\ new_conn(c, a("tls"), {}, s) /\ goto("handled")
                /\ flags' = [flags EXCEPT ![c] = {}] /\ evts' = [evts EXCEPT ![c] = <<>>]
             \/ /\ attr[cur].ssl /\ new_conn(c, [NoAttr EXCEPT !.kind = "tls", !.ssl = TRUE], {}, s)
                /\ ns_call(c, {}, <<"CLOSE">>, "destroy")
       \/ /\ Conn = live /\ sk' = s /\ goto("handled") /\ quiet
          /\ UNCHANGED <<listVars, connVars, reg>>
    /\ UNCHANGED <<loopVars, ctl, ctlev, api, env>>

plain(c) == connected(c) /\ "LISTENING" \notin flags[c]

\* No _NSF_FD_CAN_READ: on to the writing part.
skip_read ==
    /\ plain(cur) /\ "R" \notin fd
    /\ goto("write") /\ quiet
    /\ UNCHANGED <<listVars, connVars, loopVars, kernVars, api, env>>

\* ns_handle_udp(): the handler runs on a copy whose flags are just NSF_UDP,
\* and the flags of the copy replace those of the connection.
ns_handle_udp ==
    /\ plain(cur) /\ "R" \in fd /\ "UDP" \in flags[cur]
    /\ IF sk[cur].inq = 0
       THEN goto("write") /\ quiet /\ UNCHANGED sk
       ELSE /\ sk' = [sk EXCEPT ![cur].inq = @ - 1]
            /\ ns_call(cur, {"UDP"}, Life!Log(evts[cur], "IO"), "write")
    /\ UNCHANGED <<listVars, connVars, loopVars, reg, ctl, ctlev, api, env>>

\* recv_avail_size(), evaluated once before the loop of recv() calls.
recv_avail_size(c) ==
    IF attr[c].limit < rlen[c] THEN 0 ELSE Min(ReadBuf, attr[c].limit - rlen[c])

encrypted(c) == attr[c].ssl

begin_read ==
    /\ plain(cur) /\ "R" \in fd /\ "UDP" \notin flags[cur]
    /\ ~encrypted(cur) \/ "SSL_HANDSHAKE_DONE" \in flags[cur]
    /\ to_recv' = IF encrypted(cur) THEN ReadBuf ELSE recv_avail_size(cur)
    /\ goto("recv") /\ quiet
    /\ UNCHANGED <<listVars, connVars, phase, cur, nxt, fd, ready, freeing, prog, kernVars, api, env>>

read_handshake ==
    /\ plain(cur) /\ "R" \in fd /\ "UDP" \notin flags[cur]
    /\ encrypted(cur) /\ "SSL_HANDSHAKE_DONE" \notin flags[cur]
    /\ handshake("write")
    /\ \E n \in 0..sk[cur].inq : sk' = [sk EXCEPT ![cur].inq = n]
    /\ UNCHANGED <<listVars, connVars, loopVars, reg, ctl, ctlev, api, env>>

\* One round of the loop of recv()/SSL_read() calls: n > 0 bytes.
recv_some ==
    LET n == Min(sk[cur].inq, to_recv) IN
    /\ pc = "recv" /\ n > 0
    /\ sk' = [sk EXCEPT ![cur].inq = @ - n]
    /\ rlen' = [rlen EXCEPT ![cur] = @ + n]
    /\ ns_call(cur, flags[cur], Life!Log(evts[cur], "IO"), "recv")
    /\ UNCHANGED <<listVars, live, attr, slen, nopoll, loopVars, reg, ctl, ctlev, api, env>>

\* The last round, n <= 0.  n = 0, which recv() of 0 bytes also returns, and
\* hard errors close the connection; so may an SSL error.  After a reset
\* what is queued may be lost.
recv_none ==
    LET n == Min(sk[cur].inq, to_recv)
        closed == sk[cur].end # "open" \/ sk[cur].inq > 0
    IN
    /\ pc = "recv" /\ (n = 0 \/ sk[cur].end = "rst")
    /\ \E err \in (IF encrypted(cur) THEN {closed, TRUE} ELSE {closed}),
          want \in (IF encrypted(cur) THEN {{"WANT_READ"}, {"WANT_WRITE"}, {}} ELSE {{}}) :
          flags' = [flags EXCEPT ![cur] =
                       @ \cup want \cup (IF err THEN {"CLOSE_IMMEDIATELY"} ELSE {})]
    /\ to_recv' = 0
    /\ goto("write") /\ UNCHANGED evts
    /\ UNCHANGED <<listVars, connVars, phase, cur, nxt, fd, ready, freeing, prog, kernVars, api, env>>

\* The writing part.  After reading, NSF_CLOSE_IMMEDIATELY ends the handler.
closing_after_read == "R" \in fd /\ "CLOSE_IMMEDIATELY" \in flags[cur]
may_write == /\ ~closing_after_read /\ "W" \in fd
             /\ {"DONT_SEND", "UDP"} \cap flags[cur] = {}

\* ns_write_to_socket() starts with assert(io->len > 0): without data the
\* program ends there (WriteHasData says that this does not happen).
write_handshake ==
    /\ pc = "write" /\ may_write /\ slen[cur] > 0
    /\ encrypted(cur) /\ "SSL_HANDSHAKE_DONE" \notin flags[cur]
    /\ handshake("handled")
    /\ UNCHANGED <<listVars, connVars, loopVars, kernVars, api, env>>

ns_write_to_socket ==
    /\ pc = "write" /\ may_write /\ slen[cur] > 0
    /\ ~encrypted(cur) \/ "SSL_HANDSHAKE_DONE" \in flags[cur]
    /\ \/ \E n \in 1..slen[cur], full \in BOOLEAN :
             /\ sk[cur].end # "rst"
             /\ slen' = [slen EXCEPT ![cur] = @ - n]
             /\ sk' = [sk EXCEPT ![cur].wr = ~full]
             /\ ns_call(cur, IF encrypted(cur) THEN flags[cur] \ {"WANT_READ", "WANT_WRITE"}
                                               ELSE flags[cur],
                        Life!Log(evts[cur], "IO"), "handled")
       \/ /\ sk[cur].end = "rst" \/ encrypted(cur)
          /\ ns_call(cur, flags[cur] \cup {"CLOSE_IMMEDIATELY"}, Life!Log(evts[cur], "IO"), "handled")
          /\ UNCHANGED <<slen, sk>>
       \/ /\ encrypted(cur)
          /\ \E w \in {"WANT_READ", "WANT_WRITE"} : flags' = [flags EXCEPT ![cur] = @ \cup {w}]
          /\ goto("handled") /\ UNCHANGED <<evts, slen, sk>>
    /\ UNCHANGED <<listVars, live, attr, rlen, nopoll, loopVars, reg, ctl, ctlev, api, env>>

\* No read, no write event: NS_POLL.
poll_event ==
    /\ pc = "write" /\ fd \cap {"R", "W"} = {}
    /\ ns_call(cur, flags[cur], Life!Log(evts[cur], "IO"), "handled")
    /\ UNCHANGED <<listVars, connVars, loopVars, kernVars, api, env>>

skip_write ==
    /\ pc = "write" /\ ~may_write /\ fd \cap {"R", "W"} # {}
    /\ goto("handled") /\ quiet
    /\ UNCHANGED <<listVars, connVars, loopVars, kernVars, api, env>>

HandleConnection ==
    \/ connecting_wait \/ connect_done \/ listener_idle \/ accept_conn
    \/ skip_read \/ ns_handle_udp \/ begin_read \/ read_handshake \/ recv_some \/ recv_none
    \/ write_handshake \/ ns_write_to_socket \/ poll_event \/ skip_write

-----------------------------------------------------------------------------
(* ns_mgr_poll() and ns_mgr_free() *)

\* What the kernel would report of a socket.
readiness(c) ==
    (IF sk[c].inq > 0 \/ sk[c].end # "open" \/ sk[c].syn = "err" THEN {"R"} ELSE {})
    \cup (IF sk[c].wr /\ sk[c].syn # "pending" THEN {"W"} ELSE {})

\* epoll_wait(): what is registered; EPOLLHUP (a read event) and EPOLLERR
\* come without asking.
epoll_events(c) ==
    (reg[c] \cap readiness(c))
    \cup (IF sk[c].syn = "err" \/ sk[c].end = "rst" THEN {"R", "E"} ELSE {})

\* Mutant: reads only into an empty buffer.
select_sets_empty_only(c) ==
    (IF "WANT_WRITE" \notin flags[c] /\ rlen[c] = 0 THEN {"R"} ELSE {})
    \cup (IF \/ "CONNECTING" \in flags[c] /\ "WANT_READ" \notin flags[c]
             \/ slen[c] > 0 /\ flags[c] \cap {"CONNECTING", "DONT_SEND"} = {}
          THEN {"W"} ELSE {})

\* select(): the sets built by the first loop of ns_mgr_poll().
select_sets(c) ==
    (IF "WANT_WRITE" \notin flags[c] /\ rlen[c] < attr[c].limit THEN {"R"} ELSE {})
    \cup (IF \/ "CONNECTING" \in flags[c] /\ "WANT_READ" \notin flags[c]
             \/ slen[c] > 0 /\ flags[c] \cap {"CONNECTING", "DONT_SEND"} = {}
          THEN {"W"} ELSE {})

\* The application calls ns_mgr_poll(), or ns_mgr_free(), which starts with
\* one last poll.
ns_mgr_poll(last) ==
    /\ pc = "idle"
    /\ last => "free" \in prog.calls
    /\ freeing' = last
    /\ ready' = [c \in Conn |-> IF c \notin live THEN {}
                                ELSE IF prog.epoll THEN epoll_events(c)
                                ELSE select_sets(c) \cap readiness(c)]
    /\ ctlev' = (ctl > 0)
    /\ phase' = "events" /\ goto("events") /\ quiet
    /\ UNCHANGED <<listVars, connVars, cur, nxt, fd, to_recv, prog, sk, reg, ctl, api, env>>

\* Mutant: the event is not taken off the list of events.
ns_mgr_handle_ctl_sock_again ==
    /\ pc = "events" /\ ctlev
    /\ ctl' = ctl - 1
    /\ pc' = "user" /\ call' = [NoCall EXCEPT !.ret = "events"]
    /\ UNCHANGED <<listVars, connVars, flags, evts, loopVars, dying, sk, reg, ctlev, api, env>>

\* ns_mgr_handle_ctl_sock(): takes the message, acknowledges it and runs the
\* callback on every connection.  With epoll() its event comes anywhere among
\* the others, with select() it is first.
ns_mgr_handle_ctl_sock ==
    /\ pc = "events" /\ ctlev
    /\ ctlev' = FALSE
    /\ ctl' = ctl - 1
    /\ pc' = "user" /\ call' = [NoCall EXCEPT !.ret = "events"]
    /\ UNCHANGED <<listVars, connVars, flags, evts, loopVars, dying, sk, reg, api, env>>

\* epoll: take one reported event; the order is the kernel's.
next_event(c) ==
    /\ pc = "events" /\ prog.epoll /\ ready[c] # {}
    /\ cur' = c
    /\ fd' = ready[c]
    /\ ready' = [ready EXCEPT ![c] = {}]
    /\ goto("handle") /\ quiet
    /\ UNCHANGED <<listVars, connVars, phase, nxt, to_recv, freeing, prog, kernVars, api, env>>

\* epoll: all events done, walk the list.  select: start the second loop.
events_done ==
    /\ pc = "events" /\ ~ctlev
    /\ prog.epoll => \A c \in Conn : ready[c] = {}
    /\ nxt' = head
    /\ phase' = IF prog.epoll THEN "sweep" ELSE "loop"
    /\ goto(phase') /\ quiet
    /\ UNCHANGED <<listVars, connVars, cur, fd, to_recv, ready, freeing, prog, kernVars, api, env>>

\* select, second loop: handle nxt, having saved its successor.
loop_next ==
    /\ pc = "loop" /\ nxt # NULL
    /\ cur' = nxt
    /\ nxt' = next[nxt]
    /\ fd' = ready[nxt]
    /\ goto("handle") /\ quiet
    /\ UNCHANGED <<listVars, connVars, phase, to_recv, ready, freeing, prog, kernVars, api, env>>

loop_done ==
    /\ pc = "loop" /\ nxt = NULL
    /\ nxt' = head
    /\ ready' = [c \in Conn |-> {}]
    /\ phase' = "sweep" /\ goto("sweep") /\ quiet
    /\ UNCHANGED <<listVars, connVars, cur, fd, to_recv, freeing, prog, kernVars, api, env>>

\* ns_mgr_handle_connection() has returned.
handled ==
    /\ pc = "handled"
    /\ nopoll' = IF phase = "events" THEN [nopoll EXCEPT ![cur] = ~@] ELSE nopoll
    /\ goto(IF phase = "sweep" THEN "tail" ELSE phase) /\ quiet
    /\ UNCHANGED <<listVars, live, attr, rlen, slen, loopVars, kernVars, api, env>>

\* Mutant: _NS_EPF_NO_POLL is not toggled back.
sweep_next_keeps_bit ==
    /\ pc = "sweep" /\ nxt # NULL
    /\ cur' = nxt
    /\ nxt' = next[nxt]
    /\ fd' = {}
    /\ goto(IF prog.epoll /\ ~nopoll[nxt] THEN "handle" ELSE "tail") /\ quiet
    /\ UNCHANGED <<listVars, connVars, phase, to_recv, ready, freeing, prog, kernVars, api, env>>

\* Mutant: the next pointer is not saved before the connection is handled.
sweep_next_unsaved ==
    /\ pc = "sweep" /\ nxt # NULL
    /\ cur' = nxt
    /\ fd' = {}
    /\ nopoll' = [nopoll EXCEPT ![nxt] = FALSE]
    /\ goto(IF prog.epoll /\ ~nopoll[nxt] THEN "handle" ELSE "tail") /\ quiet
    /\ UNCHANGED <<listVars, live, attr, rlen, slen, phase, nxt, to_recv, ready, freeing, prog, kernVars, api, env>>

\* The last loop.  epoll: a connection without _NS_EPF_NO_POLL gets its
\* NS_POLL here, the others lose the bit.
sweep_next ==
    /\ pc = "sweep" /\ nxt # NULL
    /\ cur' = nxt
    /\ nxt' = next[nxt]
    /\ fd' = {}
    /\ nopoll' = [nopoll EXCEPT ![nxt] = FALSE]
    /\ goto(IF prog.epoll /\ ~nopoll[nxt] THEN "handle" ELSE "tail") /\ quiet
    /\ UNCHANGED <<listVars, live, attr, rlen, slen, phase, to_recv, ready, freeing, prog, kernVars, api, env>>

\* The end of ns_mgr_poll(); ns_mgr_free() then closes the ctl sockets and
\* walks the list once more.
sweep_done ==
    /\ pc = "sweep" /\ nxt = NULL
    /\ IF freeing THEN nxt' = head /\ phase' = "free" /\ goto("free")
                  ELSE nxt' = NULL /\ phase' = "none" /\ goto("idle")
    /\ cur' = NULL /\ fd' = {} /\ quiet
    /\ UNCHANGED <<listVars, connVars, to_recv, ready, freeing, prog, kernVars, api, env>>

must_close(c) ==
    \/ "CLOSE_IMMEDIATELY" \in flags[c]
    \/ slen[c] = 0 /\ "SEND_AND_CLOSE" \in flags[c]

\* Mutant: NS_CLOSE also after a failed connect().
ns_close_conn_always_tells(c) == ns_call(c, flags[c], Life!Log(evts[c], "CLOSE"), "destroy")

\* ns_close_conn(): NS_CLOSE unless still connecting, then unlink and free.
ns_close_conn(c) ==
    IF "CONNECTING" \in flags[c]
    THEN pc' = "destroy" /\ dying' = c /\ quiet /\ UNCHANGED call
    ELSE ns_call(c, flags[c], Life!Log(evts[c], "CLOSE"), "destroy")

sweep_close ==
    /\ pc = "tail" /\ must_close(cur)
    /\ ns_close_conn(cur)
    /\ UNCHANGED <<listVars, connVars, loopVars, kernVars, api, env>>

\* Mutant: the registration is not brought up to date.
sweep_keep_no_mod ==
    /\ pc = "tail" /\ ~must_close(cur)
    /\ goto("sweep") /\ quiet
    /\ UNCHANGED <<listVars, connVars, loopVars, kernVars, api, env>>

\* EPOLL_CTL_MOD.  The comparison is with the bits kept in nc->mgr_data, where
\* the event bits are never stored: only a wish for no events is skipped.
sweep_keep ==
    /\ pc = "tail" /\ ~must_close(cur)
    /\ LET ev == epoll_set_flags(flags[cur], rlen[cur], attr[cur].limit, slen[cur]) IN
       reg' = IF prog.epoll /\ ev # {} THEN [reg EXCEPT ![cur] = ev] ELSE reg
    /\ goto("sweep") /\ quiet
    /\ UNCHANGED <<listVars, connVars, loopVars, sk, ctl, ctlev, api, env>>

\* ns_remove_conn() and ns_destroy_conn().
destroy ==
    /\ pc = "destroy"
    /\ ns_remove_conn(dying)
    /\ live' = live \ {dying}
    /\ sk' = [sk EXCEPT ![dying] = NoSock]
    /\ reg' = [reg EXCEPT ![dying] = {}]
    /\ flags' = [flags EXCEPT ![dying] = {}]
    /\ evts' = [evts EXCEPT ![dying] = <<>>]
    /\ attr' = [attr EXCEPT ![dying] = NoAttr]
    /\ rlen' = [rlen EXCEPT ![dying] = 0]
    /\ slen' = [slen EXCEPT ![dying] = 0]
    /\ goto(IF dying = cur THEN phase ELSE "handled")
    /\ UNCHANGED <<nopoll, loopVars, ctl, ctlev, api, env>>

free_next ==
    /\ pc = "free" /\ nxt # NULL
    /\ cur' = nxt
    /\ nxt' = next[nxt]
    /\ ns_close_conn(nxt)
    /\ UNCHANGED <<listVars, connVars, phase, fd, to_recv, ready, freeing, prog, kernVars, api, env>>

free_done ==
    /\ pc = "free" /\ nxt = NULL
    /\ goto("done") /\ quiet
    /\ UNCHANGED <<listVars, connVars, loopVars, kernVars, api, env>>

Loop ==
    \/ ns_mgr_handle_ctl_sock \/ (\E c \in Conn : next_event(c)) \/ events_done
    \/ loop_next \/ loop_done \/ handled \/ sweep_next \/ sweep_done
    \/ sweep_close \/ sweep_keep \/ destroy \/ free_next \/ free_done

-----------------------------------------------------------------------------
(* Peers, kernel and the threads that broadcast. *)

env_step == env < prog.maxenv /\ env' = env + 1

\* A byte, a datagram, or, for a listener, a connection request arrives.
peer_sends(c) ==
    /\ env_step /\ c \in live /\ sk[c].syn = "ok" /\ sk[c].end = "open"
    /\ sk' = [sk EXCEPT ![c].inq = @ + 1]
    /\ UNCHANGED <<listVars, connVars, flags, evts, pc, loopVars, call, dying, reg, ctl, ctlev, api>>

\* FIN, after which the rest can still be read, or a reset.
peer_closes(c) ==
    /\ env_step /\ c \in live /\ sk[c].syn = "ok" /\ sk[c].end = "open"
    /\ flags[c] \cap {"LISTENING", "UDP"} = {}
    /\ \E e \in {"fin", "rst"} : sk' = [sk EXCEPT ![c].end = e]
    /\ UNCHANGED <<listVars, connVars, flags, evts, pc, loopVars, call, dying, reg, ctl, ctlev, api>>

\* Not counted: connect() finishes, and the peer takes bytes off the queue.
connect_finishes(c) ==
    /\ c \in live /\ sk[c].syn = "pending"
    /\ \E r \in {"ok", "err"} : sk' = [sk EXCEPT ![c].syn = r]
    /\ UNCHANGED <<listVars, connVars, flags, evts, pc, loopVars, call, dying, reg, ctl, ctlev, api, env>>

becomes_writable(c) ==
    /\ c \in live /\ ~sk[c].wr /\ "LISTENING" \notin flags[c]
    /\ sk' = [sk EXCEPT ![c].wr = TRUE]
    /\ UNCHANGED <<listVars, connVars, flags, evts, pc, loopVars, call, dying, reg, ctl, ctlev, api, env>>

\* ns_broadcast() puts a message on the ctl socket.
ns_broadcast ==
    /\ env_step /\ "broadcast" \in prog.calls /\ phase # "free" /\ pc # "done"
    /\ ctl' = ctl + 1
    /\ UNCHANGED <<listVars, connVars, flags, evts, pc, loopVars, call, dying, sk, reg, ctlev, api>>

Kernel ==
    \/ \E c \in Conn : \/ peer_sends(c) \/ peer_closes(c)
                       \/ connect_finishes(c) \/ becomes_writable(c)
    \/ ns_broadcast

Poll == \E last \in BOOLEAN : ns_mgr_poll(last)

Next == Application \/ Poll \/ HandleConnection \/ Loop \/ Kernel

Spec == Init /\ [][Next]_vars

\* The thread keeps running: handlers return and the application polls again,
\* for ever or until it calls ns_mgr_free().
Thread == handler_return \/ Poll \/ HandleConnection \/ Loop

\* Fairness: besides the thread, connect() finishes one way or the other, and
\* a peer that is alive keeps reading, so a full socket drains.
FairSpec ==
    /\ Spec
    /\ WF_vars(Thread)
    /\ \A c \in Conn : WF_vars(connect_finishes(c)) /\ WF_vars(becomes_writable(c))

-----------------------------------------------------------------------------
(* Properties *)

ListType == head \in Ptr /\ next \in [Conn -> Ptr] /\ prev \in [Conn -> Ptr]

Attr == [kind : Life!Kind, ssl : BOOLEAN, listener : Ptr, limit : Nat]

ConnType ==
    /\ live \subseteq Conn
    /\ attr \in [Conn -> Attr]
    /\ rlen \in [Conn -> Nat] /\ slen \in [Conn -> Nat]
    /\ nopoll \in [Conn -> BOOLEAN]

EventType == flags \in [Conn -> SUBSET Flag] /\ evts \in [Conn -> Seq(Life!Event)]

ReturnTo == {"idle", "events", "recv", "write", "handled", "destroy"}
Label == ReturnTo \cup {"user", "loop", "sweep", "tail", "free", "handle", "done"}

ThreadType ==
    /\ pc \in Label
    /\ call \in [c : Ptr, before : SUBSET Flag, ret : ReturnTo]
    /\ dying \in Ptr

LoopType ==
    /\ phase \in {"none", "events", "loop", "sweep", "free"}
    /\ cur \in Ptr /\ nxt \in Ptr
    /\ fd \subseteq {"R", "W", "E"} /\ to_recv \in Nat
    /\ ready \in [Conn -> SUBSET {"R", "W", "E"}]
    /\ freeing \in BOOLEAN /\ prog \in Programs

Sock == [inq : Nat, end : {"open", "fin", "rst"}, syn : {"ok", "pending", "err"}, wr : BOOLEAN]

KernType ==
    /\ sk \in [Conn -> Sock]
    /\ reg \in [Conn -> SUBSET {"R", "W"}]
    /\ ctl \in Nat /\ ctlev \in BOOLEAN

\* Every variable has its type; lengths and counters never go below zero.
TypeOK ==
    ListType /\ ConnType /\ EventType /\ ThreadType /\ LoopType /\ KernType /\ api \in Nat /\ env \in Nat

\* net.c:58-72.  The links of the active list agree: next and prev are inverse
\* to each other, head is the one connection without a predecessor, nothing
\* points to freed memory, and freed blocks are not linked.
ListOK ==
    /\ head \in live \cup {NULL} /\ (head = NULL <=> live = {})
    /\ \A c \in live :
          /\ next[c] \in live \cup {NULL} /\ prev[c] \in live \cup {NULL}
          /\ next[c] # NULL => prev[next[c]] = c
          /\ prev[c] # NULL => next[prev[c]] = c
          /\ prev[c] = NULL <=> c = head
    /\ \A c \in Conn \ live : next[c] = NULL /\ prev[c] = NULL

\* No connection is lost from the list: whatever contains the head and is
\* closed under next contains every live connection, so the loops of
\* ns_mgr_poll() and ns_mgr_free() visit all of them and there is no cycle.
AllReachable ==
    \A S \in SUBSET live :
        (head # NULL => head \in S) /\ (\A c \in S : next[c] \in S \cup {NULL}) => S = live

\* The pointers the thread holds across a call into the application: the
\* connection being handled, the saved next pointer of the loop, pending
\* epoll events, the one being closed and the one whose handler runs.  None
\* of them is freed memory when it is used again, whatever handlers open,
\* flag for closing or accept meanwhile.
NoDanglingCursor ==
    /\ nxt \in live \cup {NULL}
    /\ call.c \in live \cup {NULL}
    /\ pc \in {"handle", "recv", "write", "handled", "tail"} => cur \in live
    /\ pc = "user" /\ call.ret \in {"recv", "write", "handled"} => cur \in live
    /\ pc = "destroy" \/ (pc = "user" /\ call.ret = "destroy") => dying \in live \ {nxt}
    /\ \A c \in Conn \ live : ready[c] = {}

\* net.c:817, assert(io->len > 0): ns_write_to_socket() is only called with
\* data to send.
WriteHasData == pc = "write" /\ may_write => slen[cur] > 0

\* net.c:1063-1075.  _NS_EPF_NO_POLL is toggled by every event and again by
\* the list walk, and is off on every connection when ns_mgr_poll() returns:
\* a bit left on would swap the meaning of "had an event" for good.
PollBitClear == pc = "idle" => \A c \in live : ~nopoll[c]

\* nc->listener of an accepted connection may be followed (the MQTT broker and
\* the multithreading wrapper do, even in NS_CLOSE): it never outlives the
\* connection it points to, not even in ns_mgr_free(), unless the application
\* closes a listener itself.  And when ns_mgr_free() is done, a connection can
\* only be left if an NS_CLOSE handler of its own last loop opened it; no
\* handler ever hears of it.
FreedInOrder ==
    /\ "close_listener" \notin prog.calls =>
          \A c \in live : attr[c].listener # NULL => attr[c].listener \in live
    /\ pc = "done" => \A c \in live : evts[c] = <<>> /\ attr[c].listener = NULL

\* A request to close a TCP connection survives what runs afterwards: the
\* masking at the end of ns_call(), SSL errors, the connect result.
CloseRequestKept ==
    [][\A c \in live \cap live' :
          "CLOSE_IMMEDIATELY" \in flags[c] /\ "UDP" \notin flags[c]
          => "CLOSE_IMMEDIATELY" \in flags'[c]]_vars

\* The handler sees each connection's events in the promised order, and the
\* memory goes only after the handler was told.
RefinesLifecycle == Life!Spec

\* A connection told to close, at once or after sending what is buffered, is
\* closed (SSL, NSF_DONT_SEND and UDP aside: there the peer or the
\* application can hold it up).
ClosesEventually ==
    \A c \in Conn :
        /\ c \in live /\ "UDP" \notin flags[c]
        /\ flags[c] \cap {"CLOSE_IMMEDIATELY", "SEND_AND_CLOSE"} # {}
        ~> c \notin live

\* Every ns_connect() is answered: NS_CONNECT is delivered or, if the
\* application gave up on it, the connection is freed.
ConnectAnswered ==
    \A c \in Conn :
        c \in live /\ "CONNECTING" \in flags[c] ~> c \notin live \/ "CONNECTING" \notin flags[c]

\* What arrives is not left in the kernel: bytes are read, connection
\* requests accepted, datagrams handed over.
InputTaken ==
    \A c \in Conn : sk[c].inq > 0 ~> sk[c].inq = 0

=============================================================================
