--------------------------- MODULE EventLoopOrder ---------------------------
(***************************************************************************)
(* What a step of EventLoop may change of a connection that stays: its     *)
(* flags, seen through the masking of ns_call(), its fields and the events *)
(* its handler is told; and how a connection starts.  Then the end of a    *)
(* connection: a request to close is not lost, a listener outlives the     *)
(* connections it accepted, and what ns_mgr_free() leaves.  And writing: a *)
(* write event finds data.  Last, EventLoop implements Lifecycle: whatever *)
(* the application does in its handlers, each handler sees the events of   *)
(* its connection in the promised order, and the memory goes only after it *)
(* was told.                                                               *)
(***************************************************************************)
EXTENDS EventLoopProofs

\* The flags of a connection over one step.  What it is (a listener, a UDP
\* socket) never changes, it is connecting until connect_done, an SSL
\* handshake stays done, and nobody asks a listener to close unless the
\* program does so.
KeptFlags(c) ==
    /\ \A g \in {"LISTENING", "UDP"} : g \in lib_flags(c)' <=> g \in lib_flags(c)
    /\ "CONNECTING" \in lib_flags(c)' => "CONNECTING" \in lib_flags(c)
    /\ "CONNECTING" \in lib_flags(c) => "CONNECTING" \in lib_flags(c)' \/ (connect_done /\ c = cur)
    /\ "SSL_HANDSHAKE_DONE" \in lib_flags(c) /\ "UDP" \notin lib_flags(c)
       => "SSL_HANDSHAKE_DONE" \in lib_flags(c)'
    /\ "close_listener" \notin prog.calls /\ "LISTENING" \in lib_flags(c) /\ "CONNECTING" \notin lib_flags(c)
       => flags'[c] \cap {"CLOSE_IMMEDIATELY", "SEND_AND_CLOSE"} \subseteq flags[c]

\* The places where the flags of the connection at hand are known: reading and
\* writing are for neither listeners nor connecting clients, and a handler
\* takes no flag off its own connection but NSF_DONT_SEND.
Places ==
    /\ call.c # NULL => call.before \ {"DONT_SEND"} \subseteq flags[call.c]
    /\ \A c \in live : "LISTENING" \in lib_flags(c) => "CONNECTING" \notin lib_flags(c)
    /\ pc \in {"recv", "write"} \/ (pc = "user" /\ call.ret \in {"recv", "write"})
       => lib_flags(cur) \cap {"LISTENING", "CONNECTING"} = {}

-----------------------------------------------------------------------------

\* Outside handlers the flags are the library's.
LEMMA LibIsFlags ==
    ASSUME Inv, pc # "user", NEW c \in Conn
    PROVE  lib_flags(c) = flags[c]
BY ConstAssumption DEF Inv, Control, NoCall, lib_flags

\* Calling a handler of a with flags f.
LEMMA LibCall ==
    ASSUME Inv, pc # "user", NEW a \in Conn, NEW f, NEW log, NEW ret, ns_call(a, f, log, ret)
    PROVE  /\ lib_flags(a)' = f /\ flags'[a] = f
           /\ \A c \in Conn \ {a} : lib_flags(c)' = lib_flags(c) /\ flags'[c] = flags[c]
<1>1. flags \in [Conn -> SUBSET Flag] /\ \A c \in Conn : lib_flags(c) = flags[c]
  BY Zenon, LibIsFlags DEF Inv, TypeOK, EventType
<1>2. call' = [c |-> a, before |-> f, ret |-> ret] /\ flags' = [flags EXCEPT ![a] = f]
  BY Zenon DEF ns_call
<1>3. QED
  BY Zenon, <1>1, <1>2 DEF lib_flags

\* Going on in the library.
LEMMA LibGoto ==
    ASSUME Inv, pc # "user", NEW l, goto(l), NEW c \in Conn
    PROVE  lib_flags(c)' = flags'[c]
BY ConstAssumption DEF Inv, Control, NoCall, lib_flags, goto

\* The handling of cur gives it the flags f and leaves the other connections
\* alone.
FlagsTo(f) ==
    \A c \in Conn : lib_flags(c)' = (IF c = cur THEN f ELSE flags[c]) /\ flags'[c] = lib_flags(c)'

\* From flags f to flags g without losing a request to close, a finished
\* handshake, or what the connection is.
Mild(f, g) ==
    /\ \A x \in {"LISTENING", "UDP"} : x \in g <=> x \in f
    /\ \A x \in {"SSL_HANDSHAKE_DONE", "CLOSE_IMMEDIATELY", "SEND_AND_CLOSE"} : x \in f => x \in g

\* The handling of a connection either calls its handler, or goes on.
LEMMA FlagsToCall ==
    ASSUME Inv, pc # "user", cur \in Conn
    PROVE  /\ \A f, log, ret : ns_call(cur, f, log, ret) => FlagsTo(f)
           /\ \A f, l : goto(l) /\ flags' = [flags EXCEPT ![cur] = f] => FlagsTo(f)
           /\ \A l : goto(l) /\ quiet => FlagsTo(flags[cur])
<1>1. flags \in [Conn -> SUBSET Flag] /\ \A c \in Conn : lib_flags(c) = flags[c]
  BY Zenon, LibIsFlags DEF Inv, TypeOK, EventType
<1>2. ASSUME NEW f, NEW log, NEW ret, ns_call(cur, f, log, ret) PROVE FlagsTo(f)
  BY Zenon, <1>1, <1>2, LibCall DEF FlagsTo
<1>3. ASSUME NEW f, NEW l, goto(l), flags' = [flags EXCEPT ![cur] = f] PROVE FlagsTo(f)
  BY Zenon, <1>1, <1>3, LibGoto DEF FlagsTo
<1>4. ASSUME NEW l, goto(l), quiet PROVE FlagsTo(flags[cur])
  BY Zenon, <1>1, <1>4, LibGoto DEF FlagsTo, quiet
<1>5. QED
  BY Zenon, <1>2, <1>3, <1>4

\* What ns_mgr_handle_connection() does to the flags of its connection.
LEMMA HandleFlags ==
    ASSUME Inv, HandleConnection, ~accept_conn
    PROVE  \E g \in SUBSET Flag :
              /\ FlagsTo(g)
              /\ \/ g = flags[cur]
                 \/ plain(cur) /\ Mild(flags[cur], g) /\ "CONNECTING" \notin g
                 \/ pc \in {"recv", "write"} /\ Mild(flags[cur], g) /\ ("CONNECTING" \in g => "CONNECTING" \in flags[cur])
                 \/ connect_done /\ Mild(flags[cur], g)
                 \/ ns_handle_udp /\ g = {"UDP"}
<1>a. pc \in {"handle", "recv", "write"}
  BY Zenon DEF HandleConnection, connecting_wait, connect_done, listener_idle, skip_read, ns_handle_udp, begin_read,
        read_handshake, recv_some, recv_none, write_handshake, ns_write_to_socket, poll_event, skip_write, connected, plain
<1>b. cur \in Conn /\ flags \in [Conn -> SUBSET Flag] /\ flags[cur] \in SUBSET Flag
  BY Zenon, <1>a DEF Inv, TypeOK, ConnType, EventType, NoDanglingCursor
<1>c. pc # "user"
  BY Zenon, <1>a
<1>d. /\ \A f, log, ret : ns_call(cur, f, log, ret) => FlagsTo(f)
      /\ \A f, l : goto(l) /\ flags' = [flags EXCEPT ![cur] = f] => FlagsTo(f)
      /\ \A l : goto(l) /\ quiet => FlagsTo(flags[cur])
  BY Zenon, <1>b, <1>c, FlagsToCall
<1> DEFINE Any(g) == \/ g = flags[cur]
                     \/ plain(cur) /\ Mild(flags[cur], g) /\ "CONNECTING" \notin g
                     \/ pc \in {"recv", "write"} /\ Mild(flags[cur], g)
                        /\ ("CONNECTING" \in g => "CONNECTING" \in flags[cur])
                     \/ connect_done /\ Mild(flags[cur], g)
                     \/ ns_handle_udp /\ g = {"UDP"}
<1>1. CASE connecting_wait \/ listener_idle \/ skip_read \/ begin_read \/ skip_write \/ recv_some \/ poll_event
  <2>1. FlagsTo(flags[cur])
    BY <1>1, <1>d, Zenon DEF connecting_wait, listener_idle, skip_read, begin_read, skip_write, recv_some, poll_event
  <2>2. QED
    BY Zenon, <2>1, <1>b
<1>s. ASSUME NEW o \in SslOutcome
      PROVE  LET g == ns_ssl_begin(flags[cur], o) IN
             /\ g \in SUBSET Flag /\ Mild(flags[cur], g) /\ ("CONNECTING" \in g => "CONNECTING" \in flags[cur])
  BY Zenon, <1>b DEF ns_ssl_begin, Mild, SslOutcome, Flag, Lib, User
<1>2. CASE read_handshake \/ write_handshake
  <2>1. plain(cur) \/ pc = "write"
    BY Zenon, <1>2 DEF read_handshake, write_handshake
  <2>2. PICK ret : handshake(ret)
    BY Zenon, <1>2 DEF read_handshake, write_handshake
  <2>3. PICK o \in SslOutcome : FlagsTo(ns_ssl_begin(flags[cur], o))
    BY <2>2, <1>d, Zenon DEF handshake
  <2>4. Any(ns_ssl_begin(flags[cur], o))
    BY Zenon, <1>s, <2>1 DEF plain, connected
  <2>5. QED
    BY Zenon, <1>s, <2>3, <2>4
<1>3. CASE connect_done
  <2>1. PICK o \in SslOutcome \cup {"none"} :
           LET f0 == IF o = "none" THEN flags[cur] ELSE ns_ssl_begin(flags[cur], o) IN
           \/ FlagsTo(flags[cur] \cup {"CLOSE_IMMEDIATELY"}) \/ FlagsTo(f0 \ {"CONNECTING"})
    BY <1>3, <1>d, Zenon DEF connect_done
  <2> DEFINE f0 == IF o = "none" THEN flags[cur] ELSE ns_ssl_begin(flags[cur], o)
  <2>2. f0 \in SUBSET Flag /\ Mild(flags[cur], f0)
    BY Zenon, <1>b, <1>s DEF Mild
  <2>3. f0 \ {"CONNECTING"} \in SUBSET Flag /\ Mild(flags[cur], f0 \ {"CONNECTING"})
    BY Zenon, <2>2 DEF Mild
  <2>4. (flags[cur] \cup {"CLOSE_IMMEDIATELY"}) \in SUBSET Flag /\ Mild(flags[cur], flags[cur] \cup {"CLOSE_IMMEDIATELY"})
    BY Zenon, <1>b DEF Mild, Flag, User
  <2>5. QED
    BY Zenon, <1>3, <2>1, <2>3, <2>4
<1>4. CASE ns_handle_udp
  <2>1. FlagsTo(flags[cur]) \/ FlagsTo({"UDP"})
    BY <1>4, <1>d, Zenon DEF ns_handle_udp
  <2>2. {"UDP"} \in SUBSET Flag
    BY Zenon DEF Flag, Lib
  <2>3. QED
    BY Zenon, <1>b, <1>4, <2>1, <2>2
<1>5. ASSUME NEW W \in SUBSET {"WANT_READ", "WANT_WRITE", "CLOSE_IMMEDIATELY"}
      PROVE  LET g == flags[cur] \cup W IN
             g \in SUBSET Flag /\ Mild(flags[cur], g) /\ ("CONNECTING" \in g => "CONNECTING" \in flags[cur])
  BY Zenon, <1>b DEF Mild, Flag, Lib, User
<1>6. CASE recv_none
  <2>1. PICK W \in SUBSET {"WANT_READ", "WANT_WRITE", "CLOSE_IMMEDIATELY"} : flags' = [flags EXCEPT ![cur] = @ \cup W]
    <3>1. PICK err \in BOOLEAN, want \in {{"WANT_READ"}, {"WANT_WRITE"}, {}} :
             flags' = [flags EXCEPT ![cur] = @ \cup want \cup (IF err THEN {"CLOSE_IMMEDIATELY"} ELSE {})]
      BY Zenon, <1>6 DEF recv_none
    <3> DEFINE W == want \cup (IF err THEN {"CLOSE_IMMEDIATELY"} ELSE {})
    <3>2. W \in SUBSET {"WANT_READ", "WANT_WRITE", "CLOSE_IMMEDIATELY"}
      BY Zenon
    <3>3. flags[cur] \cup want \cup (IF err THEN {"CLOSE_IMMEDIATELY"} ELSE {}) = flags[cur] \cup W
      BY Zenon
    <3>4. QED
      BY Zenon, <3>1, <3>2, <3>3
  <2>2. FlagsTo(flags[cur] \cup W)
    BY Zenon, <1>6, <2>1, <1>d DEF recv_none
  <2>3. QED
    BY Zenon, <1>5, <1>6, <2>2 DEF recv_none
<1>7. CASE ns_write_to_socket
  <2>1. pc = "write"
    BY Zenon, <1>7 DEF ns_write_to_socket
  <2>2. \/ FlagsTo(flags[cur] \ {"WANT_READ", "WANT_WRITE"}) \/ FlagsTo(flags[cur])
        \/ \E x \in {"WANT_READ", "WANT_WRITE", "CLOSE_IMMEDIATELY"} : FlagsTo(flags[cur] \cup {x})
    BY <1>7, <1>d, Zenon DEF ns_write_to_socket
  <2>3. (flags[cur] \ {"WANT_READ", "WANT_WRITE"}) \in SUBSET Flag /\ Any(flags[cur] \ {"WANT_READ", "WANT_WRITE"})
    BY Zenon, <1>b, <2>1 DEF Mild
  <2>4. \A x \in {"WANT_READ", "WANT_WRITE", "CLOSE_IMMEDIATELY"} :
           (flags[cur] \cup {x}) \in SUBSET Flag /\ Any(flags[cur] \cup {x})
    BY Zenon, <1>5, <2>1
  <2>5. QED
    BY Zenon, <1>b, <2>2, <2>3, <2>4
<1>8. QED
  BY Zenon, <1>1, <1>2, <1>3, <1>4, <1>6, <1>7 DEF HandleConnection

\* Closing a connection: its handler is called with the flags it has.
LEMMA CloseFlags ==
    ASSUME Inv, pc # "user", NEW a \in Conn, ns_close_conn(a), NEW c \in Conn
    PROVE  lib_flags(c)' = lib_flags(c) /\ flags'[c] = flags[c]
<1>1. CASE "CONNECTING" \in flags[a]
  BY Zenon, <1>1, LibIsFlags DEF ns_close_conn, quiet, lib_flags
<1>2. CASE "CONNECTING" \notin flags[a]
  BY Zenon, <1>2, LibIsFlags, LibCall DEF ns_close_conn
<1>3. QED
  BY Zenon, <1>1, <1>2

\* accept() does nothing to the flags of connections that were there.
LEMMA AcceptFlags ==
    ASSUME Inv, accept_conn, NEW c, c \in live
    PROVE  lib_flags(c)' = lib_flags(c) /\ flags'[c] = flags[c]
<1>a. pc # "user" /\ live \subseteq Conn /\ flags \in [Conn -> SUBSET Flag]
  BY Zenon DEF accept_conn, connected, Inv, TypeOK, ConnType, EventType
<1>b. ASSUME NEW a \in Conn \ live, NEW log, NEW ret, ns_call(a, {}, log, ret)
      PROVE  lib_flags(c)' = lib_flags(c) /\ flags'[c] = flags[c]
  BY Zenon, <1>a, <1>b, LibCall
<1>c. ASSUME goto("handled"), flags'[c] = flags[c]
      PROVE  lib_flags(c)' = lib_flags(c) /\ flags'[c] = flags[c]
  BY Zenon, <1>a, <1>c, LibIsFlags, LibGoto
<1>d. ASSUME NEW a \in Conn \ live, flags' = [flags EXCEPT ![a] = {}] PROVE flags'[c] = flags[c]
  BY Zenon, <1>a, <1>d
<1>1. QED
  BY Zenon, <1>b, <1>c, <1>d DEF accept_conn, quiet

\* Steps of the loops, of the kernel and of accept() leave all flags alone.
LEMMA OtherFlags ==
    ASSUME Inv, accept_conn \/ Poll \/ Loop \/ Kernel \/ UNCHANGED vars, NEW c, c \in live, c \in live'
    PROVE  lib_flags(c)' = lib_flags(c) /\ flags'[c] = flags[c]
<1> USE ConstAssumption
<1>a. c \in Conn /\ c # NULL /\ live \subseteq Conn /\ flags \in [Conn -> SUBSET Flag]
  BY Zenon DEF Inv, TypeOK, ConnType, EventType
<1>b. pc # "user" => call = NoCall /\ lib_flags(c) = flags[c]
  BY Zenon, <1>a, LibIsFlags DEF Inv, Control
<1>1. CASE accept_conn
  BY Zenon, <1>1, AcceptFlags
<1>2. CASE Kernel \/ UNCHANGED vars
  BY Zenon, <1>2 DEF Kernel, peer_sends, peer_closes, connect_finishes, becomes_writable, ns_broadcast, vars, lib_flags
<1>3. CASE ns_mgr_handle_ctl_sock
  BY Zenon, <1>3, <1>a, <1>b DEF ns_mgr_handle_ctl_sock, NoCall, lib_flags
<1>4. CASE Poll \/ (\E a \in Conn : next_event(a)) \/ events_done \/ loop_next \/ loop_done \/ handled
           \/ sweep_next \/ sweep_done \/ sweep_keep \/ free_done
  <2>1. UNCHANGED <<flags, call>>
    BY <1>4, Zenon DEF Poll, ns_mgr_poll, next_event, events_done, loop_next, loop_done, handled, sweep_next,
                sweep_done, sweep_keep, free_done, goto, quiet
  <2>2. QED
    BY Zenon, <2>1 DEF lib_flags
<1>5. CASE sweep_close \/ free_next
  <2>1. pc # "user" /\ ((ns_close_conn(cur) /\ cur \in Conn) \/ (ns_close_conn(nxt) /\ nxt \in Conn))
    BY Zenon, <1>5, <1>a DEF sweep_close, free_next, Inv, NoDanglingCursor
  <2>2. QED
    BY Zenon, <1>a, <2>1, CloseFlags
<1>6. CASE destroy
  BY Zenon, <1>6, <1>a, <1>b DEF destroy, goto, lib_flags
<1>7. QED
  BY Zenon, <1>1, <1>2, <1>3, <1>4, <1>5, <1>6 DEF Loop

\* The application changes no flag of the library.
LEMMA ApplicationFlags ==
    ASSUME Inv, Application, NEW c, c \in live
    PROVE  lib_flags(c)' \cap Lib = lib_flags(c) \cap Lib
<1> USE ConstAssumption
<1>a. c \in Conn /\ c # NULL /\ live \subseteq Conn /\ flags \in [Conn -> SUBSET Flag]
  BY Zenon DEF Inv, TypeOK, ConnType, EventType
<1>1. CASE handler_return
  BY Zenon, <1>1, <1>a DEF handler_return, lib_flags, masked, NoCall, User, Lib
<1>2. ASSUME NEW name, in_application(name) PROVE call' = call
  BY Zenon, <1>2 DEF in_application
<1>3. ASSUME NEW a \in Conn, ns_connect_opt(a) \/ ns_bind_opt(a) PROVE lib_flags(c)' = lib_flags(c)
  <2>1. call' = call /\ a \notin live /\ \E f : flags' = [flags EXCEPT ![a] = f]
    BY Zenon, <1>2, <1>3 DEF ns_connect_opt, ns_bind_opt, new_conn
  <2>2. QED
    BY Zenon, <1>a, <2>1 DEF lib_flags
<1>4. ASSUME NEW a \in Conn, ns_send(a) \/ consume(a) \/ set_limit(a) \/ ns_set_ssl(a)
      PROVE  lib_flags(c)' = lib_flags(c)
  BY Zenon, <1>2, <1>4 DEF ns_send, consume, set_limit, ns_set_ssl, lib_flags
<1>5. ASSUME NEW a \in Conn, clear_dont_send(a) PROVE lib_flags(c)' \cap Lib = lib_flags(c) \cap Lib
  BY Zenon, <1>2, <1>5, <1>a DEF clear_dont_send, lib_flags, Lib
<1>6. ASSUME NEW a \in Conn, NEW f \in Flag, set_flag(a, f) PROVE lib_flags(c)' \cap Lib = lib_flags(c) \cap Lib
  BY Zenon, <1>2, <1>6, <1>a DEF set_flag, lib_flags, Lib, User
<1>7. QED
  BY Zenon, <1>1, <1>3, <1>4, <1>5, <1>6 DEF Application

\* What a step may do to the flags of a connection that stays.
LEMMA FlagsStep ==
    ASSUME Inv, Places, [Next]_vars, NEW c, c \in live, c \in live'
    PROVE  KeptFlags(c)
<1> USE ConstAssumption
<1>a. c \in Conn /\ c # NULL /\ live \subseteq Conn /\ flags \in [Conn -> SUBSET Flag]
  BY Zenon DEF Inv, TypeOK, ConnType, EventType
<1>1. ASSUME lib_flags(c)' = lib_flags(c), flags'[c] = flags[c] PROVE KeptFlags(c)
  BY Zenon, <1>1 DEF KeptFlags
<1>2. CASE accept_conn \/ Poll \/ Loop \/ Kernel \/ UNCHANGED vars
  BY Zenon, <1>1, <1>2, OtherFlags
<1>3. CASE Application
  <2>1. lib_flags(c)' \cap Lib = lib_flags(c) \cap Lib
    BY Zenon, <1>3, ApplicationFlags
  <2>2. \A g \in Lib : g \in lib_flags(c)' <=> g \in lib_flags(c)
    BY Zenon, <2>1
  <2>3. ASSUME "close_listener" \notin prog.calls, "LISTENING" \in lib_flags(c)
        PROVE  flags'[c] \cap {"CLOSE_IMMEDIATELY", "SEND_AND_CLOSE"} \subseteq flags[c]
    <3>1. "LISTENING" \in flags[c]
      BY Zenon, <1>a, <2>3 DEF Places, lib_flags
    <3>2. CASE handler_return
      BY Zenon, <1>a, <3>2 DEF handler_return, masked, Inv, NoDanglingCursor, TypeOK, ThreadType, User
    <3>3. ASSUME NEW a \in Conn, ns_connect_opt(a) \/ ns_bind_opt(a) PROVE flags'[c] = flags[c]
      <4>1. a \notin live /\ \E f : flags' = [flags EXCEPT ![a] = f]
        BY Zenon, <3>3 DEF ns_connect_opt, ns_bind_opt, new_conn
      <4>2. QED
        BY Zenon, <1>a, <4>1
    <3>4. ASSUME NEW a \in Conn, ns_send(a) \/ consume(a) \/ set_limit(a) \/ ns_set_ssl(a) PROVE flags'[c] = flags[c]
      BY Zenon, <3>4 DEF ns_send, consume, set_limit, ns_set_ssl
    <3>5. ASSUME NEW a \in Conn, clear_dont_send(a) PROVE flags'[c] \subseteq flags[c]
      BY Zenon, <1>a, <3>5 DEF clear_dont_send
    <3>6. ASSUME NEW a \in Conn, NEW f \in Flag, set_flag(a, f) PROVE flags'[c] = flags[c]
      BY Zenon, <1>a, <2>3, <3>1, <3>6 DEF set_flag
    <3>7. QED
      BY Zenon, <1>3, <3>2, <3>3, <3>4, <3>5, <3>6 DEF Application
  <2>4. QED
    BY Zenon, <2>2, <2>3 DEF KeptFlags, Lib
<1>4. CASE HandleConnection /\ ~accept_conn
  <2>a. pc \in {"handle", "recv", "write"}
    BY Zenon, <1>4 DEF HandleConnection, connecting_wait, connect_done, listener_idle, skip_read, ns_handle_udp, begin_read,
       read_handshake, recv_some, recv_none, write_handshake, ns_write_to_socket, poll_event, skip_write, connected, plain
  <2>b. \A d \in Conn : lib_flags(d) = flags[d]
    BY Zenon, <2>a, LibIsFlags
  <2>c. cur \in Conn
    BY Zenon, <2>a, <1>a DEF Inv, NoDanglingCursor
  <2>1. PICK g \in SUBSET Flag :
              /\ FlagsTo(g)
              /\ \/ g = flags[cur]
                 \/ plain(cur) /\ Mild(flags[cur], g) /\ "CONNECTING" \notin g
                 \/ pc \in {"recv", "write"} /\ Mild(flags[cur], g) /\ ("CONNECTING" \in g => "CONNECTING" \in flags[cur])
                 \/ connect_done /\ Mild(flags[cur], g)
                 \/ ns_handle_udp /\ g = {"UDP"}
    BY Zenon, <1>4, HandleFlags
  <2>2. CASE c # cur \/ g = flags[cur]
    BY Zenon, <1>1, <1>a, <2>1, <2>2, <2>b DEF FlagsTo
  <2>e. CASE c = cur
    <3>1. lib_flags(c)' = g /\ flags'[c] = g /\ lib_flags(c) = flags[c]
      BY Zenon, <1>a, <2>1, <2>b, <2>e DEF FlagsTo
    <3>2. CASE plain(cur) /\ Mild(flags[cur], g) /\ "CONNECTING" \notin g
      BY Zenon, <2>e, <3>1, <3>2 DEF KeptFlags, Mild, plain, connected
    <3>3. CASE pc \in {"recv", "write"} /\ Mild(flags[cur], g) /\ ("CONNECTING" \in g => "CONNECTING" \in flags[cur])
      BY Zenon, <2>e, <3>1, <3>3 DEF KeptFlags, Mild, Places
    <3>4. CASE connect_done /\ Mild(flags[cur], g)
      <4>1. "CONNECTING" \in flags[cur]
        BY Zenon, <3>4 DEF connect_done
      <4>2. QED
        BY Zenon, <2>e, <3>1, <3>4, <4>1 DEF KeptFlags, Mild
    <3>5. CASE ns_handle_udp /\ g = {"UDP"}
      <4>1. "UDP" \in flags[cur] /\ flags[cur] \cap {"CONNECTING", "LISTENING"} = {}
        BY Zenon, <3>5 DEF ns_handle_udp, plain, connected
      <4>2. QED
        BY Zenon, <2>e, <3>1, <3>5, <4>1 DEF KeptFlags
    <3>6. QED
      BY Zenon, <2>1, <2>2, <2>e, <3>2, <3>3, <3>4, <3>5
  <2>6. QED
    BY Zenon, <2>2, <2>e
<1>5. QED
  BY Zenon, <1>2, <1>3, <1>4 DEF Next

-----------------------------------------------------------------------------

\* The fields of a connection over one step: what kind it is and who accepted
\* it never change, SSL is only switched on while it listens or connects, and
\* only ns_write_to_socket() takes data out of its send buffer.
KeptData(c) ==
    /\ attr'[c].kind = attr[c].kind /\ attr'[c].listener = attr[c].listener
    /\ attr'[c].limit = attr[c].limit \/ "limit" \in prog.calls
    /\ attr'[c].ssl => attr[c].ssl \/ lib_flags(c) \cap {"LISTENING", "CONNECTING"} # {}
    /\ slen'[c] >= slen[c] \/ (ns_write_to_socket /\ c = cur)

\* How a connection starts: opened by the application, or accepted.
Birth(c) ==
    /\ slen'[c] = 0 /\ ("W" \in reg'[c] => "CONNECTING" \in lib_flags(c)')
    /\ flags'[c] \cap {"CLOSE_IMMEDIATELY", "SEND_AND_CLOSE"} = {}
    /\ \/ /\ evts'[c] = <<>> /\ attr'[c] \in {NoAttr, [NoAttr EXCEPT !.kind = "client"]}
          /\ "CONNECTING" \in lib_flags(c)' <=> attr'[c].kind = "client"
          /\ "LISTENING" \in lib_flags(c)' => attr'[c].kind = "sock"
          /\ UNCHANGED <<pc, call, dying>> /\ pc \in {"idle", "user"}
       \/ /\ connected(cur) /\ "LISTENING" \in flags[cur] /\ "R" \in fd /\ lib_flags(c)' = {} /\ flags'[c] = {}
          /\ \/ /\ ~attr[cur].ssl /\ attr'[c] = [attr[cur] EXCEPT !.kind = "server", !.listener = cur]
                /\ evts'[c] = <<"ACCEPT">> /\ ~Destroying'
             \/ /\ attr'[c] = [attr[cur] EXCEPT !.kind = "tls", !.listener = cur]
                /\ evts'[c] = <<>> /\ ~Destroying'
             \/ /\ attr'[c] = [NoAttr EXCEPT !.kind = "tls", !.ssl = TRUE]
                /\ evts'[c] = <<"CLOSE">> /\ Destroying' /\ dying' = c

\* What a step may do to the fields of a connection that stays.
LEMMA DataStep ==
    ASSUME Inv, [Next]_vars, NEW c, c \in live, c \in live'
    PROVE  KeptData(c)
<1> USE ConstAssumption
<1>a. c \in Conn /\ live \subseteq Conn /\ attr \in [Conn -> Attr] /\ slen \in [Conn -> Nat]
  BY Zenon DEF Inv, TypeOK, ConnType
<1>b. attr[c] \in Attr /\ slen[c] \in Nat
  BY Zenon, <1>a
<1>1. ASSUME attr'[c] = attr[c], slen'[c] = slen[c] PROVE KeptData(c)
  BY <1>b, <1>1 DEF KeptData
<1>2. ASSUME NEW a \in Conn, NEW t, NEW f, NEW s, new_conn(a, t, f, s) PROVE KeptData(c)
  <2>1. a # c /\ attr' = [attr EXCEPT ![a] = t] /\ slen' = [slen EXCEPT ![a] = 0]
    BY Zenon, <1>2 DEF new_conn
  <2>2. QED
    BY Zenon, <1>1, <1>a, <2>1
<1>3. CASE Application
  <2>1. ASSUME NEW a \in Conn, ns_connect_opt(a) \/ ns_bind_opt(a) PROVE KeptData(c)
    BY <1>2, <2>1, Zenon DEF ns_connect_opt, ns_bind_opt
  <2>2. ASSUME NEW a \in Conn, ns_send(a) PROVE KeptData(c)
    <3>1. attr' = attr /\ slen'[c] >= slen[c]
      BY <1>a, <1>b, <2>2 DEF ns_send
    <3>2. QED
      BY Zenon, <3>1 DEF KeptData
  <2>3. ASSUME NEW a \in Conn, NEW f \in Flag, consume(a) \/ clear_dont_send(a) \/ set_flag(a, f) PROVE KeptData(c)
    BY Zenon, <1>1, <2>3 DEF consume, clear_dont_send, set_flag, connVars
  <2>4. ASSUME NEW a \in Conn, set_limit(a) PROVE KeptData(c)
    <3>1. /\ slen' = slen /\ "limit" \in prog.calls /\ attr' = [attr EXCEPT ![a].limit = Limit]
      BY Zenon, <2>4 DEF set_limit, in_application
    <3>2. attr'[c].kind = attr[c].kind /\ attr'[c].listener = attr[c].listener /\ attr'[c].ssl = attr[c].ssl
      BY Zenon, <1>a, <1>b, <3>1 DEF Attr
    <3>3. QED
      BY <1>b, <3>1, <3>2 DEF KeptData
  <2>5. ASSUME NEW a \in Conn, ns_set_ssl(a) PROVE KeptData(c)
    <3>1. /\ slen' = slen /\ lib_flags(a) \cap {"LISTENING", "CONNECTING"} # {} /\ attr' = [attr EXCEPT ![a].ssl = TRUE]
      BY Zenon, <2>5 DEF ns_set_ssl
    <3>2. attr'[c].kind = attr[c].kind /\ attr'[c].listener = attr[c].listener /\ attr'[c].limit = attr[c].limit
          /\ (a # c => attr'[c].ssl = attr[c].ssl)
      BY Zenon, <1>a, <1>b, <3>1 DEF Attr
    <3>3. QED
      BY <1>b, <3>1, <3>2 DEF KeptData
  <2>6. CASE handler_return
    BY Zenon, <1>1, <2>6 DEF handler_return, connVars
  <2>7. \E f : f \in Flag
    BY Zenon DEF Flag, Lib
  <2>8. QED
    BY Zenon, <1>3, <2>1, <2>2, <2>3, <2>4, <2>5, <2>6, <2>7 DEF Application
<1>4. CASE accept_conn
  <2>1. (\E a \in Conn : \E t, s : new_conn(a, t, {}, s)) \/ UNCHANGED connVars
    BY Zenon, <1>4 DEF accept_conn
  <2>2. QED
    BY Zenon, <1>1, <1>2, <2>1 DEF connVars
<1>5. CASE ns_write_to_socket
  <2>1. attr' = attr /\ (c # cur => slen'[c] = slen[c])
    BY Zenon, <1>5, <1>a DEF ns_write_to_socket
  <2>2. QED
    BY <1>b, <1>5, <2>1 DEF KeptData
<1>6. CASE HandleConnection /\ ~accept_conn /\ ~ns_write_to_socket
  <2>1. UNCHANGED <<attr, slen>>
    BY <1>6, Zenon
    DEF HandleConnection, connecting_wait, connect_done, listener_idle, skip_read, ns_handle_udp, begin_read,
        read_handshake, recv_some, recv_none, write_handshake, poll_event, skip_write, connVars
  <2>2. QED
    BY Zenon, <1>1, <2>1
<1>7. CASE destroy
  <2>1. c # dying
    BY Zenon, <1>7 DEF destroy
  <2>2. QED
    BY Zenon, <1>1, <1>7, <1>a, <2>1 DEF destroy
<1>8. CASE Poll \/ (Loop /\ ~destroy) \/ Kernel \/ UNCHANGED vars
  <2>1. UNCHANGED <<attr, slen>>
    BY <1>8, Zenon
    DEF Poll, ns_mgr_poll, Loop, ns_mgr_handle_ctl_sock, next_event, events_done, loop_next, loop_done, handled,
        sweep_next, sweep_done, sweep_close, sweep_keep, free_next, free_done, connVars, vars,
        Kernel, peer_sends, peer_closes, connect_finishes, becomes_writable, ns_broadcast
  <2>2. QED
    BY <1>1, <2>1
<1>9. QED
  BY Zenon, <1>3, <1>4, <1>5, <1>6, <1>7, <1>8 DEF Next

\* How a new connection starts.
LEMMA BirthStep ==
    ASSUME Inv, [Next]_vars, NEW c, c \notin live, c \in live'
    PROVE  Birth(c)
<1> USE ConstAssumption
<1>a. live \subseteq Conn /\ flags \in [Conn -> SUBSET Flag] /\ evts \in [Conn -> Seq(Life!Event)] /\ attr \in [Conn -> Attr]
      /\ slen \in [Conn -> Nat] /\ reg \in [Conn -> SUBSET {"R", "W"}] /\ call.c \in live \cup {NULL}
  BY Zenon DEF Inv, TypeOK, ConnType, EventType, KernType, NoDanglingCursor
<1>c. c \in Conn /\ c # call.c
  BY Zenon, <1>a, InvStep DEF Inv, TypeOK, ConnType
<1>b. ASSUME NEW a \in Conn, NEW t, NEW f, NEW s, new_conn(a, t, f, s)
      PROVE  a = c /\ slen'[c] = 0 /\ ("W" \in reg'[c] => "CONNECTING" \in f) /\ attr'[c] = t
  BY <1>a, <1>b DEF new_conn, epoll_set_flags
<1>1. CASE Application
  <2>1. ASSUME NEW a \in Conn, NEW name, in_application(name), NEW t \in {NoAttr, [NoAttr EXCEPT !.kind = "client"]}, NEW f,
               new_conn(a, t, f, sk),
               flags' = [flags EXCEPT ![a] = f], evts' = [evts EXCEPT ![a] = <<>>],
               "CONNECTING" \in f <=> t.kind = "client", "LISTENING" \in f => t.kind = "sock", f \subseteq Lib
        PROVE  Birth(c)
    <3>1. UNCHANGED <<pc, call, dying>> /\ pc \in {"idle", "user"}
      BY Zenon, <2>1 DEF in_application
    <3>2. a = c /\ slen'[c] = 0 /\ ("W" \in reg'[c] => "CONNECTING" \in f) /\ attr'[c] = t
      BY Zenon, <1>b, <2>1
    <3>3. lib_flags(c)' = f /\ flags'[c] = f /\ evts'[c] = <<>>
      BY Zenon, <1>a, <1>c, <2>1, <3>1, <3>2 DEF lib_flags
    <3>4. QED
      BY Zenon, <2>1, <3>1, <3>2, <3>3 DEF Birth, Lib
  <2>k. NoAttr.kind = "sock" /\ [NoAttr EXCEPT !.kind = "client"].kind = "client"
    BY Zenon DEF NoAttr
  <2>2. ASSUME NEW a \in Conn, ns_connect_opt(a) PROVE Birth(c)
    <3>1. PICK name \in {"connect", "connect_udp"} :
            LET f == {"CONNECTING"} \cup (IF name = "connect_udp" THEN {"UDP"} ELSE {}) IN
            /\ in_application(name) /\ new_conn(a, [NoAttr EXCEPT !.kind = "client"], f, sk)
            /\ flags' = [flags EXCEPT ![a] = f] /\ evts' = [evts EXCEPT ![a] = <<>>]
      BY Zenon, <2>2 DEF ns_connect_opt
    <3> DEFINE f == {"CONNECTING"} \cup (IF name = "connect_udp" THEN {"UDP"} ELSE {})
    <3>2. "CONNECTING" \in f /\ "LISTENING" \notin f /\ f \subseteq Lib
      BY Zenon DEF Lib
    <3> HIDE DEF f
    <3>3. QED
      BY Zenon, <2>1, <2>k, <3>1, <3>2 DEF f
  <2>3. ASSUME NEW a \in Conn, ns_bind_opt(a) PROVE Birth(c)
    <3>1. PICK name \in {"bind", "bind_udp", "add_sock"}, f \in {{"LISTENING"}, {"UDP"}, {}} :
            /\ in_application(name) /\ new_conn(a, NoAttr, f, sk)
            /\ flags' = [flags EXCEPT ![a] = f] /\ evts' = [evts EXCEPT ![a] = <<>>]
      BY <2>3, Zenon DEF ns_bind_opt
    <3>2. "CONNECTING" \notin f /\ f \subseteq Lib
      BY Zenon DEF Lib
    <3>3. QED
      BY Zenon, <2>1, <2>k, <3>1, <3>2
  <2>4. QED
    BY Zenon, <1>1, <2>2, <2>3 DEF Application, ns_send, consume, clear_dont_send, set_limit, ns_set_ssl, set_flag,
                           handler_return, connVars
<1>2. CASE accept_conn
  <2>1. connected(cur) /\ "LISTENING" \in flags[cur] /\ "R" \in fd /\ pc # "user"
    BY Zenon, <1>2 DEF accept_conn, connected
  <2>2. PICK a \in Conn \ live : \E t, s :
          /\ new_conn(a, t, {}, s)
          /\ \/ ~attr[cur].ssl /\ t = [attr[cur] EXCEPT !.kind = "server", !.listener = cur]
                /\ ns_call(a, {}, <<"ACCEPT">>, "handled")
             \/ t = [attr[cur] EXCEPT !.kind = "tls", !.listener = cur] /\ goto("handled")
                /\ flags' = [flags EXCEPT ![a] = {}] /\ evts' = [evts EXCEPT ![a] = <<>>]
             \/ t = [NoAttr EXCEPT !.kind = "tls", !.ssl = TRUE] /\ ns_call(a, {}, <<"CLOSE">>, "destroy")
    <3>1. ~UNCHANGED connVars
      BY Zenon DEF connVars
    <3>2. QED
      BY <1>2, <3>1, Zenon DEF accept_conn
  <2>3. PICK t, s :
          /\ new_conn(a, t, {}, s)
          /\ \/ ~attr[cur].ssl /\ t = [attr[cur] EXCEPT !.kind = "server", !.listener = cur]
                /\ ns_call(a, {}, <<"ACCEPT">>, "handled")
             \/ t = [attr[cur] EXCEPT !.kind = "tls", !.listener = cur] /\ goto("handled")
                /\ flags' = [flags EXCEPT ![a] = {}] /\ evts' = [evts EXCEPT ![a] = <<>>]
             \/ t = [NoAttr EXCEPT !.kind = "tls", !.ssl = TRUE] /\ ns_call(a, {}, <<"CLOSE">>, "destroy")
    BY Zenon, <2>2
  <2>4. a = c /\ slen'[c] = 0 /\ "W" \notin reg'[c] /\ attr'[c] = t
    BY <1>b, <2>3
  <2>5. ASSUME NEW log, NEW ret, ns_call(a, {}, log, ret)
        PROVE  /\ lib_flags(c)' = {} /\ flags'[c] = {} /\ evts'[c] = log
               /\ pc' = "user" /\ call'.ret = ret /\ (ret = "destroy" => dying' = c)
    BY Zenon, <1>a, <2>1, <2>4, <2>5, LibCall DEF ns_call
  <2>6. ASSUME goto("handled"), flags' = [flags EXCEPT ![a] = {}], evts' = [evts EXCEPT ![a] = <<>>]
        PROVE  lib_flags(c)' = {} /\ flags'[c] = {} /\ evts'[c] = <<>> /\ pc' = "handled"
    BY Zenon, <1>a, <2>1, <2>4, <2>6, LibGoto DEF goto
  <2>7. QED
    BY Zenon, <2>1, <2>3, <2>4, <2>5, <2>6 DEF Birth, Destroying
<1>3. CASE (HandleConnection /\ ~accept_conn) \/ Poll \/ Loop \/ Kernel \/ UNCHANGED vars
  <2>1. live' \subseteq live
    BY <1>3, Zenon
    DEF HandleConnection, connecting_wait, connect_done, listener_idle, skip_read, ns_handle_udp, begin_read,
        read_handshake, recv_some, recv_none, write_handshake, ns_write_to_socket, poll_event, skip_write, connVars,
        Poll, ns_mgr_poll, Loop, ns_mgr_handle_ctl_sock, next_event, events_done, loop_next, loop_done, handled,
        sweep_next, sweep_done, sweep_close, sweep_keep, destroy, free_next, free_done, vars,
        Kernel, peer_sends, peer_closes, connect_finishes, becomes_writable, ns_broadcast
  <2>2. QED
    BY Zenon, <2>1
<1>4. QED
  BY Zenon, <1>1, <1>2, <1>3 DEF Next

\* The thread reads from or writes to cur, or is in a handler called from there.
Reading == pc \in {"recv", "write"} \/ (pc = "user" /\ call.ret \in {"recv", "write"})

\* A step that reads or writes was at it before, or starts on a connected
\* socket that is not a listener.
LEMMA ReadingStep ==
    ASSUME Inv, [Next]_vars, Reading'
    PROVE  cur' = cur /\ (Reading \/ plain(cur)) /\ cur \in live /\ cur \in live'
<1>a. pc # "user" => call = NoCall
  BY Zenon DEF Inv, Control
<1>1. CASE Application
  <2>1. ASSUME handler_return PROVE cur' = cur /\ Reading
    BY Zenon, <2>1 DEF handler_return, loopVars, Reading, NoCall
  <2>2. ASSUME NEW name, in_application(name) PROVE cur' = cur /\ Reading
    BY Zenon, <2>2 DEF in_application, loopVars, Reading
  <2>3. cur' = cur /\ Reading
    BY Zenon, <1>1, <2>1, <2>2
    DEF Application, ns_connect_opt, ns_bind_opt, ns_send, consume, clear_dont_send, set_limit, ns_set_ssl, set_flag
  <2>4. live \subseteq live'
    BY Zenon, <1>1 DEF Application, ns_connect_opt, ns_bind_opt, new_conn, ns_send, consume, clear_dont_send, set_limit,
                ns_set_ssl, set_flag, handler_return, connVars
  <2>5. QED
    BY Zenon, <2>3, <2>4 DEF Inv, NoDanglingCursor, Reading
<1>2. CASE HandleConnection
  <2>1. cur' = cur /\ pc \in {"handle", "recv", "write"}
    BY <1>2, Zenon
    DEF HandleConnection, connecting_wait, connect_done, listener_idle, accept_conn, skip_read, ns_handle_udp, begin_read,
        read_handshake, recv_some, recv_none, write_handshake, ns_write_to_socket, poll_event, skip_write, connected, plain,
        loopVars
  <2>2. live \subseteq live'
    <3>1. CASE accept_conn
      BY Zenon, <3>1 DEF accept_conn, new_conn, connVars
    <3>2. CASE ~accept_conn
      BY <1>2, <3>2, Zenon
      DEF HandleConnection, connecting_wait, connect_done, listener_idle, skip_read, ns_handle_udp, begin_read,
        read_handshake, recv_some, recv_none, write_handshake, ns_write_to_socket, poll_event, skip_write, connVars
    <3>3. QED
      BY Zenon, <3>1, <3>2
  <2>3. CASE connecting_wait \/ listener_idle
    BY Zenon, <2>3 DEF connecting_wait, listener_idle, goto, Reading
  <2>4. CASE connect_done
    <3>1. pc' = "user" /\ call'.ret = "handled"
      BY <2>4 DEF connect_done, ns_call
    <3>2. QED
      BY Zenon, <3>1 DEF Reading
  <2>5. CASE accept_conn
    <3>1. pc' = "handled" \/ (pc' = "user" /\ call'.ret \in {"handled", "destroy"})
      BY <2>5 DEF accept_conn, ns_call, goto
    <3>2. QED
      BY Zenon, <3>1 DEF Reading
  <2>6. Reading \/ plain(cur)
    BY <1>2, <2>1, <2>3, <2>4, <2>5, Zenon
    DEF HandleConnection, skip_read, ns_handle_udp, begin_read, read_handshake, recv_some, recv_none, write_handshake,
        ns_write_to_socket, poll_event, skip_write, Reading
  <2>7. QED
    BY Zenon, <2>1, <2>2, <2>6 DEF Inv, NoDanglingCursor
<1>3. CASE Poll \/ Loop
  <2>1. CASE sweep_close \/ free_next
    <3>1. pc' = "destroy" \/ (pc' = "user" /\ call'.ret = "destroy")
      BY <2>1 DEF sweep_close, free_next, ns_close_conn, ns_call
    <3>2. QED
      BY Zenon, <3>1 DEF Reading
  <2>2. CASE ns_mgr_handle_ctl_sock
    BY <2>2 DEF ns_mgr_handle_ctl_sock, Reading
  <2>3. CASE handled \/ destroy
    <3>1. phase \notin {"recv", "write", "user"}
      BY Zenon DEF Inv, TypeOK, LoopType
    <3>2. QED
      BY Zenon, <2>3, <3>1 DEF handled, destroy, goto, Reading
  <2>4. CASE Poll \/ (\E c \in Conn : next_event(c)) \/ events_done \/ loop_next \/ loop_done \/ sweep_next
             \/ sweep_done \/ sweep_keep \/ free_done
    <3>1. pc' \notin {"recv", "write", "user"}
      BY Zenon, <2>4 DEF Poll, ns_mgr_poll, next_event, events_done, loop_next, loop_done, sweep_next, sweep_done, sweep_keep,
                free_done, goto
    <3>2. QED
      BY Zenon, <3>1 DEF Reading
  <2>5. QED
    BY Zenon, <1>3, <2>1, <2>2, <2>3, <2>4 DEF Loop
<1>4. CASE Kernel \/ UNCHANGED vars
  <2>1. UNCHANGED <<pc, call, cur, live>>
    BY Zenon, <1>4 DEF Kernel, peer_sends, peer_closes, connect_finishes, becomes_writable, ns_broadcast, vars, loopVars, connVars
  <2>2. QED
    BY Zenon, <2>1 DEF Inv, NoDanglingCursor, Reading
<1>5. QED
  BY Zenon, <1>1, <1>2, <1>3, <1>4 DEF Next

\* A handler takes no flag off its own connection but NSF_DONT_SEND.
LEMMA OwnFlagsStep ==
    ASSUME Inv, Places, [Next]_vars, call'.c # NULL
    PROVE  call'.before \ {"DONT_SEND"} \subseteq flags'[call'.c]
<1> USE ConstAssumption
<1>a. flags \in [Conn -> SUBSET Flag] /\ call.c \in live \cup {NULL} /\ live \subseteq Conn
  BY Zenon DEF Inv, TypeOK, EventType, ConnType, NoDanglingCursor
<1>u. pc' = "user"
  <2>1. Inv'
    BY Zenon, InvStep
  <2>2. pc' # "user" => call' = NoCall
    BY Zenon, <2>1 DEF Inv, Control
  <2>3. QED
    BY <2>2 DEF NoCall
<1>b. ASSUME NEW a \in Conn, NEW f, NEW log, NEW ret, ns_call(a, f, log, ret)
      PROVE  call'.before \ {"DONT_SEND"} \subseteq flags'[call'.c]
  BY Zenon, <1>a, <1>b DEF ns_call
<1>1. CASE Application
  <2>1. ASSUME NEW name, in_application(name) PROVE call' = call
    BY Zenon, <2>1 DEF in_application
  <2>2. ASSUME NEW a \in Conn, ns_connect_opt(a) \/ ns_bind_opt(a)
        PROVE  call' = call /\ flags'[call.c] = flags[call.c]
    <3>1. call' = call /\ a \notin live /\ \E f : flags' = [flags EXCEPT ![a] = f]
      BY Zenon, <2>1, <2>2 DEF ns_connect_opt, ns_bind_opt, new_conn
    <3>2. QED
      BY Zenon, <1>a, <3>1
  <2>3. ASSUME NEW a \in Conn, NEW f \in Flag,
               ns_send(a) \/ consume(a) \/ set_limit(a) \/ ns_set_ssl(a) \/ clear_dont_send(a) \/ set_flag(a, f)
        PROVE  call' = call /\ flags[call.c] \ {"DONT_SEND"} \subseteq flags'[call.c]
    BY Zenon, <1>a, <1>u, <2>1, <2>3 DEF ns_send, consume, set_limit, ns_set_ssl, clear_dont_send, set_flag
  <2>4. ~handler_return
    BY <1>u DEF handler_return, NoCall
  <2>5. \E f : f \in Flag
    BY Zenon DEF Flag, Lib
  <2>6. call' = call /\ flags[call.c] \ {"DONT_SEND"} \subseteq flags'[call.c]
    BY Zenon, <1>1, <2>2, <2>3, <2>4, <2>5 DEF Application
  <2>7. QED
    BY Zenon, <2>6 DEF Places
<1>2. CASE HandleConnection
  <2>1. pc # "user" /\ cur \in Conn
    BY Zenon, <1>2, <1>a DEF HandleConnection, connecting_wait, connect_done, listener_idle, accept_conn, skip_read, ns_handle_udp,
       begin_read, read_handshake, recv_some, recv_none, write_handshake, ns_write_to_socket, poll_event, skip_write,
       connected, plain, Inv, NoDanglingCursor
  <2>2. ASSUME NEW l, goto(l) PROVE FALSE
    BY <1>u, <2>1, <2>2 DEF goto, Inv, Control, NoCall
  <2>3. \E a \in Conn : \E f, log, ret : ns_call(a, f, log, ret)
    BY <1>2, <2>1, <2>2, Zenon
    DEF HandleConnection, connecting_wait, connect_done, listener_idle, accept_conn, skip_read, ns_handle_udp, begin_read,
        read_handshake, recv_some, recv_none, write_handshake, ns_write_to_socket, poll_event, skip_write, handshake
  <2>4. QED
    BY Zenon, <1>b, <2>3
<1>3. CASE Kernel \/ UNCHANGED vars
  BY Zenon, <1>3 DEF Kernel, peer_sends, peer_closes, connect_finishes, becomes_writable, ns_broadcast, vars, Places
<1>4. CASE Poll \/ Loop
  <2>0. phase # "user"
    BY Zenon DEF Inv, TypeOK, LoopType
  <2>1. CASE sweep_close \/ free_next
    <3>1. PICK a \in Conn : ns_close_conn(a)
      BY Zenon, <2>1, <1>a DEF sweep_close, free_next, Inv, NoDanglingCursor
    <3>2. QED
      BY Zenon, <1>u, <1>b, <3>1 DEF ns_close_conn
  <2>2. CASE ns_mgr_handle_ctl_sock
    BY Zenon, <2>2 DEF ns_mgr_handle_ctl_sock, NoCall
  <2>3. CASE ~(sweep_close \/ free_next \/ ns_mgr_handle_ctl_sock)
    BY Zenon, <1>4, <1>u, <2>0, <2>3 DEF Poll, ns_mgr_poll, Loop, next_event, events_done, loop_next, loop_done, handled, sweep_next,
       sweep_done, sweep_keep, destroy, free_done, goto
  <2>4. QED
    BY Zenon, <2>1, <2>2, <2>3
<1>5. QED
  BY Zenon, <1>1, <1>2, <1>3, <1>4 DEF Next

\* Steps keep Places.
LEMMA PlacesStep == Inv /\ Places /\ [Next]_vars => Places'
<1> SUFFICES ASSUME Inv, Places, [Next]_vars PROVE Places'
  BY Zenon
<1>1. (call.c # NULL => call.before \ {"DONT_SEND"} \subseteq flags[call.c])'
  BY Zenon, OwnFlagsStep
<1>2. ASSUME NEW c \in live', "LISTENING" \in lib_flags(c)' PROVE "CONNECTING" \notin lib_flags(c)'
  <2>1. CASE c \in live
    BY Zenon, <1>2, <2>1, FlagsStep DEF KeptFlags, Places
  <2>2. CASE c \notin live
    <3>1. Birth(c)
      BY Zenon, <2>2, BirthStep
    <3>2. QED
      BY Zenon, <1>2, <3>1 DEF Birth
  <2>3. QED
    BY Zenon, <2>1, <2>2
<1>3. ASSUME Reading' PROVE lib_flags(cur)' \cap {"LISTENING", "CONNECTING"} = {}
  <2>1. cur' = cur /\ (Reading \/ plain(cur)) /\ cur \in live /\ cur \in live'
    BY Zenon, <1>3, ReadingStep
  <2>2. lib_flags(cur) \cap {"LISTENING", "CONNECTING"} = {}
    <3>1. CASE Reading
      BY Zenon, <3>1 DEF Reading, Places
    <3>2. CASE plain(cur)
      <4>1. lib_flags(cur) = flags[cur]
        BY Zenon, <2>1, <3>2, LibIsFlags DEF plain, connected, Inv, TypeOK, ConnType
      <4>2. QED
        BY Zenon, <3>2, <4>1 DEF plain, connected
    <3>3. QED
      BY Zenon, <2>1, <3>1, <3>2
  <2>3. ASSUME NEW c, c = cur PROVE lib_flags(c)' \cap {"LISTENING", "CONNECTING"} = {}
    <3>1. KeptFlags(c) /\ lib_flags(c) \cap {"LISTENING", "CONNECTING"} = {}
      BY Zenon, <2>1, <2>2, <2>3, FlagsStep
    <3>2. QED
      BY Zenon, <3>1 DEF KeptFlags
  <2>4. QED
    BY Zenon, <2>1, <2>3 DEF lib_flags
<1>4. QED
  BY Zenon, <1>1, <1>2, <1>3 DEF Places, Reading

\* Where the thread is and what it knows of flags, in every reachable state.
THEOREM FlagsInvariance == Spec => [](Inv /\ Where /\ Places)
<1>1. Init => Places
  BY DEF Init, Places, NoCall
<1>2. QED
  BY <1>1, WalkInvariance, PlacesStep, PTL DEF Spec

-----------------------------------------------------------------------------

\* Which event the handler of c is told in a step, and why.
Told(c, e) ==
    \/ /\ e = "CONNECT_ERR" /\ connect_done /\ c = cur
       /\ "CLOSE_IMMEDIATELY" \in flags'[c] /\ "CONNECTING" \in lib_flags(c)'
    \/ e = "CONNECT_OK" /\ connect_done /\ c = cur /\ "CONNECTING" \notin lib_flags(c)'
    \/ /\ e = "ACCEPT" /\ c = cur /\ (plain(cur) \/ pc = "write") /\ attr[c].listener # NULL /\ attr[c].ssl
       /\ "SSL_HANDSHAKE_DONE" \notin flags[c] /\ "SSL_HANDSHAKE_DONE" \in lib_flags(c)'
    \/ e = "IO" /\ c = cur /\ (plain(cur) \/ pc \in {"recv", "write"})
    \/ /\ e = "CLOSE" /\ "CONNECTING" \notin flags[c] /\ Destroying' /\ dying' = c
       /\ (sweep_close /\ c = cur) \/ (free_next /\ c = nxt)

\* When connect() has finished, the handler is told the result.
LEMMA ConnectEvents ==
    ASSUME Inv, connect_done, NEW c, c = cur
    PROVE  \E e \in {"CONNECT_OK", "CONNECT_ERR"} : evts'[c] = Life!Log(evts[c], e) /\ Told(c, e)
<1>1. pc # "user" /\ c \in Conn /\ "CONNECTING" \in flags[c] /\ evts \in [Conn -> Seq(Life!Event)]
  BY Zenon DEF connect_done, Inv, NoDanglingCursor, TypeOK, ConnType, EventType
<1>2. \/ ns_call(c, flags[c] \cup {"CLOSE_IMMEDIATELY"}, Life!Log(evts[c], "CONNECT_ERR"), "handled")
      \/ \E f0 : ns_call(c, f0 \ {"CONNECTING"}, Life!Log(evts[c], "CONNECT_OK"), "handled")
  BY Zenon DEF connect_done
<1>3. ASSUME NEW f, NEW log, NEW ret, ns_call(c, f, log, ret)
      PROVE  lib_flags(c)' = f /\ flags'[c] = f /\ evts'[c] = log
  BY Zenon, <1>1, <1>3, LibCall DEF ns_call
<1>4. CASE ns_call(c, flags[c] \cup {"CLOSE_IMMEDIATELY"}, Life!Log(evts[c], "CONNECT_ERR"), "handled")
  <2>1. lib_flags(c)' = flags[c] \cup {"CLOSE_IMMEDIATELY"} /\ flags'[c] = flags[c] \cup {"CLOSE_IMMEDIATELY"}
        /\ evts'[c] = Life!Log(evts[c], "CONNECT_ERR")
    BY Zenon, <1>3, <1>4
  <2>2. QED
    BY Zenon, <1>1, <2>1 DEF Told
<1>5. CASE \E f0 : ns_call(c, f0 \ {"CONNECTING"}, Life!Log(evts[c], "CONNECT_OK"), "handled")
  <2>1. "CONNECTING" \notin lib_flags(c)' /\ evts'[c] = Life!Log(evts[c], "CONNECT_OK")
    BY Zenon, <1>3, <1>5
  <2>2. QED
    BY Zenon, <2>1 DEF Told
<1>6. QED
  BY Zenon, <1>2, <1>4, <1>5

\* The events of a connection that stays: none, or one more.
LEMMA EventsStep ==
    ASSUME Inv, [Next]_vars, NEW c, c \in live, c \in live'
    PROVE  evts'[c] = evts[c] \/ \E e \in Life!Event : evts'[c] = Life!Log(evts[c], e) /\ Told(c, e)
<1> USE ConstAssumption
<1>a. live \subseteq Conn /\ c \in Conn /\ flags \in [Conn -> SUBSET Flag] /\ evts \in [Conn -> Seq(Life!Event)]
  BY Zenon DEF Inv, TypeOK, ConnType, EventType
<1>b. {"CONNECT_OK", "CONNECT_ERR", "ACCEPT", "IO", "CLOSE"} \subseteq Life!Event
  BY Zenon DEF Life!Event
<1>c. ASSUME NEW a \in Conn, NEW f, NEW log, NEW ret, ns_call(a, f, log, ret)
      PROVE  (a # c => evts'[c] = evts[c]) /\ (a = c => evts'[c] = log)
  BY Zenon, <1>a, <1>c DEF ns_call
<1>d. ASSUME NEW a \in Conn, NEW f, NEW log, NEW ret, ns_call(a, f, log, ret), pc # "user"
      PROVE  lib_flags(a)' = f /\ flags'[a] = f
  BY Zenon, <1>d, LibCall
<1>1. CASE Application
  <2>1. ASSUME NEW a \in Conn, ns_connect_opt(a) \/ ns_bind_opt(a) PROVE evts'[c] = evts[c]
    <3>1. a \notin live /\ evts' = [evts EXCEPT ![a] = <<>>]
      BY Zenon, <2>1 DEF ns_connect_opt, ns_bind_opt, new_conn
    <3>2. QED
      BY Zenon, <1>a, <3>1
  <2>2. QED
    BY Zenon, <1>1, <2>1 DEF Application, ns_send, consume, clear_dont_send, set_limit, ns_set_ssl, set_flag, handler_return
<1>2. CASE accept_conn
  <2>1. \A a \in Conn \ live : evts' = [evts EXCEPT ![a] = <<>>] => evts'[c] = evts[c]
    BY Zenon, <1>a
  <2>2. QED
    BY Zenon, <1>2, <1>c, <2>1 DEF accept_conn, quiet
<1>3. CASE connecting_wait \/ listener_idle \/ skip_read \/ begin_read \/ skip_write \/ recv_none
  BY Zenon, <1>3 DEF connecting_wait, listener_idle, skip_read, begin_read, skip_write, recv_none, quiet
<1>4. CASE connect_done
  <2>1. cur \in Conn /\ \E f, log, ret : ns_call(cur, f, log, ret)
    BY Zenon, <1>4, <1>a DEF connect_done, Inv, NoDanglingCursor
  <2>2. CASE c # cur
    BY Zenon, <1>c, <2>1, <2>2
  <2>3. CASE c = cur
    BY Zenon, <1>4, <1>b, <2>3, ConnectEvents
  <2>4. QED
    BY Zenon, <2>2, <2>3
<1>5. CASE read_handshake \/ write_handshake
  <2>1. /\ cur \in Conn /\ attr[cur].ssl /\ "SSL_HANDSHAKE_DONE" \notin flags[cur] /\ pc # "user"
        /\ plain(cur) \/ pc = "write"
    BY Zenon, <1>5, <1>a DEF read_handshake, write_handshake, plain, connected, encrypted, Inv, NoDanglingCursor
  <2>2. \/ evts' = evts
        \/ \E ret : /\ attr[cur].listener # NULL
                    /\ ns_call(cur, ns_ssl_begin(flags[cur], "done"), Life!Log(evts[cur], "ACCEPT"), ret)
    BY <1>5, Zenon DEF read_handshake, write_handshake, handshake
  <2>3. "SSL_HANDSHAKE_DONE" \in ns_ssl_begin(flags[cur], "done")
    BY Zenon DEF ns_ssl_begin
  <2>4. ASSUME c = cur, attr[cur].listener # NULL, NEW ret,
               ns_call(cur, ns_ssl_begin(flags[cur], "done"), Life!Log(evts[cur], "ACCEPT"), ret)
        PROVE  evts'[c] = Life!Log(evts[c], "ACCEPT") /\ Told(c, "ACCEPT")
    <3>1. evts'[c] = Life!Log(evts[c], "ACCEPT") /\ "SSL_HANDSHAKE_DONE" \in lib_flags(c)'
      BY Zenon, <1>c, <1>d, <2>1, <2>3, <2>4
    <3>2. QED
      BY Zenon, <2>1, <2>4, <3>1 DEF Told
  <2>5. QED
    BY Zenon, <1>b, <1>c, <2>1, <2>2, <2>4
<1>6. CASE ns_handle_udp \/ recv_some \/ ns_write_to_socket \/ poll_event
  <2>1. cur \in Conn /\ (plain(cur) \/ pc \in {"recv", "write"})
    BY Zenon, <1>6, <1>a DEF ns_handle_udp, recv_some, ns_write_to_socket, poll_event, plain, connected, Inv, NoDanglingCursor
  <2>2. evts' = evts \/ \E f, ret : ns_call(cur, f, Life!Log(evts[cur], "IO"), ret)
    BY <1>6, Zenon DEF ns_handle_udp, recv_some, ns_write_to_socket, poll_event, quiet
  <2>3. evts'[c] = evts[c] \/ (c = cur /\ evts'[c] = Life!Log(evts[c], "IO"))
    BY Zenon, <1>c, <2>1, <2>2
  <2>4. c = cur => Told(c, "IO")
    BY Zenon, <2>1 DEF Told
  <2>5. QED
    BY Zenon, <1>b, <2>3, <2>4
<1>7. CASE sweep_close \/ free_next
  <2>1. PICK a \in Conn : ns_close_conn(a) /\ pc # "user" /\ ((sweep_close /\ a = cur) \/ (free_next /\ a = nxt))
    BY Zenon, <1>7, <1>a DEF sweep_close, free_next, Inv, NoDanglingCursor
  <2>2. CASE "CONNECTING" \in flags[a]
    BY Zenon, <2>1, <2>2 DEF ns_close_conn, quiet
  <2>3. CASE "CONNECTING" \notin flags[a]
    <3>1. ns_call(a, flags[a], Life!Log(evts[a], "CLOSE"), "destroy")
      BY Zenon, <2>1, <2>3 DEF ns_close_conn
    <3>2. Destroying' /\ dying' = a
      BY Zenon, <3>1 DEF ns_call, Destroying
    <3>3. a = c => Told(c, "CLOSE")
      BY Zenon, <2>1, <2>3, <3>2 DEF Told
    <3>4. QED
      BY Zenon, <1>b, <1>c, <3>1, <3>3
  <2>4. QED
    BY Zenon, <2>2, <2>3
<1>8. CASE destroy
  BY Zenon, <1>8, <1>a DEF destroy
<1>9. CASE Kernel \/ UNCHANGED vars \/ Poll \/ ns_mgr_handle_ctl_sock \/ (\E a \in Conn : next_event(a)) \/ events_done
           \/ loop_next \/ loop_done \/ handled \/ sweep_next \/ sweep_done \/ sweep_keep \/ free_done
  <2>1. evts' = evts
    BY <1>9, Zenon
    DEF Kernel, peer_sends, peer_closes, connect_finishes, becomes_writable, ns_broadcast, vars, Poll, ns_mgr_poll,
        ns_mgr_handle_ctl_sock, next_event, events_done, loop_next, loop_done, handled, sweep_next, sweep_done,
        sweep_keep, free_done, quiet
  <2>2. QED
    BY Zenon, <2>1
<1>10. QED
  BY Zenon, <1>1, <1>2, <1>3, <1>4, <1>5, <1>6, <1>7, <1>8, <1>9 DEF Next, HandleConnection, Loop

-----------------------------------------------------------------------------
(* The end of a connection, and writing.                                   *)

\* NSF_CLOSE_IMMEDIATELY is only ever lost by ns_handle_udp().
LEMMA CloseKept ==
    ASSUME Inv, [Next]_vars, NEW c, c \in live, c \in live', "CLOSE_IMMEDIATELY" \in flags[c],
           "UDP" \notin flags[c] \/ ~plain(c)
    PROVE  "CLOSE_IMMEDIATELY" \in flags'[c]
<1>a. c \in Conn /\ live \subseteq Conn /\ flags \in [Conn -> SUBSET Flag]
  BY Zenon DEF Inv, TypeOK, ConnType, EventType
<1>1. CASE accept_conn \/ Poll \/ Loop \/ Kernel \/ UNCHANGED vars
  BY Zenon, <1>1, OtherFlags
<1>2. CASE Application
  <2>1. ASSUME NEW a \in Conn, ns_connect_opt(a) \/ ns_bind_opt(a) PROVE flags'[c] = flags[c]
    <3>1. a \notin live /\ \E f : flags' = [flags EXCEPT ![a] = f]
      BY Zenon, <2>1 DEF ns_connect_opt, ns_bind_opt, new_conn
    <3>2. QED
      BY Zenon, <1>a, <3>1
  <2>2. CASE handler_return
    BY Zenon, <1>a, <2>2 DEF handler_return, masked, User
  <2>3. QED
    BY Zenon, <1>2, <1>a, <2>1, <2>2
    DEF Application, ns_send, consume, clear_dont_send, set_limit, ns_set_ssl, set_flag
<1>3. CASE HandleConnection /\ ~accept_conn
  <2>1. PICK g \in SUBSET Flag : FlagsTo(g) /\ (g = flags[cur] \/ Mild(flags[cur], g) \/ ("UDP" \in flags[cur] /\ plain(cur)))
    BY Zenon, <1>3, HandleFlags DEF ns_handle_udp
  <2>2. flags'[c] = IF c = cur THEN g ELSE flags[c]
    BY Zenon, <1>a, <2>1 DEF FlagsTo
  <2>3. QED
    BY Zenon, <2>1, <2>2 DEF Mild
<1>4. QED
  BY Zenon, <1>1, <1>2, <1>3 DEF Next

\* net.c:96-103, 725, 932.  A request to close a TCP connection survives the
\* masking at the end of ns_call(), SSL errors and the connect result.
THEOREM CloseRequestStays == Spec => CloseRequestKept
<1>1. ASSUME Inv, [Next]_vars, NEW c \in live \cap live', "CLOSE_IMMEDIATELY" \in flags[c], "UDP" \notin flags[c]
      PROVE  "CLOSE_IMMEDIATELY" \in flags'[c]
  BY Zenon, <1>1, CloseKept
<1>2. Inv /\ [Next]_vars => [\A c \in live \cap live' :
          "CLOSE_IMMEDIATELY" \in flags[c] /\ "UDP" \notin flags[c] => "CLOSE_IMMEDIATELY" \in flags'[c]]_vars
  BY Zenon, <1>1
<1>3. QED
  BY <1>2, Invariance, PTL DEF Spec, CloseRequestKept

-----------------------------------------------------------------------------

\* If the program closes no listener itself: a listener is alive and in the
\* list behind every connection it accepted (which was pushed at the head
\* while the listener was in the list), nobody has asked a listener to close,
\* and none is destroyed while a connection still points to it.
Listeners ==
    "close_listener" \notin prog.calls =>
       /\ \A c \in live : attr[c].listener # NULL =>
             /\ attr[c].listener \in live \ {c} /\ "LISTENING" \in lib_flags(attr[c].listener)
             /\ Reach(live, next, c, attr[c].listener)
       /\ \A c \in live : "LISTENING" \in lib_flags(c) => flags[c] \cap {"CLOSE_IMMEDIATELY", "SEND_AND_CLOSE"} = {}
       /\ Destroying /\ phase # "free" => "LISTENING" \notin lib_flags(dying)
       /\ Destroying => \A c \in live : attr[c].listener # dying

\* The last loop of ns_mgr_free(): a connection is in front of it, is being
\* destroyed, or was opened meanwhile.
Freeing ==
    phase = "free" =>
       \A c \in live : Ahead(c) \/ (Destroying /\ c = dying) \/ (evts[c] = <<>> /\ attr[c].listener = NULL)

\* The program does not change, nor does the order of the connections that stay.
LEMMA OrderKept ==
    ASSUME Inv, [Next]_vars
    PROVE  /\ prog' = prog
           /\ \A c \in live \cap live' : \A p \in (live \cap live') \cup {NULL} :
                 Reach(live', next', p, c) <=> Reach(live, next, p, c)
<1>1. CASE Stay \/ (\E a \in Conn : Grow(a)) \/ destroy
  <2>1. prog' = prog
    BY Zenon, <1>1 DEF Stay, Grow, Onward, walkVars, destroy, loopVars
  <2>2. ASSUME NEW c \in live \cap live', NEW p \in (live \cap live') \cup {NULL}
        PROVE  Reach(live', next', p, c) <=> Reach(live, next, p, c)
    BY Zenon, <1>1, <2>2, ReachKept
  <2>3. QED
    BY Zenon, <2>1, <2>2
<1>2. CASE ~(Stay \/ (\E a \in Conn : Grow(a)) \/ destroy)
  <2>1. Poll \/ (\E c \in Conn : next_event(c)) \/ events_done \/ loop_next \/ loop_done \/ handled \/ sweep_next
        \/ sweep_done \/ sweep_keep \/ free_next \/ free_done
    BY Zenon, <1>2, Moves
  <2>2. UNCHANGED <<prog, live, next>>
    BY <2>1, Zenon
    DEF Poll, ns_mgr_poll, next_event, events_done, loop_next, loop_done, handled, sweep_next, sweep_done, sweep_keep,
        free_next, free_done, loopVars, connVars, listVars
  <2>3. QED
    BY Zenon, <2>2
<1>3. QED
  BY Zenon, <1>1, <1>2

\* A connection accepted on cur is in front of it in the list.
LEMMA AcceptedInFront ==
    ASSUME Inv, [Next]_vars, cur \in live, NEW c, c \notin live, c \in live'
    PROVE  Reach(live', next', c, cur)
<1> USE ConstAssumption
<1>1. Inv' /\ Inv
  BY Zenon, InvStep
<1>2. live \subseteq Conn /\ live' \subseteq Conn /\ next \in [Conn -> Ptr]
  BY Zenon, <1>1 DEF Inv, TypeOK, ConnType, ListType
<1>3. PICK a \in Conn : Grow(a)
  <2>1. CASE Stay \/ destroy
    BY Zenon, <2>1 DEF Stay, destroy
  <2>2. CASE Poll \/ (\E a \in Conn : next_event(a)) \/ events_done \/ loop_next \/ loop_done \/ handled \/ sweep_next
        \/ sweep_done \/ sweep_keep \/ free_next \/ free_done
    <3>1. live' = live
      BY <2>2, Zenon DEF Poll, ns_mgr_poll, next_event, events_done, loop_next, loop_done, handled, sweep_next, sweep_done,
         sweep_keep, free_next, free_done, connVars
    <3>2. QED
      BY Zenon, <3>1
  <2>3. QED
    BY Zenon, <2>1, <2>2, Moves
<1>4. a = c /\ live' = live \cup {c} /\ next'[c] = head /\ \A d \in live : next'[d] = next[d]
  BY Zenon, <1>2, <1>3 DEF Grow, ns_add_conn
<1>5. head \in live /\ Reach(live, next, head, cur) /\ \A d \in live : next[d] \in live \cup {NULL}
  BY Zenon, <1>1, ReachHead DEF Inv, ListOK
<1>6. Reach(live', next', head, cur)
  <2>1. NULL \notin live
    BY Zenon, <1>2
  <2>2. QED
    BY Zenon, <1>4, <1>5, <2>1, ReachAdd
<1>7. ASSUME NEW S \in SUBSET live', c \in S, \A d \in S : next'[d] \in S \cup {NULL} PROVE cur \in S
  <2>1. head \in S
    BY Zenon, <1>2, <1>4, <1>5, <1>7
  <2>2. QED
    BY Zenon, <1>6, <1>7, <2>1 DEF Reach
<1>8. c # NULL
  BY Zenon, <1>2
<1>9. QED
  BY Zenon, <1>7, <1>8 DEF Reach

\* In the last loop of ns_mgr_free() nothing is handled.
LEMMA NothingHandled ==
    ASSUME Inv, phase = "free"
    PROVE  ~Handling
BY Zenon DEF Inv, Control

\* Steps keep Freeing.
LEMMA FreeingStep == Inv /\ Where /\ Freeing /\ [Next]_vars => Freeing'
<1> SUFFICES ASSUME Inv, Where, Freeing, [Next]_vars, phase' = "free", NEW c \in live'
             PROVE  (Ahead(c) \/ (Destroying /\ c = dying) \/ (evts[c] = <<>> /\ attr[c].listener = NULL))'
  BY Zenon DEF Freeing
<1> USE ConstAssumption
<1>a. nxt \in live \cup {NULL} /\ (Destroying => dying \in live \ {nxt}) /\ live \subseteq Conn
  BY Zenon DEF Inv, NoDanglingCursor, Destroying, TypeOK, ConnType
<1>1. CASE Stay \/ (\E a \in Conn : Grow(a)) \/ destroy
  <2>1. phase = "free" /\ nxt' = nxt /\ (c \in live => (Reach(live', next', nxt, c) <=> Ahead(c)))
    <3>1. phase = "free" /\ nxt' = nxt
      BY Zenon, <1>1 DEF Stay, Grow, Onward, walkVars, destroy, loopVars
    <3>2. nxt \in (live \cap live') \cup {NULL}
      BY Zenon, <1>1, <1>a DEF Stay, Grow, destroy, Destroying
    <3>3. QED
      BY Zenon, <3>1, <3>2, OrderKept DEF Ahead
  <2>2. CASE c \in live
    <3>1. Ahead(c) => Ahead(c)'
      BY Zenon, <2>1, <2>2 DEF Ahead
    <3>2. Destroying /\ c = dying => (Destroying /\ c = dying)'
      <4>1. destroy => c # dying
        BY Zenon DEF destroy
      <4>2. QED
        BY Zenon, <4>1, DyingStep DEF Inv
    <3>3. evts[c] = <<>> /\ attr[c].listener = NULL =>
             (evts[c] = <<>> /\ attr[c].listener = NULL)' \/ (Destroying /\ c = dying)'
      <4>1. attr'[c].listener = attr[c].listener
        BY Zenon, <2>2, DataStep DEF KeptData
      <4>2. ~(pc \in {"handle", "recv", "write", "tail"})
        BY Zenon, <2>1, NothingHandled DEF Handling
      <4>3. evts'[c] = evts[c] \/ (Destroying' /\ dying' = c)
        BY Zenon, <2>2, <4>2, EventsStep DEF Told, connect_done, plain, connected
      <4>4. QED
        BY Zenon, <4>1, <4>3
    <3>4. QED
      BY Zenon, <2>1, <2>2, <3>1, <3>2, <3>3 DEF Freeing
  <2>3. CASE c \notin live
    <3>1. Birth(c) /\ ~connected(cur)
      BY Zenon, <2>1, <2>3, BirthStep, NothingHandled DEF Handling, connected
    <3>2. evts'[c] = <<>> /\ attr'[c].listener = NULL
      BY <3>1 DEF Birth, NoAttr
    <3>3. QED
      BY Zenon, <3>2
  <2>4. QED
    BY Zenon, <2>2, <2>3
<1>2. CASE sweep_done
  <2>1. nxt' = head /\ UNCHANGED <<live, next>>
    BY Zenon, <1>2 DEF sweep_done, connVars, listVars
  <2>2. Reach(live, next, head, c)
    BY Zenon, <2>1, ReachHead DEF Inv
  <2>3. QED
    BY Zenon, <2>1, <2>2 DEF Ahead
<1>3. CASE free_next
  <2>1. /\ pc = "free" /\ nxt # NULL /\ ns_close_conn(nxt) /\ UNCHANGED <<live, next, attr, phase>> /\ nxt' = next[nxt]
    BY Zenon, <1>3 DEF free_next, connVars, listVars
  <2>2. Destroying' /\ dying' = nxt
    BY <2>1 DEF ns_close_conn, ns_call, Destroying
  <2>3. CASE c = nxt
    BY Zenon, <2>2, <2>3
  <2>4. CASE c # nxt
    <3>1. Ahead(c) => Reach(live, next, next[nxt], c)
      BY Zenon, <1>a, <2>1, <2>4, ReachNext DEF Ahead
    <3>2. evts'[c] = evts[c]
      BY Zenon, <2>1, <2>4, <1>3, EventsStep DEF Told, connect_done, plain, connected, sweep_close
    <3>3. ~Destroying
      BY Zenon, <2>1 DEF Destroying
    <3>4. QED
      BY Zenon, <2>1, <3>1, <3>2, <3>3 DEF Freeing, Ahead
  <2>5. QED
    BY Zenon, <2>3, <2>4
<1>4. CASE free_done
  <2>1. UNCHANGED <<live, next, attr, phase, nxt, evts>> /\ ~Destroying
    BY Zenon, <1>4 DEF free_done, connVars, listVars, loopVars, quiet, Destroying
  <2>2. QED
    BY Zenon, <2>1 DEF Freeing, Ahead
<1>5. CASE Poll \/ (\E a \in Conn : next_event(a)) \/ events_done \/ loop_next \/ loop_done \/ handled \/ sweep_next
           \/ sweep_keep
  <2>1. pc \in {"events", "loop", "sweep"} => phase = pc
    BY Zenon DEF Inv, Control
  <2>2. pc \in {"handled", "tail"} => phase # "free"
    BY Zenon, NothingHandled DEF Handling
  <2>3. phase' # "free"
    BY Zenon, <1>5, <2>1, <2>2 DEF Poll, ns_mgr_poll, next_event, events_done, loop_next, loop_done, handled, sweep_next,
       sweep_keep, loopVars
  <2>4. QED
    BY Zenon, <2>3
<1>6. QED
  BY Zenon, <1>1, <1>2, <1>3, <1>4, <1>5, Moves

\* Steps keep Listeners.
LEMMA ListenersStep == Inv /\ Places /\ Listeners /\ Freeing /\ [Next]_vars => Listeners'
<1> SUFFICES ASSUME Inv, Places, Listeners, Freeing, [Next]_vars, "close_listener" \notin prog'.calls
             PROVE  /\ \A c \in live' : attr'[c].listener # NULL =>
                          /\ attr'[c].listener \in live' \ {c} /\ "LISTENING" \in lib_flags(attr[c].listener)'
                          /\ Reach(live', next', c, attr'[c].listener)
                    /\ \A c \in live' : "LISTENING" \in lib_flags(c)' =>
                          flags'[c] \cap {"CLOSE_IMMEDIATELY", "SEND_AND_CLOSE"} = {}
                    /\ Destroying' /\ phase' # "free" => "LISTENING" \notin lib_flags(dying)'
                    /\ Destroying' => \A c \in live' : attr'[c].listener # dying'
  BY Zenon DEF Listeners
<1> USE ConstAssumption
<1>a. prog' = prog /\ "close_listener" \notin prog.calls /\ live \subseteq Conn /\ live' \subseteq Conn
      /\ (Destroying => dying \in live \ {nxt}) /\ (pc # "user" => \A c \in live : lib_flags(c) = flags[c])
  <2>1. prog' = prog
    BY Zenon, OrderKept
  <2>2. Inv'
    BY Zenon, InvStep
  <2>3. live \subseteq Conn /\ live' \subseteq Conn
    BY Zenon, <2>2 DEF Inv, TypeOK, ConnType
  <2>4. QED
    BY Zenon, <2>1, <2>3, LibIsFlags DEF Inv, NoDanglingCursor, Destroying
<1>b. \A c \in live \cap live' : attr'[c].listener = attr[c].listener
  BY Zenon, DataStep DEF KeptData
<1>c. \A c \in live \cap live' : "LISTENING" \in lib_flags(c)' <=> "LISTENING" \in lib_flags(c)
  BY Zenon, FlagsStep DEF KeptFlags
<1>d. ASSUME NEW c \in live' \ live
      PROVE  \/ attr'[c].listener = NULL
             \/ /\ attr'[c].listener = cur /\ cur \in live /\ "LISTENING" \in lib_flags(cur) /\ pc = "handle"
                /\ ~Destroying'
  <2>1. Birth(c)
    BY Zenon, <1>d, BirthStep
  <2>2. connected(cur) => pc = "handle" /\ cur \in live /\ attr[cur] \in Attr /\ lib_flags(cur) = flags[cur]
    BY Zenon, <1>a DEF connected, Inv, NoDanglingCursor, TypeOK, ConnType
  <2>3. /\ NoAttr.listener = NULL /\ [NoAttr EXCEPT !.kind = "client"].listener = NULL
        /\ [NoAttr EXCEPT !.kind = "tls", !.ssl = TRUE].listener = NULL
    BY Zenon DEF NoAttr
  <2>4. \A t \in Attr : \A k : [t EXCEPT !.kind = k, !.listener = cur].listener = cur
    BY Zenon DEF Attr
  <2>5. QED
    BY Zenon, <2>1, <2>2, <2>3, <2>4 DEF Birth
<1>e. \A c \in live : c \notin live' => destroy /\ c = dying
  <2>1. CASE destroy
    BY Zenon, <2>1 DEF destroy
  <2>2. CASE ~destroy
    <3>1. Stay \/ (\E a \in Conn : Grow(a)) => live \subseteq live'
      BY Zenon DEF Stay, Grow
    <3>2. Poll \/ (\E a \in Conn : next_event(a)) \/ events_done \/ loop_next \/ loop_done \/ handled \/ sweep_next
          \/ sweep_done \/ sweep_keep \/ free_next \/ free_done => live' = live
      BY Zenon DEF Poll, ns_mgr_poll, next_event, events_done, loop_next, loop_done, handled, sweep_next, sweep_done,
         sweep_keep, free_next, free_done, connVars
    <3>3. QED
      BY Zenon, <2>2, <3>1, <3>2, Moves
  <2>3. QED
    BY Zenon, <2>1, <2>2
<1>1. ASSUME NEW c \in live', attr'[c].listener # NULL
      PROVE  /\ attr'[c].listener \in live' \ {c} /\ "LISTENING" \in lib_flags(attr[c].listener)'
             /\ Reach(live', next', c, attr'[c].listener)
  <2>1. CASE c \in live
    <3>1. PICK l \in live : l = attr[c].listener /\ l = attr'[c].listener /\ l # c /\ "LISTENING" \in lib_flags(l)
                            /\ Reach(live, next, c, l)
      BY Zenon, <1>1, <1>a, <1>b, <2>1 DEF Listeners
    <3>2. l \in live'
      <4>1. destroy => l # dying
        <5>1. destroy => Destroying
          BY Zenon DEF destroy, Destroying
        <5>2. QED
          BY Zenon, <1>a, <2>1, <3>1, <5>1 DEF Listeners
      <4>2. QED
        BY Zenon, <1>e, <3>1, <4>1
    <3>3. "LISTENING" \in lib_flags(l)' /\ Reach(live', next', c, l)
      BY Zenon, <1>1, <1>c, <2>1, <3>1, <3>2, OrderKept
    <3>4. QED
      BY Zenon, <3>1, <3>2, <3>3 DEF lib_flags
  <2>2. CASE c \notin live
    <3>1. PICK l \in live : l = cur /\ attr'[c].listener = l /\ "LISTENING" \in lib_flags(l) /\ pc = "handle"
      BY Zenon, <1>1, <1>d, <2>2
    <3>2. l \in live'
      BY Zenon, <1>e, <3>1 DEF destroy
    <3>3. "LISTENING" \in lib_flags(l)' /\ Reach(live', next', c, l)
      BY Zenon, <1>1, <1>c, <2>2, <3>1, <3>2, AcceptedInFront
    <3>4. QED
      BY Zenon, <2>2, <3>1, <3>2, <3>3 DEF lib_flags
  <2>3. QED
    BY Zenon, <2>1, <2>2
<1>2. ASSUME NEW c \in live', "LISTENING" \in lib_flags(c)'
      PROVE  flags'[c] \cap {"CLOSE_IMMEDIATELY", "SEND_AND_CLOSE"} = {}
  <2>1. CASE c \in live
    <3>1. KeptFlags(c)
      BY Zenon, <2>1, FlagsStep
    <3>2. "LISTENING" \in lib_flags(c) /\ "CONNECTING" \notin lib_flags(c)
      BY Zenon, <1>2, <1>c, <2>1 DEF Places
    <3>3. flags[c] \cap {"CLOSE_IMMEDIATELY", "SEND_AND_CLOSE"} = {}
      BY Zenon, <1>a, <2>1, <3>2 DEF Listeners
    <3>4. QED
      BY Zenon, <1>a, <3>1, <3>2, <3>3 DEF KeptFlags
  <2>2. CASE c \notin live
    <3>1. Birth(c)
      BY Zenon, <2>2, BirthStep
    <3>2. QED
      BY Zenon, <3>1 DEF Birth
  <2>3. QED
    BY Zenon, <2>1, <2>2
<1>3. ASSUME Destroying'
      PROVE  (phase' # "free" => "LISTENING" \notin lib_flags(dying)') /\ \A c \in live' : attr'[c].listener # dying'
  <2>a. Inv'
    BY InvStep
  <2>b. dying' \in live' /\ phase' = phase
    BY Zenon, <1>3, <2>a, DyingStep DEF Inv, NoDanglingCursor, Destroying
  <2>c. PICK d \in live' : d = dying'
    BY Zenon, <2>b
  <2>s. SUFFICES (phase # "free" => "LISTENING" \notin lib_flags(d)') /\ \A c \in live' : attr'[c].listener # d
    BY Zenon, <2>b, <2>c DEF lib_flags
  <2>1. CASE Destroying /\ dying' = dying
    <3>1. d \in live
      BY Zenon, <1>a, <2>1, <2>c
    <3>2. phase # "free" => "LISTENING" \notin lib_flags(d)'
      BY Zenon, <1>a, <1>c, <2>1, <2>c, <3>1 DEF Listeners
    <3>3. ASSUME NEW c \in live' PROVE attr'[c].listener # d
      <4>1. c \in live => attr'[c].listener # d
        BY Zenon, <1>a, <1>b, <2>1, <2>c DEF Listeners
      <4>2. c \notin live => attr'[c].listener # d
        <5>1. d # NULL
          BY Zenon, <1>a, <2>c
        <5>2. QED
          BY Zenon, <1>3, <1>d, <5>1
      <4>3. QED
        BY Zenon, <4>1, <4>2
    <3>4. QED
      BY Zenon, <3>2, <3>3
  <2>2. CASE accept_conn /\ dying' \notin live
    <3>1. Birth(d)
      BY Zenon, <2>2, <2>c, BirthStep
    <3>2. "LISTENING" \notin lib_flags(d)'
      <4>1. pc = "handle"
        BY Zenon, <2>2 DEF accept_conn, connected
      <4>2. ~UNCHANGED <<pc, call, dying>>
        BY Zenon, <1>3, <4>1 DEF Destroying
      <4>3. QED
        BY Zenon, <3>1, <4>2 DEF Birth
    <3>3. ASSUME NEW c \in live' PROVE attr'[c].listener # d
      <4>1. c \in live => attr'[c].listener # d
        <5>1. c \in live => attr[c].listener \in live \cup {NULL}
          BY Zenon, <1>a DEF Listeners
        <5>2. d \notin live /\ d # NULL
          BY Zenon, <1>a, <2>2, <2>c
        <5>3. QED
          BY Zenon, <1>b, <5>1, <5>2
      <4>2. c \notin live => attr'[c].listener = NULL
        BY Zenon, <1>3, <1>d
      <4>3. d # NULL
        BY <1>a, <2>c
      <4>4. QED
        BY Zenon, <4>1, <4>2, <4>3
    <3>4. QED
      BY Zenon, <3>2, <3>3
  <2>3. CASE sweep_close /\ dying' = cur
    <3>1. pc = "tail" /\ live' = live /\ flags[d] \cap {"CLOSE_IMMEDIATELY", "SEND_AND_CLOSE"} # {}
      BY Zenon, <2>3, <2>c DEF sweep_close, must_close, connVars
    <3>2. "LISTENING" \notin lib_flags(d)
      BY Zenon, <1>a, <2>c, <3>1 DEF Listeners
    <3>3. ASSUME NEW c \in live' PROVE attr'[c].listener # d
      <4>1. attr[c].listener # NULL => attr[c].listener # d
        BY Zenon, <1>a, <3>1, <3>2 DEF Listeners
      <4>2. d # NULL
        BY <1>a, <2>c
      <4>3. QED
        BY Zenon, <1>b, <3>1, <4>1, <4>2
    <3>4. QED
      BY Zenon, <1>c, <2>c, <3>1, <3>2, <3>3
  <2>4. CASE free_next /\ dying' = nxt
    <3>1. pc = "free" /\ phase = "free" /\ live' = live /\ d \in live /\ ~Destroying
      BY Zenon, <2>4, <2>c DEF free_next, connVars, Inv, Control, Destroying
    <3>2. ASSUME NEW c \in live, attr[c].listener = d PROVE FALSE
      <4>1. c # d /\ Reach(live, next, c, d) /\ d # NULL /\ c # NULL
        BY Zenon, <1>a, <3>1, <3>2 DEF Listeners
      <4>2. Reach(live, next, d, c)
        BY Zenon, <2>4, <2>c, <3>1, <3>2, <4>1 DEF Freeing, Ahead
      <4>3. Reach(live, next, next[d], c)
        BY Zenon, <3>1, <4>1, <4>2, ReachNext
      <4>4. Reach(live, next, next[d], d)
        BY Zenon, <4>1, <4>3, ReachTrans
      <4>5. QED
        BY Zenon, <1>a, <3>1, <4>4, Acyclic DEF Inv
    <3>3. QED
      BY Zenon, <1>b, <3>1, <3>2
  <2>5. QED
    BY Zenon, <1>3, <2>1, <2>2, <2>3, <2>4, DyingStep DEF Inv
<1>4. QED
  BY Zenon, <1>1, <1>2, <1>3

\* All of these facts together hold in every reachable state.
THEOREM OrderInvariance == Spec => [](Inv /\ Where /\ Places /\ Listeners /\ Freeing)
<1>1. Init => Listeners /\ Freeing
  BY Zenon DEF Init, Listeners, Freeing, NoCall, Destroying
<1>2. QED
  BY <1>1, FlagsInvariance, ListenersStep, FreeingStep, PTL DEF Spec

\* nc->listener never outlives the connection it points to, not even in
\* ns_mgr_free(), unless the application closes a listener; and when
\* ns_mgr_free() is done, what is left was opened by its last handlers.
THEOREM ListenerOutlives == Spec => []FreedInOrder
<1>1. Inv /\ Where /\ Listeners /\ Freeing => FreedInOrder
  <2> SUFFICES ASSUME Inv, Where, Listeners, Freeing PROVE FreedInOrder
    BY Zenon
  <2>1. pc = "done" => \A c \in live : evts[c] = <<>> /\ attr[c].listener = NULL
    BY Zenon, ReachEnd DEF Where, Freeing, Ahead, Destroying
  <2>2. QED
    BY Zenon, <2>1 DEF FreedInOrder, Listeners
<1>2. QED
  BY <1>1, OrderInvariance, PTL

-----------------------------------------------------------------------------
(* Writing: who may get a write event, and that it finds data *)

\* The condition under which EPOLL_CTL_MOD is never skipped: with epoll(), no
\* connection has a limit on its receive buffer that it reaches.
Unlimited == prog.epoll => "limit" \notin prog.calls /\ \A c \in live : rlen[c] < NoLimit

\* A write event for c finds data, or does not lead to ns_write_to_socket().
Sends(c) == slen[c] > 0 \/ lib_flags(c) \cap {"CONNECTING", "UDP"} # {}

\* Where a write event may still come from that has nothing to send: from the
\* kernel, only for connections the last loop of this poll has yet to register
\* anew; not from events that wait to be handled, nor for the one handled.
Writes ==
    /\ prog.epoll => \A c \in live : attr[c].limit = NoLimit
    /\ prog.epoll /\ phase = "none" => \A c \in live : "W" \in reg[c] => Sends(c)
    /\ prog.epoll /\ phase = "sweep" =>
          \A c \in live : "W" \in reg[c] => Sends(c) \/ Ahead(c) \/ (Busy /\ c = cur)
    /\ phase = "events" => \A c \in live : "W" \in ready[c] => Sends(c)
    /\ phase = "loop" => \A c \in live : "W" \in ready[c] /\ Ahead(c) => Sends(c)
    /\ pc = "handle" \/ Reading => ("W" \in fd => Sends(cur))

\* Only connect_done and ns_write_to_socket() end that a connection sends.
LEMMA SendsKept ==
    ASSUME Inv, Places, [Next]_vars, NEW c, c \in live, c \in live', Sends(c)
    PROVE  Sends(c)' \/ (c = cur /\ (connect_done \/ ns_write_to_socket))
<1>1. KeptFlags(c) /\ KeptData(c) /\ slen[c] \in Nat /\ slen'[c] \in Nat
  <2>1. Inv'
    BY Zenon, InvStep
  <2>2. QED
    BY Zenon, <2>1, FlagsStep, DataStep DEF Inv, TypeOK, ConnType
<1>2. CASE slen[c] > 0
  BY <1>1, <1>2 DEF KeptData, Sends
<1>3. CASE "CONNECTING" \in lib_flags(c)
  BY Zenon, <1>1, <1>3 DEF KeptFlags, Sends
<1>4. CASE "UDP" \in lib_flags(c)
  BY Zenon, <1>1, <1>4 DEF KeptFlags, Sends
<1>5. QED
  BY Zenon, <1>2, <1>3, <1>4 DEF Sends

\* Steps keep the limits.
LEMMA LimitsStep ==
    ASSUME Inv, [Next]_vars, Unlimited, prog.epoll, \A c \in live : attr[c].limit = NoLimit
    PROVE  \A c \in live' : attr'[c].limit = NoLimit
<1>1. ASSUME NEW c \in live', c \in live PROVE attr'[c].limit = NoLimit
  BY Zenon, <1>1, DataStep DEF KeptData, Unlimited
<1>2. ASSUME NEW c \in live', c \notin live PROVE attr'[c].limit = NoLimit
  <2>1. Birth(c) /\ (connected(cur) => cur \in live /\ attr[cur] \in Attr)
    BY Zenon, <1>2, BirthStep DEF connected, Inv, NoDanglingCursor, TypeOK, ConnType
  <2>2. /\ NoAttr.limit = NoLimit /\ [NoAttr EXCEPT !.kind = "client"].limit = NoLimit
        /\ [NoAttr EXCEPT !.kind = "tls", !.ssl = TRUE].limit = NoLimit
    BY Zenon DEF NoAttr
  <2>3. \A t \in Attr : \A k : [t EXCEPT !.kind = k, !.listener = cur].limit = t.limit
    BY Zenon DEF Attr
  <2>4. CASE attr'[c] \in {NoAttr, [NoAttr EXCEPT !.kind = "client"], [NoAttr EXCEPT !.kind = "tls", !.ssl = TRUE]}
    BY Zenon, <2>2, <2>4
  <2>5. CASE connected(cur) /\ \E k : attr'[c] = [attr[cur] EXCEPT !.kind = k, !.listener = cur]
    BY <2>1, <2>3, <2>5
  <2>6. QED
    BY Zenon, <2>1, <2>4, <2>5 DEF Birth
<1>3. QED
  BY Zenon, <1>1, <1>2

\* Steps keep what is known of the connection handled.
LEMMA WriteNowStep ==
    ASSUME Inv, Where, Places, Writes, [Next]_vars, (pc = "handle" \/ Reading)', "W" \in fd'
    PROVE  Sends(cur)'
<1> USE ConstAssumption
<1>a. live \subseteq Conn /\ nxt \in live \cup {NULL} /\ (Inv')
  BY Zenon, InvStep DEF Inv, TypeOK, ConnType, NoDanglingCursor
<1>b. ~ns_write_to_socket /\ ~connect_done
  BY DEF Reading, ns_write_to_socket, connect_done, ns_call, goto
<1>1. CASE Stay \/ (\E a \in Conn : Grow(a)) \/ destroy
  <2>1. cur' = cur /\ fd' = fd /\ (pc' = "handle" => pc = "handle")
    <3>1. CASE destroy
      BY Zenon, <3>1 DEF destroy, loopVars, goto, Inv, TypeOK, LoopType
    <3>2. CASE Stay \/ (\E a \in Conn : Grow(a))
      BY Zenon, <3>2 DEF Stay, Grow, Onward, walkVars
    <3>3. QED
      BY Zenon, <1>1, <3>1, <3>2
  <2>2. cur \in live /\ cur \in live' /\ (pc = "handle" \/ Reading)
    <3>1. CASE Reading'
      BY Zenon, <3>1, ReadingStep DEF plain, connected
    <3>2. CASE pc' = "handle"
      BY Zenon, <1>a, <2>1, <3>2 DEF Inv, NoDanglingCursor
    <3>3. QED
      BY Zenon, <3>1, <3>2
  <2>3. PICK c \in live : c = cur
    BY Zenon, <2>2
  <2>4. Sends(c)
    BY Zenon, <2>1, <2>2, <2>3 DEF Writes, Sends, lib_flags
  <2>5. Sends(c)'
    BY Zenon, <1>b, <2>2, <2>3, <2>4, SendsKept
  <2>6. QED
    BY Zenon, <2>1, <2>3, <2>5 DEF Sends, lib_flags
<1>2. CASE (\E a \in Conn : next_event(a)) \/ loop_next
  <2>1. PICK c \in live : "W" \in ready[c] /\ cur' = c /\ live' = live
                          /\ (phase = "events" \/ (phase = "loop" /\ c = nxt /\ c # NULL))
    <3>1. CASE loop_next
      BY Zenon, <1>a, <3>1 DEF loop_next, connVars, Inv, Control
    <3>2. CASE \E a \in Conn : next_event(a)
      BY <1>a, <3>2 DEF next_event, connVars, Inv, Control, NoDanglingCursor
    <3>3. QED
      BY Zenon, <1>2, <3>1, <3>2
  <2>2. Sends(c)
    <3>1. c # NULL /\ c = nxt => Ahead(c)
      BY Zenon DEF Ahead, Reach
    <3>2. QED
      BY Zenon, <2>1, <3>1 DEF Writes
  <2>3. Sends(c)'
    BY Zenon, <1>b, <2>1, <2>2, SendsKept
  <2>4. QED
    BY Zenon, <2>1, <2>3 DEF Sends, lib_flags
<1>3. CASE Poll \/ events_done \/ loop_done \/ handled \/ sweep_next \/ sweep_done \/ sweep_keep \/ free_done
  <2>1. phase \notin {"handle", "recv", "write", "user"}
    BY Zenon DEF Inv, TypeOK, LoopType
  <2>2. ~sweep_next
    BY Zenon DEF sweep_next
  <2>3. pc' \notin {"handle", "recv", "write", "user"}
    BY Zenon, <1>3, <2>1, <2>2 DEF Poll, ns_mgr_poll, events_done, loop_done, handled, sweep_done, sweep_keep, free_done, goto
  <2>4. QED
    BY Zenon, <2>3 DEF Reading
<1>4. CASE free_next
  <2>1. pc' \in {"destroy", "user"} /\ (pc' = "user" => call'.ret = "destroy")
    BY <1>4 DEF free_next, ns_close_conn, ns_call
  <2>2. QED
    BY Zenon, <2>1 DEF Reading
<1>5. QED
  BY Zenon, <1>1, <1>2, <1>3, <1>4, Moves

\* What Writes says of a connection c besides the one handled.
WritesOf(c) ==
    /\ prog.epoll /\ phase = "none" => ("W" \in reg[c] => Sends(c))
    /\ prog.epoll /\ phase = "sweep" => ("W" \in reg[c] => Sends(c) \/ Ahead(c) \/ (Busy /\ c = cur))
    /\ phase = "events" => ("W" \in ready[c] => Sends(c))
    /\ phase = "loop" => ("W" \in ready[c] /\ Ahead(c) => Sends(c))

\* Steps keep what is known of a connection that stays.
LEMMA WritesKept ==
    ASSUME Inv, Where, Places, Writes, Unlimited, [Next]_vars, NEW c, c \in live, c \in live'
    PROVE  WritesOf(c)'
<1> USE ConstAssumption
<1>a. /\ nxt \in live \cup {NULL} /\ live \subseteq Conn /\ c \in Conn /\ lib_flags(c) \subseteq Flag
      /\ ready \in [Conn -> SUBSET {"R", "W", "E"}] /\ reg \in [Conn -> SUBSET {"R", "W"}]
  BY Zenon DEF Inv, TypeOK, ConnType, NoDanglingCursor, LoopType, KernType, EventType, ThreadType, lib_flags
<1>b. WritesOf(c)
  BY Zenon DEF Writes, WritesOf
<1>c. pc \in {"events", "loop", "sweep", "free"} => phase = pc /\ ~Busy
  BY Zenon DEF Inv, Control, Busy, Handling, Destroying
<1>d. pc \notin {"handle", "write"} => (Sends(c) => Sends(c)')
  BY Zenon, SendsKept DEF connect_done, ns_write_to_socket
<1>1. CASE Stay \/ (\E a \in Conn : Grow(a)) \/ destroy
  <2>1. /\ UNCHANGED <<phase, cur, nxt, ready, prog>> /\ reg'[c] = reg[c] /\ (c = cur /\ Busy => Busy')
        /\ nxt \in live' \cup {NULL}
    <3>1. CASE destroy
      <4>1. /\ UNCHANGED <<phase, cur, nxt, ready, prog>> /\ live' = live \ {dying} /\ c # dying
            /\ pc' = (IF dying = cur THEN phase ELSE "handled") /\ reg' = [reg EXCEPT ![dying] = {}]
        BY Zenon, <3>1 DEF destroy, loopVars, goto
      <4>2. dying \in live \ {nxt}
        BY Zenon, <3>1 DEF destroy, Inv, NoDanglingCursor
      <4>3. reg'[c] = reg[c]
        BY Zenon, <1>a, <4>1
      <4>4. QED
        BY Zenon, <1>a, <4>1, <4>2, <4>3 DEF Busy, Handling
    <3>2. CASE Stay \/ (\E a \in Conn : Grow(a))
      BY Zenon, <1>a, <3>2 DEF Stay, Grow, Onward, walkVars
    <3>3. QED
      BY Zenon, <1>1, <3>1, <3>2
  <2>2. Ahead(c)' <=> Ahead(c)
    BY Zenon, <1>1, <1>a, <2>1, ReachKept DEF Ahead
  <2>3. CASE Sends(c) => Sends(c)'
    BY Zenon, <1>b, <2>1, <2>2, <2>3 DEF WritesOf
  <2>4. CASE ~(Sends(c) => Sends(c)')
    <3>1. c = cur /\ Handling
      BY Zenon, <2>4, SendsKept DEF connect_done, ns_write_to_socket, Handling
    <3>2. phase \in {"events", "loop", "sweep"} /\ (phase = "events" => ready[c] = {}) /\ (phase = "loop" => ~Ahead(c)) /\ Busy
      BY Zenon, <3>1 DEF Inv, Control, Where, Busy, Ahead
    <3>3. QED
      BY Zenon, <2>1, <2>2, <3>1, <3>2 DEF WritesOf
  <2>5. QED
    BY Zenon, <2>3, <2>4
<1>2. CASE Poll
  <2>1. /\ pc = "idle" /\ phase = "none" /\ phase' = "events"
        /\ ready'[c] = IF prog.epoll THEN epoll_events(c) ELSE select_sets(c) \cap readiness(c)
    BY Zenon, <1>2, <1>a DEF Poll, ns_mgr_poll, Where
  <2>2. prog.epoll /\ "W" \in ready'[c] => Sends(c)
    BY <1>b, <2>1 DEF epoll_events, WritesOf
  <2>3. ~prog.epoll /\ "W" \in ready'[c] => Sends(c)
    <3>1. "W" \in select_sets(c) => "CONNECTING" \in flags[c] \/ slen[c] > 0
      BY Zenon DEF select_sets
    <3>2. lib_flags(c) = flags[c]
      BY Zenon, <1>a, <2>1, LibIsFlags
    <3>3. QED
      BY Zenon, <2>1, <3>1, <3>2 DEF Sends
  <2>4. QED
    BY Zenon, <1>d, <2>1, <2>2, <2>3 DEF WritesOf
<1>3. CASE \E a \in Conn : next_event(a)
  <2>1. PICK a \in Conn : next_event(a)
    BY Zenon, <1>3
  <2>2. phase = "events" /\ UNCHANGED phase /\ ready' = [ready EXCEPT ![a] = {}] /\ pc = "events"
    BY Zenon, <1>c, <2>1 DEF next_event
  <2>3. "W" \in ready'[c] => "W" \in ready[c]
    BY Zenon, <1>a, <2>2
  <2>4. QED
    BY Zenon, <1>b, <1>d, <2>2, <2>3 DEF WritesOf
<1>4. CASE events_done \/ loop_done
  <2>1. nxt' = head /\ UNCHANGED <<live, next>> /\ phase' \in {"sweep", "loop"} /\ pc \in {"events", "loop"}
    BY Zenon, <1>4 DEF events_done, loop_done, listVars, connVars
  <2>2. Ahead(c)'
    BY Zenon, <2>1, ReachHead DEF Inv, Ahead
  <2>3. phase' = "loop" => phase = "events" /\ ready' = ready
    BY Zenon, <1>4, <1>c DEF events_done, loop_done
  <2>4. QED
    BY Zenon, <1>b, <1>d, <2>1, <2>2, <2>3 DEF WritesOf
<1>5. CASE loop_next
  <2>1. /\ nxt \in live /\ nxt # NULL /\ phase = "loop" /\ UNCHANGED <<phase, live, next, ready>> /\ nxt' = next[nxt]
        /\ pc = "loop"
    BY Zenon, <1>5, <1>a, <1>c DEF loop_next, connVars, listVars
  <2>2. Ahead(c)' => Ahead(c)
    BY Zenon, <2>1, ReachBack DEF Ahead
  <2>3. QED
    BY Zenon, <1>b, <1>d, <2>1, <2>2 DEF WritesOf
<1>6. CASE handled
  <2>1. /\ UNCHANGED <<phase, cur, nxt, ready, prog, live, next, reg>> /\ pc = "handled"
        /\ pc' = (IF phase = "sweep" THEN "tail" ELSE phase)
    BY Zenon, <1>6 DEF handled, loopVars, listVars, kernVars, goto
  <2>2. phase = "sweep" => Busy'
    BY Zenon, <2>1 DEF Busy, Handling
  <2>3. Ahead(c)' <=> Ahead(c)
    BY Zenon, <2>1 DEF Ahead
  <2>4. QED
    BY Zenon, <1>b, <1>d, <2>1, <2>2, <2>3 DEF WritesOf
<1>7. CASE sweep_next
  <2>1. /\ nxt \in live /\ phase = "sweep" /\ UNCHANGED <<phase, live, next, reg, prog>> /\ cur' = nxt /\ nxt' = next[nxt]
        /\ pc' \in {"handle", "tail"} /\ ~Busy /\ pc = "sweep"
    BY Zenon, <1>7, <1>a, <1>c DEF sweep_next, listVars, kernVars, goto
  <2>2. c # nxt /\ Ahead(c) => Ahead(c)'
    BY Zenon, <2>1, ReachNext DEF Ahead
  <2>3. Busy'
    BY Zenon, <2>1 DEF Busy, Handling
  <2>4. QED
    BY Zenon, <1>b, <1>d, <2>1, <2>2, <2>3 DEF WritesOf
<1>8. CASE sweep_done
  <2>1. phase = "sweep" /\ nxt = NULL /\ ~Busy /\ UNCHANGED <<reg, prog>> /\ phase' \in {"free", "none"} /\ pc = "sweep"
    BY Zenon, <1>8, <1>c DEF sweep_done, kernVars
  <2>2. ~Ahead(c)
    BY Zenon, <2>1, ReachEnd DEF Ahead
  <2>3. QED
    BY Zenon, <1>b, <1>d, <2>1, <2>2 DEF WritesOf
<1>9. CASE sweep_keep
  <2>1. /\ phase = "sweep" /\ UNCHANGED <<phase, cur, nxt, live, next, prog>> /\ cur \in Conn /\ pc = "tail"
        /\ LET ev == epoll_set_flags(flags[cur], rlen[cur], attr[cur].limit, slen[cur]) IN
           reg' = IF prog.epoll /\ ev # {} THEN [reg EXCEPT ![cur] = ev] ELSE reg
    BY Zenon, <1>9, <1>a DEF sweep_keep, loopVars, connVars, listVars, Inv, Control, NoDanglingCursor
  <2>2. CASE c # cur
    <3>1. reg'[c] = reg[c] /\ (Ahead(c)' <=> Ahead(c))
      BY Zenon, <1>a, <2>1, <2>2 DEF Ahead
    <3>2. QED
      BY Zenon, <1>b, <1>d, <2>1, <2>2, <3>1 DEF WritesOf
  <2>3. CASE c = cur /\ prog.epoll
    <3>1. "R" \in epoll_set_flags(flags[c], rlen[c], attr[c].limit, slen[c])
      BY Zenon, <2>3 DEF epoll_set_flags, Writes, Unlimited
    <3>2. "W" \in reg'[c] => "CONNECTING" \in flags[c] \/ slen[c] > 0
      BY Zenon, <1>a, <2>1, <2>3, <3>1 DEF epoll_set_flags
    <3>3. lib_flags(c) = flags[c]
      BY Zenon, <1>a, <2>1, LibIsFlags
    <3>4. "W" \in reg'[c] => Sends(c)
      BY Zenon, <3>2, <3>3 DEF Sends
    <3>5. QED
      BY Zenon, <1>d, <2>1, <3>4 DEF WritesOf
  <2>4. CASE c = cur /\ ~prog.epoll
    BY Zenon, <2>1, <2>4 DEF WritesOf
  <2>5. QED
    BY Zenon, <2>2, <2>3, <2>4
<1>10. CASE free_next \/ free_done
  <2>1. phase' = "free"
    BY Zenon, <1>10, <1>c DEF free_next, free_done, loopVars
  <2>2. QED
    BY Zenon, <2>1 DEF WritesOf
<1>11. QED
  BY Zenon, <1>1, <1>2, <1>3, <1>4, <1>5, <1>6, <1>7, <1>8, <1>9, <1>10, Moves

\* Steps keep Writes.
LEMMA WritesStep == Inv /\ Where /\ Places /\ Writes /\ Unlimited /\ [Next]_vars => Writes'
<1> SUFFICES ASSUME Inv, Where, Places, Writes, Unlimited, [Next]_vars PROVE Writes'
  BY Zenon
<1>1. prog' = prog
  BY Zenon, Moves DEF Stay, Grow, Onward, walkVars, destroy, Poll, ns_mgr_poll, next_event, events_done, loop_next, loop_done,
     handled, sweep_next, sweep_done, sweep_keep, free_next, free_done, loopVars
<1>2. prog.epoll => \A c \in live' : attr'[c].limit = NoLimit
  BY Zenon, LimitsStep DEF Writes
<1>3. ASSUME NEW c \in live', c \notin live PROVE WritesOf(c)'
  <2>1. Birth(c)
    BY Zenon, <1>3, BirthStep
  <2>2. "W" \in reg'[c] => Sends(c)'
    BY Zenon, <2>1 DEF Birth, Sends
  <2>3. ready'[c] = {}
    <3>1. c \in Conn /\ ready[c] = {}
      BY Zenon, <1>3, InvStep DEF Inv, TypeOK, ConnType, NoDanglingCursor
    <3>2. UNCHANGED ready
      <4>1. CASE Stay \/ destroy \/ \E a \in Conn : Grow(a)
        BY Zenon, <4>1 DEF Stay, destroy, Grow, Onward, walkVars, loopVars
      <4>2. CASE Poll \/ (\E a \in Conn : next_event(a)) \/ events_done \/ loop_next \/ loop_done \/ handled \/ sweep_next
                 \/ sweep_done \/ sweep_keep \/ free_next \/ free_done
        <5>1. live' = live
          BY <4>2, Zenon DEF Poll, ns_mgr_poll, next_event, events_done, loop_next, loop_done, handled, sweep_next,
             sweep_done, sweep_keep, free_next, free_done, connVars
        <5>2. QED
          BY Zenon, <1>3, <5>1
      <4>3. QED
        BY Zenon, <4>1, <4>2, Moves
    <3>3. QED
      BY Zenon, <3>1, <3>2
  <2>4. QED
    BY Zenon, <2>2, <2>3 DEF WritesOf
<1>4. \A c \in live' : WritesOf(c)'
  BY Zenon, <1>3, WritesKept
<1>5. (pc = "handle" \/ Reading)' => ("W" \in fd' => Sends(cur)')
  BY Zenon, WriteNowStep
<1>6. QED
  BY Zenon, <1>1, <1>2, <1>4, <1>5 DEF Writes, WritesOf

\* net.c:817, assert(io->len > 0).  ns_write_to_socket() is only called with
\* data to send: with select() always, and with epoll() as long as no receive
\* buffer reaches a limit (where one does, EPOLL_CTL_MOD is skipped and the
\* assertion can fail).
THEOREM WritesHaveData == Spec /\ []Unlimited => []WriteHasData
<1>1. Init => Writes
  BY Zenon DEF Init, Writes, Reading, NoAttr
<1>2. Inv /\ Places /\ Writes => WriteHasData
  <2> SUFFICES ASSUME Inv, Places, Writes, pc = "write", may_write PROVE slen[cur] > 0
    BY Zenon DEF WriteHasData
  <2>1. "W" \in fd /\ "UDP" \notin flags[cur] /\ cur \in Conn
    BY Zenon DEF may_write, Inv, NoDanglingCursor, TypeOK, ConnType
  <2>2. lib_flags(cur) = flags[cur] /\ "CONNECTING" \notin lib_flags(cur) /\ Sends(cur)
    BY Zenon, <2>1, LibIsFlags DEF Places, Writes, Reading
  <2>3. QED
    BY Zenon, <2>1, <2>2 DEF Sends
<1>3. QED
  BY <1>1, <1>2, WritesStep, FlagsInvariance, PTL DEF Spec

-----------------------------------------------------------------------------
(* EventLoop implements Lifecycle                                          *)

\* What the flags and the kind of a connection say of the events it has seen.
Story ==
    \A c \in live :
       /\ Life!Has(evts[c], "CLOSE") => Destroying /\ dying = c
       /\ attr[c].kind = "client" =>
             IF "CONNECTING" \in lib_flags(c) THEN evts[c] \in {<<>>, <<"CONNECT_ERR">>}
             ELSE evts[c] # <<>> /\ evts[c][1] = "CONNECT_OK"
       /\ attr[c].kind # "client" => "CONNECTING" \notin lib_flags(c)
       /\ attr[c].kind # "sock" => "LISTENING" \notin lib_flags(c)
       /\ attr[c].kind \in {"server", "tls"} => "UDP" \notin lib_flags(c)
       /\ attr[c].kind = "tls" /\ Life!Has(evts[c], "ACCEPT") => "SSL_HANDSHAKE_DONE" \in lib_flags(c)
       /\ attr[c].kind = "server" => ~attr[c].ssl
       /\ attr[c].listener # NULL => attr[c].kind \in {"server", "tls"}

\* A client whose connect() failed is told so once: it is to be closed in this
\* poll, and is not handled again before.
Failed ==
    \A c \in live : evts[c] = <<"CONNECT_ERR">> =>
       /\ "CLOSE_IMMEDIATELY" \in flags[c] /\ "CONNECTING" \in lib_flags(c)
       /\ phase \notin {"none", "free"}
       /\ phase = "events" => prog.epoll /\ ready[c] = {}
       /\ phase = "loop" => ~Ahead(c)
       /\ phase \in {"events", "loop"} /\ c = cur => pc # "handle"
       /\ phase = "sweep" => Ahead(c) \/ (Busy /\ c = cur)

\* Who is destroyed has been told, or was never connected.
Dies == Destroying => Life!Has(evts[dying], "CLOSE") \/ "CONNECTING" \in lib_flags(dying)

-----------------------------------------------------------------------------

\* What logging an event does to a list of events.
LEMMA LogFacts ==
    ASSUME NEW s \in Seq(Life!Event), NEW e \in Life!Event
    PROVE  /\ \A x \in Life!Event : Life!Has(Life!Log(s, e), x) <=> (Life!Has(s, x) \/ x = e)
           /\ s # <<>> => Life!Log(s, e) # <<>> /\ Life!Log(s, e)[1] = s[1]
           /\ s = <<>> => Life!Log(s, e) = <<e>>
           /\ Life!Log(s, e) = <<"CONNECT_ERR">> => Life!Log(s, e) = s \/ (s = <<>> /\ e = "CONNECT_ERR")
<1>1. CASE e = "IO" /\ s # <<>> /\ s[Len(s)] = "IO"
  <2>1. Life!Log(s, e) = s /\ Len(s) \in DOMAIN s
    BY <1>1 DEF Life!Log
  <2>2. Life!Has(s, "IO")
    BY Zenon, <1>1, <2>1 DEF Life!Has
  <2>3. QED
    BY Zenon, <1>1, <2>1, <2>2
<1>2. CASE ~(e = "IO" /\ s # <<>> /\ s[Len(s)] = "IO")
  <2>1. Life!Log(s, e) = Append(s, e)
    BY <1>2 DEF Life!Log
  <2>2. /\ Append(s, e) \in Seq(Life!Event) /\ Len(Append(s, e)) = Len(s) + 1 /\ Len(s) \in Nat
        /\ \A i \in 1..Len(s) : Append(s, e)[i] = s[i]
        /\ Append(s, e)[Len(s) + 1] = e
    OBVIOUS
  <2>3. DOMAIN s = 1..Len(s) /\ DOMAIN Append(s, e) = 1..(Len(s) + 1)
    OBVIOUS
  <2>4. \A x \in Life!Event : Life!Has(Append(s, e), x) <=> (Life!Has(s, x) \/ x = e)
    <3> SUFFICES ASSUME NEW x \in Life!Event
                 PROVE  (\E i \in 1..(Len(s) + 1) : Append(s, e)[i] = x) <=> ((\E i \in 1..Len(s) : s[i] = x) \/ x = e)
      BY <2>3 DEF Life!Has
    <3>1. ASSUME NEW i \in 1..(Len(s) + 1), Append(s, e)[i] = x PROVE (\E j \in 1..Len(s) : s[j] = x) \/ x = e
      BY <2>2, <3>1
    <3>2. ASSUME NEW i \in 1..Len(s), s[i] = x PROVE \E j \in 1..(Len(s) + 1) : Append(s, e)[j] = x
      BY <2>2, <3>2
    <3>3. x = e => \E j \in 1..(Len(s) + 1) : Append(s, e)[j] = x
      BY <2>2
    <3>4. QED
      BY Zenon, <3>1, <3>2, <3>3
  <2>5. s # <<>> => Len(s) > 0 /\ Append(s, e) # <<>> /\ Append(s, e)[1] = s[1]
    BY <2>2
  <2>6. s = <<>> => Append(s, e) = <<e>>
    OBVIOUS
  <2>7. Append(s, e) = <<"CONNECT_ERR">> => s = <<>> /\ e = "CONNECT_ERR"
    <3> SUFFICES ASSUME Append(s, e) = <<"CONNECT_ERR">> PROVE s = <<>> /\ e = "CONNECT_ERR"
      OBVIOUS
    <3>1. Len(s) + 1 = 1
      BY <2>2
    <3>2. QED
      BY <2>2, <3>1
  <2>8. QED
    BY Zenon, <2>1, <2>4, <2>5, <2>6, <2>7
<1>3. QED
  BY Zenon, <1>1, <1>2

\* The first event lists.
LEMMA FirstFacts ==
    /\ \A x : ~Life!Has(<<>>, x)
    /\ \A x, y : Life!Has(<<x>>, y) <=> x = y
    /\ \A x : <<x>> # <<>> /\ <<x>>[1] = x
BY DEF Life!Has

\* A connect() that has failed is not reported twice.
LEMMA FailedOnce ==
    ASSUME Inv, Where, Failed, connect_done, NEW c, c \in live, c = cur
    PROVE  evts[c] # <<"CONNECT_ERR">>
<1>1. pc = "handle" /\ fd # {} /\ Handling
  BY DEF connect_done, Handling
<1>2. phase \in {"events", "loop", "sweep"} /\ (phase = "sweep" => fd = {})
  BY Zenon, <1>1 DEF Inv, Control, Where, Busy
<1>3. QED
  BY Zenon, <1>1, <1>2 DEF Failed

\* Every event comes in its place.
LEMMA ToldInOrder ==
    ASSUME Inv, Where, Places, Story, Failed, NEW c, c \in live, NEW e \in Life!Event, Told(c, e)
    PROVE  /\ Life!MayFollow(attr[c].kind, evts[c], e)
           /\ c = cur \/ (free_next /\ c = nxt)
           /\ ~Destroying /\ (e = "ACCEPT" => attr[c].kind = "tls")
<1>1. pc \in {"handle", "recv", "write", "tail", "free"}
  BY DEF Told, connect_done, plain, connected, sweep_close, free_next
<1>2. ~Destroying /\ lib_flags(c) = flags[c] /\ attr[c].kind \in Life!Kind
  <2>1. c \in Conn /\ attr[c] \in Attr
    BY DEF Inv, TypeOK, ConnType
  <2>2. QED
    BY Zenon, <1>1, <2>1, LibIsFlags DEF Destroying, Attr
<1>3. ~Life!Has(evts[c], "CLOSE")
  BY <1>2 DEF Story
<1>4. CASE e \in {"CONNECT_OK", "CONNECT_ERR"}
  <2>1. connect_done /\ c = cur /\ "CONNECTING" \in flags[c]
    BY Zenon, <1>4 DEF Told, connect_done
  <2>2. attr[c].kind = "client" /\ evts[c] = <<>>
    BY Zenon, <1>2, <2>1, FailedOnce DEF Story
  <2>3. QED
    BY Zenon, <1>2, <1>3, <1>4, <2>1, <2>2 DEF Life!MayFollow
<1>5. CASE e = "ACCEPT"
  <2>1. c = cur /\ attr[c].listener # NULL /\ attr[c].ssl /\ "SSL_HANDSHAKE_DONE" \notin flags[c]
    BY Zenon, <1>5 DEF Told
  <2>2. attr[c].kind = "tls" /\ ~Life!Has(evts[c], "ACCEPT")
    BY Zenon, <1>2, <2>1 DEF Story
  <2>3. QED
    BY Zenon, <1>2, <1>3, <1>5, <2>1, <2>2 DEF Life!MayFollow
<1>6. CASE e \in {"IO", "CLOSE"}
  <2>1. "CONNECTING" \notin flags[c] /\ (c = cur \/ (free_next /\ c = nxt))
    <3>1. CASE e = "CLOSE"
      BY Zenon, <3>1 DEF Told
    <3>2. CASE e = "IO"
      <4>1. c = cur /\ (plain(cur) \/ pc \in {"recv", "write"})
        BY Zenon, <3>2 DEF Told
      <4>2. pc \in {"recv", "write"} => "CONNECTING" \notin lib_flags(c)
        BY Zenon, <4>1 DEF Places, lib_flags
      <4>3. QED
        BY Zenon, <1>2, <4>1, <4>2 DEF plain, connected
    <3>3. QED
      BY Zenon, <1>6, <3>1, <3>2
  <2>2. attr[c].kind = "client" => evts[c] # <<>> /\ evts[c][1] = "CONNECT_OK"
    BY Zenon, <1>2, <2>1 DEF Story
  <2>3. QED
    BY Zenon, <1>2, <1>3, <1>6, <2>1, <2>2 DEF Life!MayFollow, Life!Kind
<1>7. QED
  BY Zenon, <1>4, <1>5, <1>6 DEF Life!Event

\* Steps keep Story for a connection that stays.
LEMMA StoryKept ==
    ASSUME Inv, Where, Places, Story, Failed, [Next]_vars, NEW c, c \in live, c \in live'
    PROVE  /\ Life!Has(evts'[c], "CLOSE") => Destroying' /\ dying' = c
           /\ attr'[c].kind = "client" =>
                 IF "CONNECTING" \in lib_flags(c)' THEN evts'[c] \in {<<>>, <<"CONNECT_ERR">>}
                 ELSE evts'[c] # <<>> /\ evts'[c][1] = "CONNECT_OK"
           /\ attr'[c].kind # "client" => "CONNECTING" \notin lib_flags(c)'
           /\ attr'[c].kind # "sock" => "LISTENING" \notin lib_flags(c)'
           /\ attr'[c].kind \in {"server", "tls"} => "UDP" \notin lib_flags(c)'
           /\ attr'[c].kind = "tls" /\ Life!Has(evts'[c], "ACCEPT") => "SSL_HANDSHAKE_DONE" \in lib_flags(c)'
           /\ attr'[c].kind = "server" => ~attr'[c].ssl
           /\ attr'[c].listener # NULL => attr'[c].kind \in {"server", "tls"}
<1>a. KeptFlags(c) /\ KeptData(c) /\ c \in Conn /\ evts[c] \in Seq(Life!Event)
  BY Zenon, FlagsStep, DataStep DEF Inv, TypeOK, ConnType, EventType
<1>b. evts'[c] = evts[c] \/ \E e \in Life!Event : evts'[c] = Life!Log(evts[c], e) /\ Told(c, e)
  BY Zenon, EventsStep
<1>c. "CLOSE" \in Life!Event /\ "ACCEPT" \in Life!Event
  BY Zenon DEF Life!Event
<1>1. Life!Has(evts'[c], "CLOSE") => Destroying' /\ dying' = c
  <2>1. ASSUME Life!Has(evts[c], "CLOSE") PROVE Destroying' /\ dying' = c
    <3>1. Destroying /\ dying = c
      BY Zenon, <2>1 DEF Story
    <3>2. ~destroy
      BY Zenon, <3>1 DEF destroy
    <3>3. QED
      BY Zenon, <3>1, <3>2, DyingStep DEF Inv
  <2>2. ASSUME NEW e \in Life!Event, evts'[c] = Life!Log(evts[c], e), Told(c, e), Life!Has(evts'[c], "CLOSE")
        PROVE  Destroying' /\ dying' = c
    <3>1. Life!Has(evts[c], "CLOSE") \/ e = "CLOSE"
      BY <1>a, <1>c, <2>2, LogFacts
    <3>2. QED
      BY Zenon, <2>1, <2>2, <3>1 DEF Told
  <2>3. QED
    BY Zenon, <1>b, <2>1, <2>2
<1>2. ASSUME attr'[c].kind = "client"
      PROVE  IF "CONNECTING" \in lib_flags(c)' THEN evts'[c] \in {<<>>, <<"CONNECT_ERR">>}
             ELSE evts'[c] # <<>> /\ evts'[c][1] = "CONNECT_OK"
  <2>a. attr[c].kind = "client"
    BY Zenon, <1>2, <1>a DEF KeptData
  <2>1. CASE connect_done /\ c = cur
    <3>1. evts[c] = <<>>
      <4>1. "CONNECTING" \in lib_flags(c)
        BY Zenon, <1>a, <2>1, LibIsFlags DEF connect_done
      <4>2. QED
        BY Zenon, <2>1, <2>a, <4>1, FailedOnce DEF Story
    <3>2. PICK e \in {"CONNECT_OK", "CONNECT_ERR"} : evts'[c] = Life!Log(evts[c], e) /\ Told(c, e)
      BY Zenon, <2>1, ConnectEvents
    <3>3. evts'[c] = <<e>>
      BY Zenon, <1>a, <3>1, <3>2, LogFacts DEF Life!Event
    <3>4. e = "CONNECT_OK" <=> "CONNECTING" \notin lib_flags(c)'
      BY Zenon, <3>2 DEF Told
    <3>5. QED
      BY Zenon, <3>3, <3>4, FirstFacts
  <2>2. CASE ~(connect_done /\ c = cur)
    <3>1. "CONNECTING" \in lib_flags(c)' <=> "CONNECTING" \in lib_flags(c)
      BY Zenon, <1>a, <2>2 DEF KeptFlags
    <3>2. ASSUME NEW e \in Life!Event, Told(c, e) PROVE evts[c] # <<>> /\ evts[c][1] = "CONNECT_OK"
      <4>1. e \notin {"CONNECT_OK", "CONNECT_ERR"}
        BY Zenon, <2>2, <3>2 DEF Told
      <4>2. Life!MayFollow("client", evts[c], e)
        BY Zenon, <2>a, <3>2, ToldInOrder
      <4>3. QED
        BY Zenon, <4>1, <4>2 DEF Life!MayFollow
    <3>3. "CONNECT_ERR" # "CONNECT_OK" /\ <<"CONNECT_ERR">>[1] = "CONNECT_ERR"
      OBVIOUS
    <3>4. CASE "CONNECTING" \in lib_flags(c)
      <4>1. evts[c] \in {<<>>, <<"CONNECT_ERR">>}
        BY Zenon, <2>a, <3>4 DEF Story
      <4>2. \A e \in Life!Event : ~Told(c, e)
        BY Zenon, <3>2, <3>3, <4>1
      <4>3. QED
        BY Zenon, <1>b, <3>1, <3>4, <4>1, <4>2
    <3>5. CASE "CONNECTING" \notin lib_flags(c)
      <4>1. evts[c] # <<>> /\ evts[c][1] = "CONNECT_OK"
        BY Zenon, <2>a, <3>5 DEF Story
      <4>2. QED
        BY <1>a, <1>b, <3>1, <3>5, <4>1, LogFacts
    <3>6. QED
      BY Zenon, <3>4, <3>5
  <2>3. QED
    BY Zenon, <2>1, <2>2
<1>3. /\ attr'[c].kind # "client" => "CONNECTING" \notin lib_flags(c)'
      /\ attr'[c].kind # "sock" => "LISTENING" \notin lib_flags(c)'
      /\ attr'[c].kind \in {"server", "tls"} => "UDP" \notin lib_flags(c)'
      /\ attr'[c].kind = "server" => ~attr'[c].ssl
      /\ attr'[c].listener # NULL => attr'[c].kind \in {"server", "tls"}
  BY Zenon, <1>a DEF KeptFlags, KeptData, Story
<1>4. ASSUME attr'[c].kind = "tls", Life!Has(evts'[c], "ACCEPT")
      PROVE  "SSL_HANDSHAKE_DONE" \in lib_flags(c)'
  <2>1. Life!Has(evts[c], "ACCEPT") => "SSL_HANDSHAKE_DONE" \in lib_flags(c)'
    BY Zenon, <1>4, <1>a DEF KeptFlags, KeptData, Story
  <2>2. ASSUME NEW e \in Life!Event, evts'[c] = Life!Log(evts[c], e), Told(c, e)
        PROVE  "SSL_HANDSHAKE_DONE" \in lib_flags(c)'
    <3>1. Life!Has(evts[c], "ACCEPT") \/ e = "ACCEPT"
      BY <1>4, <1>a, <1>c, <2>2, LogFacts
    <3>2. QED
      BY Zenon, <2>1, <2>2, <3>1 DEF Told
  <2>3. QED
    BY Zenon, <1>4, <1>b, <2>1, <2>2
<1>5. QED
  BY Zenon, <1>1, <1>2, <1>3, <1>4

\* Steps keep Story.
LEMMA StoryStep == Inv /\ Where /\ Places /\ Story /\ Failed /\ [Next]_vars => Story'
<1> SUFFICES ASSUME Inv, Where, Places, Story, Failed, [Next]_vars PROVE Story'
  BY Zenon
<1>1. ASSUME NEW c \in live', c \notin live
      PROVE  /\ Life!Has(evts'[c], "CLOSE") => Destroying' /\ dying' = c
             /\ attr'[c].kind = "client" =>
                   IF "CONNECTING" \in lib_flags(c)' THEN evts'[c] \in {<<>>, <<"CONNECT_ERR">>}
                   ELSE evts'[c] # <<>> /\ evts'[c][1] = "CONNECT_OK"
             /\ attr'[c].kind # "client" => "CONNECTING" \notin lib_flags(c)'
             /\ attr'[c].kind # "sock" => "LISTENING" \notin lib_flags(c)'
             /\ attr'[c].kind \in {"server", "tls"} => "UDP" \notin lib_flags(c)'
             /\ attr'[c].kind = "tls" /\ Life!Has(evts'[c], "ACCEPT") => "SSL_HANDSHAKE_DONE" \in lib_flags(c)'
             /\ attr'[c].kind = "server" => ~attr'[c].ssl
             /\ attr'[c].listener # NULL => attr'[c].kind \in {"server", "tls"}
  <2>1. Birth(c) /\ (connected(cur) => attr[cur] \in Attr)
    BY Zenon, <1>1, BirthStep DEF connected, Inv, NoDanglingCursor, TypeOK, ConnType
  <2>2. /\ NoAttr.listener = NULL /\ NoAttr.kind = "sock"
        /\ [NoAttr EXCEPT !.kind = "client"].listener = NULL /\ [NoAttr EXCEPT !.kind = "client"].kind = "client"
        /\ [NoAttr EXCEPT !.kind = "tls", !.ssl = TRUE].kind = "tls"
    BY DEF NoAttr
  <2>3. \A t \in Attr : \A k : /\ [t EXCEPT !.kind = k, !.listener = cur].kind = k
                               /\ [t EXCEPT !.kind = k, !.listener = cur].ssl = t.ssl
    BY DEF Attr
  <2>4. CASE evts'[c] = <<>> /\ attr'[c] \in {NoAttr, [NoAttr EXCEPT !.kind = "client"]}
             /\ ("CONNECTING" \in lib_flags(c)' <=> attr'[c].kind = "client")
             /\ ("LISTENING" \in lib_flags(c)' => attr'[c].kind = "sock")
    <3>1. ~Life!Has(evts'[c], "CLOSE") /\ ~Life!Has(evts'[c], "ACCEPT")
      BY <2>4, FirstFacts
    <3>2. attr'[c].kind \in {"sock", "client"} /\ attr'[c].listener = NULL
      BY Zenon, <2>2, <2>4
    <3>3. QED
      BY Zenon, <2>4, <3>1, <3>2
  <2>5. CASE connected(cur) /\ lib_flags(c)' = {} /\ ~attr[cur].ssl /\ evts'[c] = <<"ACCEPT">>
             /\ attr'[c] = [attr[cur] EXCEPT !.kind = "server", !.listener = cur]
    <3>1. attr'[c].kind = "server" /\ ~attr'[c].ssl
      BY <2>1, <2>3, <2>5
    <3>2. ~Life!Has(evts'[c], "CLOSE")
      BY <2>5, FirstFacts
    <3>3. QED
      BY Zenon, <2>5, <3>1, <3>2
  <2>6. CASE connected(cur) /\ lib_flags(c)' = {} /\ evts'[c] = <<>>
             /\ attr'[c] = [attr[cur] EXCEPT !.kind = "tls", !.listener = cur]
    <3>1. attr'[c].kind = "tls"
      BY <2>1, <2>3, <2>6
    <3>2. QED
      BY <2>6, <3>1, FirstFacts
  <2>7. CASE lib_flags(c)' = {} /\ attr'[c] = [NoAttr EXCEPT !.kind = "tls", !.ssl = TRUE]
             /\ evts'[c] = <<"CLOSE">> /\ Destroying' /\ dying' = c
    <3>1. attr'[c].kind = "tls" /\ ~Life!Has(evts'[c], "ACCEPT")
      BY <2>2, <2>7, FirstFacts
    <3>2. QED
      BY Zenon, <2>7, <3>1
  <2>8. QED
    BY Zenon, <2>1, <2>4, <2>5, <2>6, <2>7 DEF Birth
<1>2. QED
  BY Zenon, <1>1, StoryKept DEF Story

\* Steps keep Failed: a connect() that fails is closed by the last loop of the
\* same poll.
LEMMA FailedStep == Inv /\ Where /\ Places /\ Failed /\ [Next]_vars => Failed'
<1> SUFFICES ASSUME Inv, Where, Places, Failed, [Next]_vars, NEW c \in live', evts'[c] = <<"CONNECT_ERR">>
             PROVE  ( /\ "CLOSE_IMMEDIATELY" \in flags[c] /\ "CONNECTING" \in lib_flags(c)
                      /\ phase \notin {"none", "free"}
                      /\ phase = "events" => prog.epoll /\ ready[c] = {}
                      /\ phase = "loop" => ~Ahead(c)
                      /\ phase \in {"events", "loop"} /\ c = cur => pc # "handle"
                      /\ phase = "sweep" => Ahead(c) \/ (Busy /\ c = cur) )'
  BY Zenon DEF Failed
<1> USE ConstAssumption
<1>a. c \in live
  <2>1. <<"CONNECT_ERR">> \notin {<<>>, <<"ACCEPT">>, <<"CLOSE">>}
    <3>1. <<"CONNECT_ERR">>[1] = "CONNECT_ERR" /\ <<"ACCEPT">>[1] = "ACCEPT" /\ <<"CLOSE">>[1] = "CLOSE"
      OBVIOUS
    <3>2. QED
      BY <3>1
  <2>2. QED
    BY Zenon, <2>1, BirthStep DEF Birth
<1>b. c \in Conn /\ evts[c] \in Seq(Life!Event) /\ nxt \in live \cup {NULL} /\ live \subseteq Conn /\ next \in [Conn -> Ptr]
      /\ ready \in [Conn -> SUBSET {"R", "W", "E"}]
  BY Zenon, <1>a DEF Inv, TypeOK, ConnType, EventType, NoDanglingCursor, ListType, LoopType
<1>c. evts[c] = <<"CONNECT_ERR">> \/ Told(c, "CONNECT_ERR")
  <2>1. ASSUME NEW e \in Life!Event, evts'[c] = Life!Log(evts[c], e), Told(c, e)
        PROVE  evts[c] = <<"CONNECT_ERR">> \/ Told(c, "CONNECT_ERR")
    <3>1. Life!Log(evts[c], e) = <<"CONNECT_ERR">>
      BY Zenon, <2>1
    <3>2. Life!Log(evts[c], e) = evts[c] \/ e = "CONNECT_ERR"
      BY Zenon, <1>b, <3>1, LogFacts
    <3>3. QED
      BY Zenon, <2>1, <3>1, <3>2
  <2>2. QED
    BY Zenon, <1>a, <2>1, EventsStep
<1>1. CASE Told(c, "CONNECT_ERR")
  <2>1. connect_done /\ c = cur /\ "CLOSE_IMMEDIATELY" \in flags'[c] /\ "CONNECTING" \in lib_flags(c)'
    BY Zenon, <1>1 DEF Told
  <2>2. pc = "handle" /\ fd # {} /\ UNCHANGED <<phase, prog, ready, live, next, nxt, cur>> /\ pc' = "user"
    BY Zenon, <2>1 DEF connect_done, loopVars, connVars, listVars, ns_call
  <2>3. phase \in {"events", "loop"} /\ (phase = "events" => prog.epoll /\ ready[c] = {}) /\ (phase = "loop" => ~Ahead(c))
    BY Zenon, <2>1, <2>2 DEF Inv, Control, Handling, Where, Busy, Ahead
  <2>4. QED
    BY Zenon, <2>1, <2>2, <2>3 DEF Ahead
<1>2. CASE evts[c] = <<"CONNECT_ERR">>
  <2>a. /\ "CLOSE_IMMEDIATELY" \in flags[c] /\ "CONNECTING" \in lib_flags(c)
        /\ phase \notin {"none", "free"}
        /\ phase = "events" => prog.epoll /\ ready[c] = {}
        /\ phase = "loop" => ~Ahead(c)
        /\ phase \in {"events", "loop"} /\ c = cur => pc # "handle"
        /\ phase = "sweep" => Ahead(c) \/ (Busy /\ c = cur)
    BY Zenon, <1>2, <1>a DEF Failed
  <2>b. "CLOSE_IMMEDIATELY" \in flags'[c]
    <3>1. ~plain(c)
      BY Zenon, <1>b, <2>a, LibIsFlags DEF plain, connected
    <3>2. QED
      BY Zenon, <1>a, <2>a, <3>1, CloseKept
  <2>c. "CONNECTING" \in lib_flags(c)'
    BY Zenon, <1>2, <1>a, <2>a, FlagsStep, FailedOnce DEF KeptFlags
  <2>d. pc \in {"events", "loop", "sweep", "free"} => phase = pc
    BY Zenon DEF Inv, Control
  <2>s. SUFFICES ( /\ phase \notin {"none", "free"}
                   /\ phase = "events" => prog.epoll /\ ready[c] = {}
                   /\ phase = "loop" => ~Ahead(c)
                   /\ phase \in {"events", "loop"} /\ c = cur => pc # "handle"
                   /\ phase = "sweep" => Ahead(c) \/ (Busy /\ c = cur) )'
    BY Zenon, <2>b, <2>c
  <2>1. CASE Stay \/ (\E a \in Conn : Grow(a))
    <3>1. UNCHANGED walkVars /\ (Busy' <=> Busy) /\ (pc' = "handle" => pc = "handle") /\ live \subseteq live'
      BY Zenon, <2>1 DEF Stay, Grow, Onward
    <3>2. Ahead(c)' <=> Ahead(c)
      BY Zenon, <1>a, <1>b, <2>1, <3>1, ReachKept DEF Ahead, walkVars
    <3>3. QED
      BY Zenon, <2>a, <3>1, <3>2 DEF walkVars
  <2>2. CASE destroy
    <3>1. /\ UNCHANGED <<phase, cur, nxt, ready, prog>> /\ live' = live \ {dying} /\ Destroying
          /\ pc' = (IF dying = cur THEN phase ELSE "handled")
      BY Zenon, <2>2 DEF destroy, loopVars, goto, Destroying
    <3>2. dying \in live \ {nxt} /\ c # dying /\ phase # "handle"
      BY Zenon, <2>2, <3>1 DEF Inv, NoDanglingCursor, Destroying, TypeOK, LoopType
    <3>3. Ahead(c)' <=> Ahead(c)
      <4>1. nxt \in live' \cup {NULL}
        BY Zenon, <1>b, <3>1, <3>2
      <4>2. QED
        BY Zenon, <1>a, <1>b, <2>2, <3>1, <4>1, ReachKept DEF Ahead
    <3>4. c = cur => Busy'
      BY Zenon, <3>1, <3>2 DEF Busy, Handling
    <3>5. QED
      BY Zenon, <2>a, <3>1, <3>2, <3>3, <3>4
  <2>3. CASE Poll
    BY Zenon, <2>3, <2>a DEF Poll, ns_mgr_poll, Where
  <2>4. CASE \E a \in Conn : next_event(a)
    <3>1. PICK a \in Conn : next_event(a)
      BY Zenon, <2>4
    <3>2. /\ phase = "events" /\ UNCHANGED <<phase, prog>> /\ ready[a] # {} /\ cur' = a
          /\ ready' = [ready EXCEPT ![a] = {}]
      BY Zenon, <2>d, <3>1 DEF next_event
    <3>3. c # a /\ ready'[c] = {}
      BY Zenon, <1>b, <2>a, <3>2
    <3>4. QED
      BY Zenon, <2>a, <3>2, <3>3
  <2>5. CASE events_done \/ loop_done
    <3>1. nxt' = head /\ phase' = "sweep" /\ UNCHANGED <<live, next>>
      BY Zenon, <2>5, <2>a, <2>d DEF events_done, loop_done, listVars, connVars
    <3>2. Reach(live, next, head, c)
      BY Zenon, <1>a, ReachHead DEF Inv
    <3>3. QED
      BY Zenon, <3>1, <3>2 DEF Ahead
  <2>6. CASE loop_next
    <3>1. nxt \in live /\ phase = "loop" /\ UNCHANGED <<phase, live, next>> /\ cur' = nxt /\ nxt' = next[nxt]
      BY Zenon, <1>b, <2>6, <2>d DEF loop_next, connVars, listVars
    <3>2. nxt # NULL
      BY Zenon, <1>b, <3>1
    <3>3. c # nxt /\ ~Reach(live, next, next[nxt], c)
      BY Zenon, <2>a, <3>1, <3>2, ReachBack DEF Ahead
    <3>4. QED
      BY Zenon, <2>a, <3>1, <3>2, <3>3 DEF Ahead
  <2>7. CASE handled
    <3>1. UNCHANGED <<phase, cur, nxt, ready, prog, live, next>> /\ pc' = (IF phase = "sweep" THEN "tail" ELSE phase)
      BY Zenon, <2>7 DEF handled, loopVars, listVars, goto
    <3>2. phase # "handle" /\ (phase = "sweep" => Busy')
      BY Zenon, <3>1 DEF Busy, Handling, Inv, TypeOK, LoopType
    <3>3. QED
      BY Zenon, <2>a, <3>1, <3>2 DEF Ahead
  <2>8. CASE sweep_next
    <3>1. nxt \in live /\ phase = "sweep" /\ UNCHANGED <<phase, live, next>> /\ cur' = nxt /\ nxt' = next[nxt]
          /\ pc' \in {"handle", "tail"} /\ ~Busy
      BY Zenon, <1>b, <2>8, <2>d DEF sweep_next, listVars, goto, Busy, Handling, Destroying
    <3>2. c # nxt => Reach(live, next, next[nxt], c)
      BY Zenon, <2>a, <3>1, ReachNext DEF Ahead
    <3>3. QED
      BY Zenon, <2>a, <3>1, <3>2 DEF Ahead, Busy, Handling
  <2>9. CASE sweep_done
    <3>1. phase = "sweep" /\ nxt = NULL /\ ~Busy
      BY Zenon, <2>9, <2>d DEF sweep_done, Busy, Handling, Destroying
    <3>2. QED
      BY Zenon, <2>a, <3>1, ReachEnd DEF Ahead
  <2>10. CASE sweep_keep
    <3>1. c # cur /\ phase = "sweep" /\ UNCHANGED <<phase, nxt, live, next>>
      BY Zenon, <2>10, <2>a DEF sweep_keep, must_close, loopVars, connVars, listVars, Inv, Control
    <3>2. QED
      BY Zenon, <2>a, <3>1 DEF Ahead
  <2>11. CASE free_next \/ free_done
    BY Zenon, <2>11, <2>a, <2>d DEF free_next, free_done
  <2>12. QED
    BY Zenon, <2>1, <2>2, <2>3, <2>4, <2>5, <2>6, <2>7, <2>8, <2>9, <2>10, <2>11, Moves
<1>3. QED
  BY Zenon, <1>1, <1>2, <1>c

\* Steps keep Dies.
LEMMA DiesStep == Inv /\ Places /\ Dies /\ [Next]_vars => Dies'
<1> SUFFICES ASSUME Inv, Places, Dies, [Next]_vars, Destroying', NEW d, d = dying'
             PROVE  Life!Has(evts'[d], "CLOSE") \/ "CONNECTING" \in lib_flags(d)'
  BY Zenon DEF Dies, lib_flags
<1>a. d \in live' /\ live \subseteq Conn /\ evts \in [Conn -> Seq(Life!Event)] /\ "CLOSE" \in Life!Event
  <2>1. Inv'
    BY Zenon, InvStep
  <2>2. QED
    BY Zenon, <2>1 DEF Inv, NoDanglingCursor, Destroying, TypeOK, ConnType, EventType, Life!Event
<1>1. CASE Destroying /\ dying' = dying
  <2>1. d \in live /\ (Life!Has(evts[d], "CLOSE") \/ "CONNECTING" \in lib_flags(d)) /\ ~connect_done
    BY Zenon, <1>1 DEF Inv, NoDanglingCursor, Destroying, Dies, connect_done, lib_flags
  <2>2. "CONNECTING" \in lib_flags(d) => "CONNECTING" \in lib_flags(d)'
    BY Zenon, <1>a, <2>1, FlagsStep DEF KeptFlags
  <2>3. Life!Has(evts[d], "CLOSE") => Life!Has(evts'[d], "CLOSE")
    <3>1. evts'[d] = evts[d] \/ \E e \in Life!Event : evts'[d] = Life!Log(evts[d], e)
      BY Zenon, <1>a, <2>1, EventsStep
    <3>2. evts[d] \in Seq(Life!Event)
      BY Zenon, <1>a, <2>1
    <3>3. QED
      BY <1>a, <3>1, <3>2, LogFacts
  <2>4. QED
    BY Zenon, <2>1, <2>2, <2>3
<1>2. CASE accept_conn /\ dying' \notin live
  <2>1. Birth(d) /\ pc = "handle"
    BY Zenon, <1>2, <1>a, BirthStep DEF accept_conn, connected
  <2>2. evts'[d] = <<"CLOSE">>
    BY Zenon, <2>1 DEF Birth, Destroying
  <2>3. QED
    BY Zenon, <2>2, FirstFacts
<1>3. CASE (sweep_close /\ dying' = cur) \/ (free_next /\ dying' = nxt)
  <2>1. ns_close_conn(d) /\ d \in live /\ d \in Conn /\ pc # "user" /\ evts[d] \in Seq(Life!Event)
    BY Zenon, <1>3, <1>a DEF sweep_close, free_next, Inv, NoDanglingCursor
  <2>2. CASE "CONNECTING" \in flags[d]
    BY Zenon, <2>1, <2>2, CloseFlags, LibIsFlags
  <2>3. CASE "CONNECTING" \notin flags[d]
    <3>1. evts'[d] = Life!Log(evts[d], "CLOSE")
      BY Zenon, <1>a, <2>1, <2>3 DEF ns_close_conn, ns_call
    <3>2. QED
      BY <1>a, <2>1, <3>1, LogFacts
  <2>4. QED
    BY Zenon, <2>2, <2>3
<1>4. QED
  BY Zenon, <1>1, <1>2, <1>3, DyingStep DEF Inv

\* The events each live connection has seen fit what it is, in every reachable
\* state.
THEOREM LifeInvariance == Spec => [](Inv /\ Where /\ Places /\ Story /\ Failed /\ Dies)
<1>1. Init => Story /\ Failed /\ Dies
  BY DEF Init, Story, Failed, Dies, Destroying
<1>2. QED
  BY <1>1, OrderInvariance, StoryStep, FailedStep, DiesStep, PTL DEF Spec

-----------------------------------------------------------------------------

\* Opening a connection is Lifecycle's Open.
LEMMA OpenStep ==
    ASSUME Inv, Where, Places, Story, Failed, [Next]_vars, NEW c \in live' \ live
    PROVE  Life!Open(c)
<1>a. Inv /\ Inv'
  BY Zenon, InvStep
<1>b. live \subseteq Conn /\ live' \subseteq Conn /\ c \in Conn /\ attr'[c].kind \in Life!Kind
  BY Zenon, <1>a DEF Inv, TypeOK, ConnType, Attr
<1>c. Birth(c) /\ (connected(cur) => attr[cur] \in Attr)
  BY Zenon, BirthStep DEF connected, Inv, NoDanglingCursor, TypeOK, ConnType
<1>1. live' = live \cup {c}
  <2>1. CASE Stay \/ destroy
    BY Zenon, <2>1 DEF Stay, destroy
  <2>2. CASE Poll \/ (\E a \in Conn : next_event(a)) \/ events_done \/ loop_next \/ loop_done \/ handled \/ sweep_next
        \/ sweep_done \/ sweep_keep \/ free_next \/ free_done
    <3>1. live' = live
      BY <2>2, Zenon DEF Poll, ns_mgr_poll, next_event, events_done, loop_next, loop_done, handled, sweep_next, sweep_done,
         sweep_keep, free_next, free_done, connVars
    <3>2. QED
      BY Zenon, <3>1
  <2>3. CASE \E a \in Conn : Grow(a)
    BY Zenon, <2>3 DEF Grow
  <2>4. QED
    BY Zenon, <2>1, <2>2, <2>3, Moves
<1>2. ASSUME NEW d \in live PROVE evts'[d] = evts[d] /\ attr'[d].kind = attr[d].kind
  <2>1. ASSUME NEW e \in Life!Event, Told(d, e) PROVE FALSE
    <3>1. pc \in {"handle", "recv", "write", "tail", "free"} /\ (pc = "handle" => connect_done \/ plain(cur))
      BY Zenon, <2>1 DEF Told, connect_done, plain, connected, sweep_close, free_next
    <3>2. QED
      BY Zenon, <1>c, <3>1 DEF Birth, connected, plain, connect_done
  <2>2. QED
    BY Zenon, <1>1, <2>1, EventsStep, DataStep DEF KeptData
<1>3. BlockKind[c] = "free" /\ BlockKind' = [BlockKind EXCEPT ![c] = attr'[c].kind]
  <2>1. \A d \in live' : attr'[d].kind = IF d = c THEN attr'[c].kind ELSE attr[d].kind
    BY Zenon, <1>1, <1>2
  <2>2. QED
    BY Zenon, <1>b, <1>1, <2>1 DEF BlockKind
<1>4. BlockEvts' = [BlockEvts EXCEPT ![c] = evts'[c]]
  <2>1. \A d \in live' : evts'[d] = IF d = c THEN evts'[c] ELSE evts[d]
    BY Zenon, <1>1, <1>2
  <2>2. QED
    BY Zenon, <1>b, <1>1, <2>1 DEF BlockEvts
<1>5. evts'[c] \in Life!FirstEvents(attr'[c].kind)
  <2>1. /\ NoAttr.kind = "sock" /\ [NoAttr EXCEPT !.kind = "client"].kind = "client"
        /\ [NoAttr EXCEPT !.kind = "tls", !.ssl = TRUE].kind = "tls"
    BY DEF NoAttr
  <2>2. \A t \in Attr : \A k : [t EXCEPT !.kind = k, !.listener = cur].kind = k
    BY Zenon DEF Attr
  <2>3. \/ evts'[c] = <<>> /\ attr'[c].kind \in {"sock", "client", "tls"}
        \/ evts'[c] = <<"ACCEPT">> /\ attr'[c].kind = "server"
        \/ evts'[c] = <<"CLOSE">> /\ attr'[c].kind = "tls"
    <3>1. CASE evts'[c] = <<>> /\ attr'[c] \in {NoAttr, [NoAttr EXCEPT !.kind = "client"]}
      BY Zenon, <2>1, <3>1
    <3>2. CASE connected(cur) /\ evts'[c] = <<"ACCEPT">>
               /\ attr'[c] = [attr[cur] EXCEPT !.kind = "server", !.listener = cur]
      BY <1>c, <2>2, <3>2
    <3>3. CASE connected(cur) /\ evts'[c] = <<>> /\ attr'[c] = [attr[cur] EXCEPT !.kind = "tls", !.listener = cur]
      BY <1>c, <2>2, <3>3
    <3>4. CASE attr'[c] = [NoAttr EXCEPT !.kind = "tls", !.ssl = TRUE] /\ evts'[c] = <<"CLOSE">>
      BY Zenon, <2>1, <3>4
    <3>5. QED
      BY Zenon, <1>c, <3>1, <3>2, <3>3, <3>4 DEF Birth
  <2>4. QED
    BY Zenon, <2>3 DEF Life!FirstEvents
<1>6. QED
  BY Zenon, <1>b, <1>3, <1>4, <1>5 DEF Life!Open

\* Freeing one is Lifecycle's Free.
LEMMA FreeStep ==
    ASSUME Inv, Where, Places, Story, Failed, Dies, [Next]_vars, destroy, NEW c, c = dying
    PROVE  Life!Free(c)
<1>a. Destroying /\ c \in live /\ live \subseteq Conn /\ live' = live \ {c} /\ attr[c].kind \in Life!Kind
  BY Zenon DEF destroy, Destroying, Inv, NoDanglingCursor, TypeOK, ConnType, Attr
<1>1. \A d \in live' : evts'[d] = evts[d] /\ attr'[d] = attr[d]
  BY Zenon, <1>a DEF destroy, Inv, TypeOK, ConnType, EventType
<1>2. BlockKind[c] = attr[c].kind /\ BlockEvts[c] = evts[c] /\ attr[c].kind # "free"
  BY <1>a DEF BlockKind, BlockEvts, Life!Kind
<1>3. BlockKind' = [BlockKind EXCEPT ![c] = "free"] /\ BlockEvts' = [BlockEvts EXCEPT ![c] = <<>>]
  BY Zenon, <1>a, <1>1 DEF BlockKind, BlockEvts
<1>4. Life!MayFree(attr[c].kind, evts[c])
  BY Zenon, <1>a DEF Dies, Story, Life!MayFree, lib_flags
<1>5. QED
  BY Zenon, <1>2, <1>3, <1>4 DEF Life!Free

\* An event for a connection is Lifecycle's Notify; every other step does not
\* show there.
LEMMA NotifyStep ==
    ASSUME Inv, Where, Places, Story, Failed, [Next]_vars, live' = live
    PROVE  UNCHANGED <<BlockKind, BlockEvts>> \/ \E c \in Conn : Life!Notify(c)
<1>a. live \subseteq Conn /\ \A c \in live : attr[c].kind \in Life!Kind
  BY Zenon DEF Inv, TypeOK, ConnType, Attr
<1>b. \A c \in live : attr'[c].kind = attr[c].kind
  BY Zenon, DataStep DEF KeptData
<1>1. UNCHANGED BlockKind
  BY Zenon, <1>b DEF BlockKind
<1>2. CASE \A c \in live : evts'[c] = evts[c]
  <2>1. UNCHANGED BlockEvts
    BY <1>2 DEF BlockEvts
  <2>2. QED
    BY Zenon, <1>1, <2>1
<1>3. CASE \E c \in live : evts'[c] # evts[c]
  <2>1. PICK c \in live : evts'[c] # evts[c]
    BY Zenon, <1>3
  <2>2. PICK e \in Life!Event : evts'[c] = Life!Log(evts[c], e) /\ Told(c, e)
    BY Zenon, <2>1, EventsStep
  <2>3. Life!MayFollow(attr[c].kind, evts[c], e) /\ (c = cur \/ (free_next /\ c = nxt))
    BY Zenon, <2>2, ToldInOrder
  <2>4. ASSUME NEW d \in live, d # c PROVE evts'[d] = evts[d]
    <3>1. ASSUME NEW x \in Life!Event, Told(d, x) PROVE FALSE
      <4>1. d = cur \/ (free_next /\ d = nxt)
        BY Zenon, <3>1, ToldInOrder
      <4>2. free_next => pc = "free" /\ Told(c, e) /\ Told(d, x)
        BY Zenon, <2>2, <3>1 DEF free_next
      <4>3. free_next => c = nxt /\ d = nxt
        BY Zenon, <4>2 DEF Told, connect_done, plain, connected, sweep_close
      <4>4. QED
        BY Zenon, <2>3, <2>4, <4>1, <4>3
    <3>2. QED
      BY Zenon, <3>1, EventsStep
  <2>5. BlockKind[c] = attr[c].kind /\ BlockEvts[c] = evts[c] /\ attr[c].kind # "free"
    BY Zenon, <1>a DEF BlockKind, BlockEvts, Life!Kind
  <2>6. BlockEvts' = [BlockEvts EXCEPT ![c] = Life!Log(BlockEvts[c], e)]
    <3>1. \A d \in live : evts'[d] = IF d = c THEN Life!Log(evts[c], e) ELSE evts[d]
      BY Zenon, <2>2, <2>4
    <3>2. QED
      BY Zenon, <1>a, <2>5, <3>1 DEF BlockEvts
  <2>7. QED
    BY Zenon, <1>a, <1>1, <2>3, <2>5, <2>6 DEF Life!Notify
<1>4. QED
  BY Zenon, <1>2, <1>3

\* EventLoop implements Lifecycle: in every program, whatever the application
\* opens, flags, sends or breaks off in its handlers, a handler hears of the
\* connect result first, of NS_ACCEPT once, of NS_CLOSE last and once, and a
\* connection is freed only after NS_CLOSE or a connect() that did not succeed.
THEOREM LoopRefinesLifecycle == Spec => RefinesLifecycle
<1>1. Init => Life!Init
  BY DEF Init, Life!Init, BlockKind, BlockEvts
<1>2. Inv /\ Where /\ Places /\ Story /\ Failed /\ Dies /\ [Next]_vars => [Life!Next]_<<BlockKind, BlockEvts>>
  <2> SUFFICES ASSUME Inv, Where, Places, Story, Failed, Dies, [Next]_vars
               PROVE  Life!Next \/ UNCHANGED <<BlockKind, BlockEvts>>
    BY Zenon
  <2>a. live \subseteq Conn /\ live' \subseteq Conn
    <3>1. Inv'
      BY Zenon, InvStep
    <3>2. QED
      BY Zenon, <3>1 DEF Inv, TypeOK, ConnType
  <2>1. CASE \E c \in live' : c \notin live
    BY Zenon, <2>1, <2>a, OpenStep DEF Life!Next
  <2>2. CASE destroy
    <3>1. dying \in Conn
      BY Zenon, <2>2, <2>a DEF destroy, Inv, NoDanglingCursor
    <3>2. QED
      BY Zenon, <2>2, <3>1, FreeStep DEF Life!Next
  <2>3. CASE ~destroy /\ live' \subseteq live
    <3>1. live' = live
      <4>1. Stay \/ (\E a \in Conn : Grow(a)) => live \subseteq live'
        BY DEF Stay, Grow
      <4>2. Poll \/ (\E a \in Conn : next_event(a)) \/ events_done \/ loop_next \/ loop_done \/ handled \/ sweep_next
            \/ sweep_done \/ sweep_keep \/ free_next \/ free_done => live' = live
        BY Zenon DEF Poll, ns_mgr_poll, next_event, events_done, loop_next, loop_done, handled, sweep_next, sweep_done,
           sweep_keep, free_next, free_done, connVars
      <4>3. QED
        BY Zenon, <2>3, <4>1, <4>2, Moves
    <3>2. QED
      BY Zenon, <3>1, NotifyStep DEF Life!Next
  <2>4. QED
    BY Zenon, <2>1, <2>2, <2>3
<1>3. QED
  BY <1>1, <1>2, LifeInvariance, PTL DEF Spec, RefinesLifecycle, Life!Spec, Life!vars

=============================================================================
