--------------------------- MODULE EventLoopProofs ---------------------------
(***************************************************************************)
(* Proofs about EventLoop, for any set of connections, either build, any   *)
(* use of the library by the application and any bounds.                   *)
(*                                                                         *)
(* First that every step keeps the types, which alone are not inductive: a *)
(* step that follows a pointer the thread holds needs that the pointer is  *)
(* not dangling, and that the thread is where Control says.                *)
(***************************************************************************)
EXTENDS EventLoop, TLAPS

\* Where the thread is handling cur: in library code, or in a handler that
\* was called from there.
Handling ==
    \/ pc \in {"handle", "recv", "write", "handled", "tail"}
    \/ pc = "user" /\ call.ret \in {"recv", "write", "handled"}

Destroying == pc = "destroy" \/ (pc = "user" /\ call.ret = "destroy")

\* pc, phase and call fit together.
Control ==
    /\ pc \in {"events", "loop", "sweep", "free"} => phase = pc
    /\ pc = "tail" => phase = "sweep"
    /\ Handling => phase \in {"events", "loop", "sweep"}
    /\ pc = "user" => call.ret # "idle"
    /\ pc = "user" /\ call.ret = "events" => phase = "events"
    /\ pc # "user" => call = NoCall
    /\ Destroying => IF dying = cur THEN phase \in {"sweep", "free"}
                     ELSE cur \in live /\ phase \in {"events", "loop", "sweep"}
    /\ ctlev => ctl > 0

-----------------------------------------------------------------------------

\* The list of events a handler has seen stays one when an event is logged.
LEMMA LogType ==
    ASSUME NEW s \in Seq(Life!Event), NEW e \in Life!Event
    PROVE  Life!Log(s, e) \in Seq(Life!Event)
BY DEF Life!Log

\* The event lists a new connection may start with.
LEMMA FirstType == <<"ACCEPT">> \in Seq(Life!Event) /\ <<"CLOSE">> \in Seq(Life!Event)
                   /\ <<>> \in Seq(Life!Event)
BY DEF Life!Event

\* A pointer is NULL or a connection.
LEMMA PtrFacts == NULL \in Ptr /\ (\A c \in Conn : c \in Ptr /\ c # NULL)
                  /\ (\A p \in Ptr : p # NULL => p \in Conn)
BY Zenon, ConstAssumption DEF Ptr

\* Groups of variables a step leaves alone keep their types.
LEMMA Frames ==
    ASSUME TypeOK
    PROVE  /\ UNCHANGED listVars => ListType'
           /\ UNCHANGED connVars => ConnType'
           /\ UNCHANGED <<flags, evts>> => EventType'
           /\ UNCHANGED loopVars => LoopType'
           /\ UNCHANGED kernVars => KernType'
BY Zenon DEF TypeOK, ListType, ConnType, EventType, LoopType, KernType, listVars, connVars, loopVars, kernVars

\* Changing one field of one socket, as the kernel and the read loop do.
LEMMA SockUpdate ==
    ASSUME NEW f \in [Conn -> Sock], NEW c \in Conn
    PROVE  /\ \A n \in Nat : [f EXCEPT ![c].inq = n] \in [Conn -> Sock]
           /\ \A w \in BOOLEAN : [f EXCEPT ![c].wr = w] \in [Conn -> Sock]
<1>1. ASSUME NEW t \in Sock PROVE [f EXCEPT ![c] = t] \in [Conn -> Sock]
  BY Zenon
<1>2. f[c] \in Sock
  BY Zenon
<1>3. ASSUME NEW n \in Nat PROVE [f[c] EXCEPT !.inq = n] \in Sock
  BY Zenon, <1>2 DEF Sock
<1>4. ASSUME NEW w \in BOOLEAN PROVE [f[c] EXCEPT !.wr = w] \in Sock
  BY Zenon, <1>2 DEF Sock
<1>5. QED
  BY Zenon, <1>1, <1>3, <1>4

\* Calling a handler.
LEMMA NsCallType ==
    ASSUME EventType, NEW c \in Conn, NEW f \in SUBSET Flag, NEW log \in Seq(Life!Event),
           NEW ret \in ReturnTo, ns_call(c, f, log, ret)
    PROVE  EventType' /\ ThreadType'
BY Zenon, PtrFacts DEF ns_call, EventType, ThreadType, Label

\* Moving on inside the library.
LEMMA GotoType ==
    ASSUME ThreadType, NEW l \in Label, goto(l)
    PROVE  ThreadType'
BY Zenon, PtrFacts DEF goto, ThreadType

\* The fields a new connection starts with.
LEMMA AttrUpdate ==
    /\ NoAttr \in Attr /\ [NoAttr EXCEPT !.kind = "client"] \in Attr
    /\ [NoAttr EXCEPT !.kind = "tls", !.ssl = TRUE] \in Attr
    /\ \A a \in Attr : \A p \in Ptr : \A k \in {"server", "tls"} : [a EXCEPT !.kind = k, !.listener = p] \in Attr
BY Zenon, ConstAssumption, PtrFacts DEF NoAttr, Attr, Life!Kind

\* ns_add_conn() and the fields its callers fill in.
LEMMA NewConnType ==
    ASSUME ListType, ConnType, KernType, NEW c \in Conn, NEW a \in Attr, NEW f \in SUBSET Flag,
           NEW s \in [Conn -> Sock], new_conn(c, a, f, s)
    PROVE  /\ ListType' /\ ConnType'
           /\ sk' \in [Conn -> Sock] /\ reg' \in [Conn -> SUBSET {"R", "W"}]
<1>1. ListType'
  BY Zenon, PtrFacts DEF new_conn, ns_add_conn, ListType
<1>2. ConnType'
  BY Zenon DEF new_conn, ConnType
<1>3. sk' \in [Conn -> Sock]
  BY Zenon DEF new_conn, KernType, Sock, NoSock
<1>4. reg' \in [Conn -> SUBSET {"R", "W"}]
  BY Zenon DEF new_conn, KernType, epoll_set_flags
<1>5. QED
  BY Zenon, <1>1, <1>2, <1>3, <1>4

\* The application's calls keep the types.
LEMMA ApplicationType == TypeOK /\ NoDanglingCursor /\ Application => TypeOK'
<1> SUFFICES ASSUME TypeOK, NoDanglingCursor, Application PROVE TypeOK'
  BY Zenon
<1> USE ConstAssumption
<1>1. CASE handler_return
  <2>1. EventType' /\ ThreadType'
    BY Zenon, <1>1, PtrFacts DEF handler_return, masked, NoCall, TypeOK, EventType, ThreadType, Label, ReturnTo
  <2>2. QED
    BY Zenon, <1>1, <2>1, Frames DEF handler_return, TypeOK, listVars, connVars, loopVars, kernVars
<1>2. ASSUME NEW name, in_application(name)
      PROVE  api' \in Nat /\ env' \in Nat /\ ThreadType' /\ LoopType' /\ ctl' \in Nat /\ ctlev' \in BOOLEAN
  BY <1>2, Frames DEF in_application, TypeOK, ThreadType, KernType, loopVars
<1>3. ASSUME NEW c \in Conn, NEW a \in Attr, NEW f \in SUBSET Flag, NEW name, in_application(name),
             new_conn(c, a, f, sk), flags' = [flags EXCEPT ![c] = f],
             evts' = [evts EXCEPT ![c] = <<>>]
      PROVE  TypeOK'
  <2>1. ListType' /\ ConnType' /\ sk' \in [Conn -> Sock] /\ reg' \in [Conn -> SUBSET {"R", "W"}]
    BY <1>3, NewConnType, PtrFacts, Zenon DEF TypeOK, KernType
  <2>2. EventType'
    BY Zenon, <1>3, FirstType DEF TypeOK, EventType
  <2>3. QED
    BY Zenon, <1>2, <1>3, <2>1, <2>2 DEF TypeOK, KernType
<1>a. NoAttr \in Attr /\ [NoAttr EXCEPT !.kind = "client"] \in Attr
  BY Zenon, AttrUpdate
<1>4. ASSUME NEW c \in Conn, ns_connect_opt(c) PROVE TypeOK'
  BY <1>3, <1>4, <1>a, Zenon DEF ns_connect_opt, Flag, Lib
<1>5. ASSUME NEW c \in Conn, ns_bind_opt(c) PROVE TypeOK'
  BY <1>3, <1>5, <1>a, Zenon DEF ns_bind_opt, Flag, Lib
<1>6. ASSUME NEW c \in Conn, ns_send(c) \/ consume(c) PROVE TypeOK'
  <2>1. ConnType'
    BY <1>6 DEF ns_send, consume, TypeOK, ConnType
  <2>2. ListType' /\ EventType' /\ sk' = sk /\ reg' = reg
    BY Zenon, <1>6, Frames DEF ns_send, consume, TypeOK, listVars
  <2>3. api' \in Nat /\ env' \in Nat /\ ThreadType' /\ LoopType' /\ ctl' \in Nat /\ ctlev' \in BOOLEAN
    BY Zenon, <1>2, <1>6 DEF ns_send, consume
  <2>4. QED
    BY Zenon, <2>1, <2>2, <2>3 DEF TypeOK, KernType
<1>7. ASSUME NEW c \in Conn, NEW f \in Flag, set_flag(c, f) PROVE TypeOK'
  BY Zenon, <1>2, <1>7, Frames DEF set_flag, TypeOK, EventType, KernType
<1>8. ASSUME NEW c \in Conn, clear_dont_send(c) PROVE TypeOK'
  BY Zenon, <1>2, <1>8, Frames DEF clear_dont_send, TypeOK, EventType, KernType
<1>9. ASSUME NEW c \in Conn, set_limit(c) \/ ns_set_ssl(c) PROVE TypeOK'
  <2>1. attr' \in [Conn -> Attr]
    <3>1. CASE set_limit(c)
      BY Zenon, <3>1 DEF set_limit, TypeOK, ConnType, Attr
    <3>2. CASE ns_set_ssl(c)
      BY <3>2, Zenon DEF ns_set_ssl, TypeOK, ConnType, Attr
    <3>3. QED
      BY Zenon, <1>9, <3>1, <3>2
  <2>2. ConnType'
    BY Zenon, <1>9, <2>1 DEF set_limit, ns_set_ssl, TypeOK, ConnType
  <2>3. ListType' /\ EventType' /\ sk' = sk /\ reg' = reg
    BY Zenon, <1>9, Frames DEF set_limit, ns_set_ssl, TypeOK, listVars
  <2>4. api' \in Nat /\ env' \in Nat /\ ThreadType' /\ LoopType' /\ ctl' \in Nat /\ ctlev' \in BOOLEAN
    BY Zenon, <1>2, <1>9 DEF set_limit, ns_set_ssl
  <2>5. QED
    BY <2>2, <2>3, <2>4 DEF TypeOK, KernType
<1>10. QED
  BY Zenon, <1>1, <1>4, <1>5, <1>6, <1>7, <1>8, <1>9 DEF Application

\* ns_mgr_handle_connection() keeps the types.
LEMMA HandleType == TypeOK /\ NoDanglingCursor /\ HandleConnection => TypeOK'
<1> SUFFICES ASSUME TypeOK, NoDanglingCursor, HandleConnection PROVE TypeOK'
  OBVIOUS
<1> USE ConstAssumption
<1>a. \A c \in Conn : flags[c] \in SUBSET Flag /\ evts[c] \in Seq(Life!Event)
  BY Zenon DEF TypeOK, EventType
<1>b. \A c \in Conn : sk[c] \in Sock /\ attr[c] \in Attr
  BY Zenon DEF TypeOK, KernType, ConnType
<1>c. {"IO", "ACCEPT", "CONNECT_OK", "CONNECT_ERR"} \subseteq Life!Event
  BY Zenon DEF Life!Event
<1>d. {"WANT_READ", "WANT_WRITE", "CLOSE_IMMEDIATELY", "SSL_HANDSHAKE_DONE", "UDP"} \subseteq Flag
  BY Zenon DEF Flag, Lib, User
<1>e. pc \in {"handle", "recv", "write"} => cur \in Conn
  BY Zenon DEF TypeOK, ConnType, NoDanglingCursor
<1>f. {"recv", "write", "handled", "destroy"} \subseteq ReturnTo /\ ReturnTo \subseteq Label
  BY Zenon DEF ReturnTo, Label
<1>g. \A f \in SUBSET Flag : \A o \in SslOutcome : ns_ssl_begin(f, o) \in SUBSET Flag
  BY Zenon, <1>d DEF SslOutcome, ns_ssl_begin
<1>1. CASE connecting_wait \/ listener_idle \/ skip_read \/ skip_write
  BY Zenon, <1>1, <1>f, Frames, GotoType DEF connecting_wait, listener_idle, skip_read, skip_write, quiet, TypeOK
<1>2. CASE connect_done
  <2> PICK o \in SslOutcome \cup {"none"} :
        LET f0 == IF o = "none" THEN flags[cur] ELSE ns_ssl_begin(flags[cur], o) IN
        IF sk[cur].syn = "err"
        THEN ns_call(cur, flags[cur] \cup {"CLOSE_IMMEDIATELY"},
                     Life!Log(evts[cur], "CONNECT_ERR"), "handled")
        ELSE ns_call(cur, f0 \ {"CONNECTING"}, Life!Log(evts[cur], "CONNECT_OK"), "handled")
    BY <1>2, Zenon DEF connect_done
  <2> DEFINE f0 == IF o = "none" THEN flags[cur] ELSE ns_ssl_begin(flags[cur], o)
  <2>1. cur \in Conn /\ f0 \in SUBSET Flag
    BY Zenon, <1>2, <1>a, <1>e, <1>g DEF connect_done
  <2>2. Life!Log(evts[cur], "CONNECT_ERR") \in Seq(Life!Event)
        /\ Life!Log(evts[cur], "CONNECT_OK") \in Seq(Life!Event)
    BY Zenon, <2>1, <1>a, <1>c, LogType
  <2>3. EventType' /\ ThreadType'
    BY Zenon, <2>1, <2>2, <1>a, <1>d, <1>f, NsCallType DEF TypeOK
  <2>4. QED
    BY Zenon, <1>2, <2>3, Frames DEF connect_done, TypeOK
<1>3. CASE accept_conn
  <2> DEFINE s == [sk EXCEPT ![cur].inq = @ - 1]
  <2>0. cur \in Conn /\ sk[cur].inq \in Nat /\ sk[cur].inq - 1 \in Nat
    BY <1>3, <1>b, <1>e DEF accept_conn, connected, Sock
  <2>1. s \in [Conn -> Sock] /\ cur \in Conn
    BY <2>0 DEF TypeOK, KernType, Sock
  <2>2. ctl' \in Nat /\ ctlev' \in BOOLEAN /\ api' \in Nat /\ env' \in Nat /\ LoopType'
    BY Zenon, <1>3, Frames DEF accept_conn, TypeOK, KernType
  <2>3. ASSUME Conn = live, sk' = s, goto("handled"), quiet, UNCHANGED <<listVars, connVars, reg>>
        PROVE  TypeOK'
    BY Zenon, <2>1, <2>2, <2>3, <1>f, Frames, GotoType DEF quiet, TypeOK, KernType
  <2> DEFINE a(k) == [attr[cur] EXCEPT !.kind = k, !.listener = cur]
  <2>a. /\ a("server") \in Attr /\ a("tls") \in Attr
        /\ [NoAttr EXCEPT !.kind = "tls", !.ssl = TRUE] \in Attr
    BY Zenon, <2>1, <1>b, AttrUpdate, PtrFacts
  <2>4. ASSUME NEW c \in Conn \ live, NEW r \in Attr, new_conn(c, r, {}, s), EventType' /\ ThreadType'
        PROVE  TypeOK'
    <3> HIDE DEF s
    <3>1. ListType' /\ ConnType' /\ sk' \in [Conn -> Sock] /\ reg' \in [Conn -> SUBSET {"R", "W"}]
      BY Zenon, <2>1, <2>4, NewConnType DEF TypeOK
    <3>2. QED
      BY Zenon, <2>2, <2>4, <3>1 DEF TypeOK, KernType
  <2> HIDE DEF a, s
  <2>5. ASSUME NEW c \in Conn \ live, new_conn(c, a("server"), {}, s), ns_call(c, {}, <<"ACCEPT">>, "handled")
        PROVE  TypeOK'
    <3>1. EventType' /\ ThreadType'
      BY <2>5, <1>f, FirstType, NsCallType, Zenon DEF TypeOK
    <3>2. QED
      BY Zenon, <2>4, <2>5, <2>a, <3>1
  <2>6. ASSUME NEW c \in Conn \ live, new_conn(c, a("tls"), {}, s), goto("handled"),
               flags' = [flags EXCEPT ![c] = {}], evts' = [evts EXCEPT ![c] = <<>>]
        PROVE  TypeOK'
    <3>1. EventType' /\ ThreadType'
      BY Zenon, <2>6, <1>f, FirstType, GotoType DEF TypeOK, EventType
    <3>2. QED
      BY Zenon, <2>4, <2>6, <2>a, <3>1
  <2>7. ASSUME NEW c \in Conn \ live, new_conn(c, [NoAttr EXCEPT !.kind = "tls", !.ssl = TRUE], {}, s),
               ns_call(c, {}, <<"CLOSE">>, "destroy")
        PROVE  TypeOK'
    <3>1. EventType' /\ ThreadType'
      BY <2>7, <1>f, FirstType, NsCallType, Zenon DEF TypeOK
    <3>2. QED
      BY Zenon, <2>4, <2>7, <2>a, <3>1
  <2>8. QED
    BY <1>3, <2>3, <2>5, <2>6, <2>7, Zenon DEF accept_conn, a, s
<1>4. CASE ns_handle_udp
  <2>1. cur \in Conn /\ Life!Log(evts[cur], "IO") \in Seq(Life!Event)
    BY Zenon, <1>4, <1>a, <1>c, <1>e, LogType DEF ns_handle_udp, plain, connected
  <2>2. EventType' /\ ThreadType'
    BY Zenon, <1>4, <2>1, <1>d, <1>f, NsCallType, GotoType, Frames DEF ns_handle_udp, quiet, TypeOK
  <2>3. KernType'
    <3>1. sk[cur].inq \in Nat /\ (sk[cur].inq # 0 => sk[cur].inq - 1 \in Nat)
      BY <2>1, <1>b DEF Sock
    <3>2. sk' \in [Conn -> Sock]
      <4>1. CASE sk' = sk
        BY Zenon, <4>1 DEF TypeOK, KernType
      <4>2. CASE sk[cur].inq # 0 /\ sk' = [sk EXCEPT ![cur].inq = @ - 1]
        BY Zenon, <4>2, <2>1, <3>1, SockUpdate DEF TypeOK, KernType
      <4>3. QED
        BY Zenon, <1>4, <4>1, <4>2 DEF ns_handle_udp
    <3>3. QED
      BY Zenon, <1>4, <3>2 DEF ns_handle_udp, TypeOK, KernType
  <2>4. QED
    BY Zenon, <1>4, <2>2, <2>3, Frames DEF ns_handle_udp, TypeOK
<1>5. CASE begin_read
  <2>1. to_recv' \in Nat
    BY <1>5, <1>b, <1>e DEF begin_read, plain, connected, recv_avail_size, Min, TypeOK, ConnType, Attr
  <2>2. QED
    BY Zenon, <1>5, <2>1, <1>f, Frames, GotoType DEF begin_read, quiet, TypeOK, LoopType
<1>6. CASE read_handshake \/ write_handshake
  <2>1. cur \in Conn
    BY Zenon, <1>6, <1>e DEF read_handshake, write_handshake, plain, connected
  <2>2. ASSUME NEW ret \in {"write", "handled"}, handshake(ret)
        PROVE  EventType' /\ ThreadType'
    <3> PICK o \in SslOutcome :
          LET f == ns_ssl_begin(flags[cur], o) IN
          IF o = "done" /\ attr[cur].listener # NULL
          THEN ns_call(cur, f, Life!Log(evts[cur], "ACCEPT"), ret)
          ELSE goto(ret) /\ flags' = [flags EXCEPT ![cur] = f] /\ UNCHANGED evts
      BY Zenon, <2>2 DEF handshake
    <3>1. ns_ssl_begin(flags[cur], o) \in SUBSET Flag /\ Life!Log(evts[cur], "ACCEPT") \in Seq(Life!Event)
      BY <2>1, <1>a, <1>c, <1>g, LogType, Zenon
    <3>2. QED
      BY <2>1, <2>2, <3>1, <1>f, NsCallType, GotoType, Zenon DEF TypeOK, EventType
  <2>3. KernType'
    BY <1>6, <2>1, <1>b, Frames DEF read_handshake, write_handshake, TypeOK, KernType, Sock
  <2>4. QED
    BY Zenon, <1>6, <2>2, <2>3, Frames DEF read_handshake, write_handshake, TypeOK
<1>7. CASE recv_some
  <2> DEFINE n == Min(sk[cur].inq, to_recv)
  <2>1. cur \in Conn /\ n \in Nat /\ n <= sk[cur].inq
    BY <1>7, <1>b, <1>e DEF recv_some, Min, TypeOK, LoopType, Sock
  <2>2. Life!Log(evts[cur], "IO") \in Seq(Life!Event)
    BY Zenon, <2>1, <1>a, <1>c, LogType
  <2>3. EventType' /\ ThreadType'
    BY Zenon, <1>7, <2>1, <2>2, <1>a, <1>f, NsCallType DEF recv_some, TypeOK
  <2>4. sk' \in [Conn -> Sock]
    BY <1>7, <2>1, <1>b, SMTT(30) DEF recv_some, TypeOK, KernType, Sock
  <2>5. ConnType'
    BY <1>7, <2>1 DEF recv_some, TypeOK, ConnType
  <2>6. QED
    BY Zenon, <1>7, <2>3, <2>4, <2>5, Frames DEF recv_some, TypeOK, KernType
<1>8. CASE recv_none
  <2>0. PICK err \in BOOLEAN, want \in {{"WANT_READ"}, {"WANT_WRITE"}, {}} :
            flags' = [flags EXCEPT ![cur] = @ \cup want \cup (IF err THEN {"CLOSE_IMMEDIATELY"} ELSE {})]
    BY <1>8, Zenon DEF recv_none
  <2>1. EventType'
    <3>1. want \in SUBSET Flag /\ (IF err THEN {"CLOSE_IMMEDIATELY"} ELSE {}) \in SUBSET Flag
      BY Zenon, <1>d
    <3>2. QED
      BY <1>8, <2>0, <3>1, Zenon DEF recv_none, TypeOK, EventType
  <2>2. QED
    BY Zenon, <1>8, <2>1, <1>f, Frames, GotoType DEF recv_none, TypeOK, LoopType
<1>9. CASE ns_write_to_socket
  <2>1. cur \in Conn /\ Life!Log(evts[cur], "IO") \in Seq(Life!Event)
    BY Zenon, <1>9, <1>a, <1>c, <1>e, LogType DEF ns_write_to_socket
  <2>2. ASSUME NEW n \in 1..slen[cur], NEW full \in BOOLEAN,
               slen' = [slen EXCEPT ![cur] = @ - n], sk' = [sk EXCEPT ![cur].wr = ~full],
               ns_call(cur, IF encrypted(cur) THEN flags[cur] \ {"WANT_READ", "WANT_WRITE"} ELSE flags[cur],
                       Life!Log(evts[cur], "IO"), "handled")
        PROVE  EventType' /\ ThreadType' /\ slen' \in [Conn -> Nat] /\ sk' \in [Conn -> Sock]
    <3>0. slen[cur] \in Nat
      BY Zenon, <2>1 DEF TypeOK, ConnType
    <3>1. slen[cur] - n \in Nat /\ (~full) \in BOOLEAN
      BY <3>0
    <3>2. slen' \in [Conn -> Nat]
      BY <2>2, <3>1, Zenon DEF TypeOK, ConnType
    <3>3. sk' \in [Conn -> Sock]
      <4>1. PICK w \in BOOLEAN : sk' = [sk EXCEPT ![cur].wr = w]
        BY <2>2, <3>1, Zenon
      <4>2. QED
        BY Zenon, <2>1, <4>1, SockUpdate DEF TypeOK, KernType
    <3>4. (IF encrypted(cur) THEN flags[cur] \ {"WANT_READ", "WANT_WRITE"} ELSE flags[cur]) \in SUBSET Flag
      BY Zenon, <2>1, <1>a
    <3>5. QED
      BY Zenon, <2>1, <2>2, <3>2, <3>3, <3>4, <1>f, NsCallType DEF TypeOK
  <2>3. ASSUME ns_call(cur, flags[cur] \cup {"CLOSE_IMMEDIATELY"}, Life!Log(evts[cur], "IO"), "handled")
        PROVE  EventType' /\ ThreadType'
    BY Zenon, <2>1, <2>3, <1>a, <1>d, <1>f, NsCallType DEF TypeOK
  <2>4. ASSUME NEW w \in {"WANT_READ", "WANT_WRITE"}, flags' = [flags EXCEPT ![cur] = @ \cup {w}],
               goto("handled"), UNCHANGED evts
        PROVE  EventType' /\ ThreadType'
    <3>1. EventType'
      BY Zenon, <2>1, <2>4, <1>d DEF TypeOK, EventType
    <3>2. QED
      BY Zenon, <2>4, <3>1, <1>f, GotoType DEF TypeOK
  <2>5. EventType' /\ ThreadType' /\ slen' \in [Conn -> Nat] /\ sk' \in [Conn -> Sock]
    BY <1>9, <2>2, <2>3, <2>4, Zenon DEF ns_write_to_socket, TypeOK, ConnType, KernType
  <2>6. QED
    BY Zenon, <1>9, <2>5, Frames DEF ns_write_to_socket, TypeOK, ConnType, KernType
<1>10. CASE poll_event
  <2>1. cur \in Conn /\ Life!Log(evts[cur], "IO") \in Seq(Life!Event)
    BY Zenon, <1>10, <1>a, <1>c, <1>e, LogType DEF poll_event
  <2>2. QED
    BY Zenon, <1>10, <2>1, <1>a, <1>f, NsCallType, Frames DEF poll_event, TypeOK
<1>11. QED
  BY Zenon, <1>1, <1>2, <1>3, <1>4, <1>5, <1>6, <1>7, <1>8, <1>9, <1>10 DEF HandleConnection

\* ns_mgr_poll() and ns_mgr_free() keep the types.
LEMMA LoopTypes == TypeOK /\ NoDanglingCursor /\ Control /\ (Poll \/ Loop) => TypeOK'
<1> SUFFICES ASSUME TypeOK, NoDanglingCursor, Control, Poll \/ Loop PROVE TypeOK'
  BY Zenon
<1> USE ConstAssumption
<1>a. \A c \in Conn : flags[c] \in SUBSET Flag /\ Life!Log(evts[c], "CLOSE") \in Seq(Life!Event)
  BY Zenon, LogType DEF TypeOK, EventType, Life!Event
<1>b. live \subseteq Conn /\ {"R", "W"} \in SUBSET {"R", "W", "E"}
  BY Zenon DEF TypeOK, ConnType
<1>c. ASSUME NEW c \in Conn, ns_close_conn(c) PROVE EventType' /\ ThreadType'
  <2>1. CASE "CONNECTING" \in flags[c]
    BY Zenon, <1>c, <2>1, Frames, PtrFacts DEF ns_close_conn, quiet, TypeOK, ThreadType, Label, ReturnTo
  <2>2. CASE "CONNECTING" \notin flags[c]
    BY Zenon, <1>a, <1>c, <2>2, NsCallType DEF ns_close_conn, TypeOK, ReturnTo
  <2>3. QED
    BY Zenon, <2>1, <2>2
<1>1. CASE Poll
  <2> PICK last \in BOOLEAN : ns_mgr_poll(last)
    BY Zenon, <1>1 DEF Poll
  <2>1. \A c \in Conn : epoll_events(c) \subseteq {"R", "W", "E"} /\ select_sets(c) \cap readiness(c) \subseteq {"R", "W", "E"}
    BY Zenon DEF epoll_events, select_sets, readiness, TypeOK, KernType
  <2>2. LoopType'
    <3>1. ready' \in [Conn -> SUBSET {"R", "W", "E"}]
      BY Zenon, <2>1 DEF ns_mgr_poll
    <3>2. QED
      BY Zenon, <3>1 DEF ns_mgr_poll, TypeOK, LoopType
  <2>3. ThreadType'
    BY Zenon, GotoType DEF ns_mgr_poll, TypeOK, Label, ReturnTo
  <2>4. KernType'
    BY DEF ns_mgr_poll, TypeOK, KernType
  <2>5. QED
    BY Zenon, <2>2, <2>3, <2>4, Frames DEF ns_mgr_poll, quiet, TypeOK
<1>2. CASE ns_mgr_handle_ctl_sock
  <2>1. ThreadType'
    BY Zenon, <1>2, PtrFacts DEF ns_mgr_handle_ctl_sock, NoCall, TypeOK, ThreadType, Label, ReturnTo
  <2>2. KernType'
    <3>1. ctl \in Nat /\ ctl > 0
      BY Zenon, <1>2 DEF ns_mgr_handle_ctl_sock, TypeOK, KernType, Control
    <3>2. ctl - 1 \in Nat
      BY <3>1
    <3>3. QED
      BY <1>2, <3>2, Zenon DEF ns_mgr_handle_ctl_sock, TypeOK, KernType
  <2>3. QED
    BY Zenon, <1>2, <2>1, <2>2, Frames DEF ns_mgr_handle_ctl_sock, TypeOK
<1>3. ASSUME NEW c \in Conn, next_event(c) PROVE TypeOK'
  <2>1. LoopType'
    BY Zenon, <1>3, PtrFacts DEF next_event, TypeOK, LoopType
  <2>2. QED
    BY Zenon, <1>3, <2>1, GotoType, Frames DEF next_event, quiet, TypeOK, Label
<1>4. CASE events_done \/ loop_next \/ loop_done
  <2>1. LoopType'
    BY <1>4, PtrFacts, Zenon DEF events_done, loop_next, loop_done, TypeOK, LoopType, ListType
  <2>2. ThreadType'
    BY Zenon, <1>4, GotoType DEF events_done, loop_next, loop_done, TypeOK, Label
  <2>3. QED
    BY Zenon, <1>4, <2>1, <2>2, Frames DEF events_done, loop_next, loop_done, quiet, TypeOK
<1>5. CASE handled
  <2>1. ConnType'
    BY Zenon, <1>5 DEF handled, TypeOK, ConnType, NoDanglingCursor
  <2>2. phase \in Label
    BY Zenon, <1>5 DEF handled, Control, Handling, Label, ReturnTo
  <2>3. ThreadType'
    BY Zenon, <1>5, <2>2, GotoType DEF handled, TypeOK, Label
  <2>4. QED
    BY Zenon, <1>5, <2>1, <2>3, Frames DEF handled, quiet, TypeOK
<1>6. CASE sweep_next
  <2>1. LoopType'
    BY Zenon, <1>6, PtrFacts DEF sweep_next, TypeOK, LoopType, ListType
  <2>2. ThreadType'
    BY Zenon, <1>6, GotoType DEF sweep_next, TypeOK, Label
  <2>3. ConnType'
    BY <1>6, Zenon DEF sweep_next, TypeOK, ConnType
  <2>4. QED
    BY Zenon, <1>6, <2>1, <2>2, <2>3, Frames DEF sweep_next, quiet, TypeOK
<1>7. CASE sweep_done
  <2>1. LoopType'
    BY Zenon, <1>7, PtrFacts DEF sweep_done, TypeOK, LoopType, ListType
  <2>2. ThreadType'
    BY Zenon, <1>7, GotoType DEF sweep_done, TypeOK, Label, ReturnTo
  <2>3. QED
    BY Zenon, <1>7, <2>1, <2>2, Frames DEF sweep_done, quiet, TypeOK
<1>8. CASE sweep_close
  <2>1. cur \in Conn
    BY Zenon, <1>8, <1>b DEF sweep_close, NoDanglingCursor
  <2>2. QED
    BY Zenon, <1>8, <1>c, <2>1, Frames DEF sweep_close, TypeOK
<1>9. CASE sweep_keep
  <2>1. reg' \in [Conn -> SUBSET {"R", "W"}]
    BY <1>9, Zenon DEF sweep_keep, epoll_set_flags, TypeOK, KernType
  <2>2. ThreadType'
    BY Zenon, <1>9, GotoType DEF sweep_keep, TypeOK, Label
  <2>3. QED
    BY Zenon, <1>9, <2>1, <2>2, Frames DEF sweep_keep, quiet, TypeOK, KernType
<1>10. CASE destroy
  <2>1. dying \in Conn
    BY Zenon, <1>10, <1>b DEF destroy, NoDanglingCursor
  <2>2. ListType'
    BY Zenon, <1>10, <2>1, PtrFacts DEF destroy, ns_remove_conn, TypeOK, ListType
  <2>3. NoAttr \in Attr /\ NoSock \in Sock
    BY Zenon, PtrFacts DEF NoAttr, NoSock, Attr, Sock, Life!Kind
  <2>4. ConnType'
    BY <1>10, <2>3, Zenon DEF destroy, TypeOK, ConnType
  <2>5. EventType'
    BY <1>10, FirstType, Zenon DEF destroy, TypeOK, EventType
  <2>6. phase \in Label \/ dying # cur
    BY Zenon, <1>10 DEF destroy, Control, Destroying, Label
  <2>7. ThreadType'
    BY Zenon, <1>10, <2>6, GotoType DEF destroy, TypeOK, Label, ReturnTo
  <2>8. KernType'
    BY <1>10, <2>3, Zenon DEF destroy, TypeOK, KernType
  <2>9. QED
    BY Zenon, <1>10, <2>2, <2>4, <2>5, <2>7, <2>8, Frames DEF destroy, TypeOK
<1>11. CASE free_next
  <2>1. nxt \in Conn
    BY Zenon, <1>11, <1>b DEF free_next, NoDanglingCursor
  <2>2. LoopType'
    BY Zenon, <1>11, <2>1, PtrFacts DEF free_next, TypeOK, LoopType, ListType
  <2>3. QED
    BY Zenon, <1>11, <1>c, <2>1, <2>2, Frames DEF free_next, TypeOK
<1>12. CASE free_done
  BY Zenon, <1>12, GotoType, Frames DEF free_done, quiet, TypeOK, Label
<1>13. QED
  BY Zenon, <1>1, <1>2, <1>3, <1>4, <1>5, <1>6, <1>7, <1>8, <1>9, <1>10, <1>11, <1>12 DEF Loop

\* So do the peers and the kernel.
LEMMA KernelType == TypeOK /\ Kernel => TypeOK'
<1> SUFFICES ASSUME TypeOK, Kernel PROVE TypeOK'
  BY Zenon
<1>1. ASSUME NEW c \in Conn, peer_sends(c) \/ peer_closes(c) \/ connect_finishes(c) \/ becomes_writable(c)
      PROVE  TypeOK'
  <2>1. CASE peer_sends(c)
    <3>1. sk[c].inq + 1 \in Nat
      BY DEF TypeOK, KernType, Sock
    <3>2. sk' \in [Conn -> Sock]
      BY <2>1, <3>1 DEF peer_sends, TypeOK, KernType, Sock
    <3>3. QED
      BY <2>1, <3>2, Frames DEF peer_sends, env_step, TypeOK, KernType, ThreadType
  <2>2. CASE peer_closes(c)
    <3>1. sk' \in [Conn -> Sock]
      BY <2>2 DEF peer_closes, TypeOK, KernType, Sock
    <3>2. QED
      BY <2>2, <3>1, Frames DEF peer_closes, env_step, TypeOK, KernType, ThreadType
  <2>3. CASE connect_finishes(c)
    <3>1. sk' \in [Conn -> Sock]
      BY <2>3 DEF connect_finishes, TypeOK, KernType, Sock
    <3>2. QED
      BY Zenon, <2>3, <3>1, Frames DEF connect_finishes, TypeOK, KernType, ThreadType
  <2>4. CASE becomes_writable(c)
    <3>1. sk' \in [Conn -> Sock]
      BY <2>4, SockUpdate, Zenon DEF becomes_writable, TypeOK, KernType
    <3>2. QED
      BY Zenon, <2>4, <3>1, Frames DEF becomes_writable, TypeOK, KernType, ThreadType
  <2>5. QED
    BY Zenon, <1>1, <2>1, <2>2, <2>3, <2>4
<1>2. CASE ns_broadcast
  BY <1>2, Frames DEF ns_broadcast, env_step, TypeOK, KernType, ThreadType
<1>3. QED
  BY Zenon, <1>1, <1>2 DEF Kernel

\* Every step keeps the types.
LEMMA TypeStep == TypeOK /\ NoDanglingCursor /\ Control /\ [Next]_vars => TypeOK'
<1> SUFFICES ASSUME TypeOK, NoDanglingCursor, Control, [Next]_vars PROVE TypeOK'
  BY Zenon
<1>1. CASE UNCHANGED vars
  BY Zenon, <1>1, Frames DEF vars, TypeOK, ThreadType
<1>2. QED
  BY Zenon, <1>1, ApplicationType, HandleType, LoopTypes, KernelType DEF Next

-----------------------------------------------------------------------------
(***************************************************************************)
(* Every step of EventLoop keeps the list of active connections doubly     *)
(* linked, complete and without a cycle.                                   *)
(***************************************************************************)

\* No connection is its own successor.
LEMMA SelfLoopFree ==
    ASSUME ListOK, AllReachable, live \subseteq Conn, NEW c \in live
    PROVE  next[c] # c
<1> USE ConstAssumption
<1> SUFFICES ASSUME next[c] = c PROVE FALSE
  BY Zenon
<1> DEFINE S == live \ {c}
<1>1. prev[c] = c /\ c # head
  BY DEF ListOK
<1>2. head # NULL => head \in S
  BY Zenon, <1>1 DEF ListOK
<1>3. \A d \in S : next[d] \in S \cup {NULL}
  BY Zenon, <1>1 DEF ListOK
<1>4. S = live
  BY <1>2, <1>3, Zenon DEF AllReachable
<1>5. QED
  BY Zenon, <1>4

\* ns_add_conn() keeps the list well linked and complete.
LEMMA AddConn ==
    ASSUME ListOK, AllReachable, next \in [Conn -> Ptr], prev \in [Conn -> Ptr], live \subseteq Conn,
           NEW c \in Conn \ live, ns_add_conn(c), live' = live \cup {c}
    PROVE  ListOK' /\ AllReachable'
<1> USE ConstAssumption
<1>1. /\ head' = c /\ next'[c] = head /\ prev'[c] = NULL
      /\ \A d \in live : next'[d] = next[d] /\ prev'[d] = (IF d = head THEN c ELSE prev[d])
      /\ \A d \in Conn \ live' : next'[d] = next[d] /\ prev'[d] = prev[d]
  BY Zenon DEF ns_add_conn, ListOK
<1>2. ListOK'
  BY <1>1 DEF ListOK
<1>3. AllReachable'
  <2> SUFFICES ASSUME NEW S \in SUBSET live', c \in S,
                      \A d \in S : next'[d] \in S \cup {NULL}
               PROVE  S = live'
    BY Zenon, <1>1 DEF AllReachable
  <2> DEFINE T == S \ {c}
  <2>1. T \in SUBSET live
    BY Zenon
  <2>2. head # NULL => head \in T
    BY <1>1 DEF ListOK
  <2>3. \A d \in T : next[d] \in T \cup {NULL}
    BY <1>1, <2>1 DEF ListOK
  <2>4. T = live
    BY <2>1, <2>2, <2>3, Zenon DEF AllReachable
  <2>5. QED
    BY <2>4
<1>4. QED
  BY Zenon, <1>2, <1>3

\* So does ns_remove_conn().
LEMMA RemoveConn ==
    ASSUME ListOK, AllReachable, next \in [Conn -> Ptr], prev \in [Conn -> Ptr], live \subseteq Conn,
           NEW c \in live, ns_remove_conn(c), live' = live \ {c}
    PROVE  ListOK' /\ AllReachable'
<1> USE ConstAssumption
<1>1. next[c] # c /\ prev[c] # c
  BY Zenon, SelfLoopFree DEF ListOK
<1>2. /\ head' = (IF prev[c] = NULL THEN next[c] ELSE head)
      /\ \A d \in live' : /\ next'[d] = (IF d = prev[c] THEN next[c] ELSE next[d])
                          /\ prev'[d] = (IF d = next[c] THEN prev[c] ELSE prev[d])
      /\ \A d \in Conn \ live' : next'[d] = NULL /\ prev'[d] = NULL
  BY DEF ns_remove_conn, ListOK
<1>3. ListOK'
  <2>1. head' \in live' \cup {NULL} /\ (head' = NULL <=> live' = {})
    <3>1. CASE c # head
      BY Zenon, <1>1, <1>2, <3>1 DEF ListOK
    <3>2. CASE c = head /\ next[c] # NULL
      BY Zenon, <1>1, <1>2, <3>2 DEF ListOK
    <3>3. CASE c = head /\ next[c] = NULL
      <4> DEFINE S == {c}
      <4>1. S \in SUBSET live /\ head \in S /\ \A d \in S : next[d] \in S \cup {NULL}
        BY Zenon, <3>3
      <4>2. S = live
        BY <4>1, Zenon DEF AllReachable
      <4>3. QED
        BY Zenon, <1>2, <3>3, <4>2 DEF ListOK
    <3>4. QED
      BY Zenon, <3>1, <3>2, <3>3
  <2>2. ASSUME NEW d \in live'
        PROVE  /\ next'[d] \in live' \cup {NULL} /\ prev'[d] \in live' \cup {NULL}
               /\ next'[d] # NULL => prev'[next'[d]] = d
               /\ prev'[d] # NULL => next'[prev'[d]] = d
               /\ prev'[d] = NULL <=> d = head'
    BY <1>1, <1>2 DEF ListOK
  <2>3. QED
    BY Zenon, <1>2, <2>1, <2>2 DEF ListOK
<1>4. AllReachable'
  <2> SUFFICES ASSUME NEW S \in SUBSET live', head' # NULL => head' \in S,
                      \A d \in S : next'[d] \in S \cup {NULL}
               PROVE  S = live'
    BY Zenon DEF AllReachable
  <2>1. CASE c = head \/ prev[c] \in S
    <3> DEFINE T == S \cup {c}
    <3>1. T \in SUBSET live /\ (head # NULL => head \in T)
      BY <1>2, <2>1 DEF ListOK
    <3>2. \A d \in T : next[d] \in T \cup {NULL}
      <4>1. next[c] \in T \cup {NULL}
        BY Zenon, <1>1, <1>2, <2>1 DEF ListOK
      <4>2. QED
        BY <1>2, <4>1 DEF ListOK
    <3>3. T = live
      BY <3>1, <3>2, Zenon DEF AllReachable
    <3>4. QED
      BY Zenon, <3>3
  <2>2. CASE c # head /\ prev[c] \notin S
    <3>1. head # NULL => head \in S
      BY Zenon, <1>2, <2>2 DEF ListOK
    <3>2. \A d \in S : next[d] \in S \cup {NULL}
      BY Zenon, <1>2, <2>2
    <3>3. S = live
      BY Zenon, <3>1, <3>2 DEF AllReachable
    <3>4. QED
      BY Zenon, <3>3
  <2>3. QED
    BY Zenon, <2>1, <2>2
<1>5. QED
  BY Zenon, <1>3, <1>4

\* Every step keeps the list well linked and complete.
LEMMA ListStep == TypeOK /\ ListOK /\ AllReachable /\ NoDanglingCursor /\ [Next]_vars => ListOK' /\ AllReachable'
<1> SUFFICES ASSUME TypeOK, ListOK, AllReachable, NoDanglingCursor, [Next]_vars
             PROVE  ListOK' /\ AllReachable'
  BY Zenon
<1>a. next \in [Conn -> Ptr] /\ prev \in [Conn -> Ptr] /\ live \subseteq Conn
  BY Zenon DEF TypeOK, ListType, ConnType
<1>b. UNCHANGED <<listVars, live>> => ListOK' /\ AllReachable'
  BY DEF listVars, ListOK, AllReachable
<1>c. ASSUME NEW c \in Conn, NEW a, NEW f, NEW s, new_conn(c, a, f, s)
      PROVE  ListOK' /\ AllReachable'
  BY Zenon, <1>a, <1>c, AddConn DEF new_conn
<1>1. CASE Application
  <2>1. ASSUME NEW c \in Conn, ns_connect_opt(c) PROVE ListOK' /\ AllReachable'
    BY <2>1, <1>c, Zenon DEF ns_connect_opt
  <2>2. ASSUME NEW c \in Conn, ns_bind_opt(c) PROVE ListOK' /\ AllReachable'
    BY <2>2, <1>c, Zenon DEF ns_bind_opt
  <2>3. QED
    BY Zenon, <1>1, <2>1, <2>2, <1>b
    DEF Application, ns_send, consume, clear_dont_send, set_limit, ns_set_ssl, set_flag, handler_return, connVars
<1>2. CASE accept_conn
  <2>1. CASE \E c \in Conn : \E a, s : new_conn(c, a, {}, s)
    BY Zenon, <2>1, <1>c
  <2>2. CASE UNCHANGED <<listVars, connVars, reg>>
    BY Zenon, <2>2, <1>b DEF connVars
  <2>3. QED
    BY Zenon, <1>2, <2>1, <2>2 DEF accept_conn
<1>3. CASE HandleConnection /\ ~accept_conn
  BY <1>3, <1>b, Zenon
  DEF HandleConnection, connecting_wait, connect_done, listener_idle, skip_read, ns_handle_udp, begin_read,
      read_handshake, recv_some, recv_none, write_handshake, ns_write_to_socket, poll_event, skip_write, connVars
<1>4. CASE destroy
  BY Zenon, <1>4, <1>a, RemoveConn DEF destroy, NoDanglingCursor
<1>5. CASE Poll \/ (Loop /\ ~destroy)
  BY <1>5, <1>b, Zenon
  DEF Poll, ns_mgr_poll, Loop, ns_mgr_handle_ctl_sock, next_event, events_done, loop_next, loop_done, handled,
      sweep_next, sweep_done, sweep_close, sweep_keep, free_next, free_done, connVars
<1>6. CASE Kernel
  BY Zenon, <1>6, <1>b DEF Kernel, peer_sends, peer_closes, connect_finishes, becomes_writable, ns_broadcast, connVars
<1>7. CASE UNCHANGED vars
  BY Zenon, <1>7, <1>b DEF vars, connVars
<1>8. QED
  BY Zenon, <1>1, <1>2, <1>3, <1>4, <1>5, <1>6, <1>7 DEF Next

\* A connection that is being destroyed stays so until destroy, and who starts
\* to destroy one.
LEMMA DyingStep ==
    ASSUME TypeOK, Control, [Next]_vars
    PROVE  /\ Destroying /\ ~destroy => Destroying' /\ dying' = dying /\ phase' = phase /\ live \subseteq live'
           /\ Destroying' => /\ phase' = phase
                             /\ \/ Destroying /\ dying' = dying
                                \/ accept_conn /\ dying' \notin live
                                \/ sweep_close /\ dying' = cur
                                \/ free_next /\ dying' = nxt
<1>a. (pc # "user" => call = NoCall) /\ (pc = "user" => call.ret # "idle")
  BY Zenon DEF Control
<1>1. CASE Application
  <2>1. ASSUME NEW name, in_application(name) PROVE UNCHANGED <<pc, call, dying, phase>>
    BY Zenon, <2>1 DEF in_application, loopVars
  <2>2. CASE handler_return
    <3>1. pc = "user" /\ pc' = call.ret /\ UNCHANGED <<dying, phase, live>> /\ call.ret # "user"
      BY Zenon, <2>2 DEF handler_return, loopVars, connVars, TypeOK, ThreadType, ReturnTo
    <3>2. QED
      BY Zenon, <3>1 DEF Destroying
  <2>3. CASE ~handler_return
    <3>1. UNCHANGED <<pc, call, dying, phase>> /\ live \subseteq live'
      BY <1>1, <2>1, <2>3 DEF Application, ns_connect_opt, ns_bind_opt, new_conn, ns_send, consume, clear_dont_send,
         set_limit, ns_set_ssl, set_flag, connVars
    <3>2. QED
      BY Zenon, <3>1 DEF Destroying
  <2>4. QED
    BY Zenon, <2>2, <2>3
<1>2. CASE HandleConnection
  <2>1. pc \in {"handle", "recv", "write"} /\ phase' = phase
    BY <1>2, Zenon
    DEF HandleConnection, connecting_wait, connect_done, listener_idle, accept_conn, skip_read, ns_handle_udp, begin_read,
        read_handshake, recv_some, recv_none, write_handshake, ns_write_to_socket, poll_event, skip_write, connected, plain,
        loopVars
  <2>2. ~Destroying
    BY Zenon, <2>1 DEF Destroying
  <2>3. ASSUME accept_conn, Destroying' PROVE dying' \notin live
    <3>1. ~goto("handled") /\ (\A c, f, log : ~ns_call(c, f, log, "handled"))
      BY <2>3 DEF Destroying, goto, ns_call
    <3>2. QED
      BY Zenon, <2>3, <3>1 DEF accept_conn, ns_call
  <2>4. ASSUME ~accept_conn PROVE ~Destroying'
    <3>1. (\E l \in {"recv", "write", "handled"} : goto(l))
          \/ \E f, log : \E ret \in {"recv", "write", "handled"} : ns_call(cur, f, log, ret)
      BY <1>2, <2>4, Zenon
      DEF HandleConnection, connecting_wait, connect_done, listener_idle, skip_read, ns_handle_udp, begin_read,
          read_handshake, recv_some, recv_none, write_handshake, ns_write_to_socket, poll_event, skip_write, handshake
    <3>2. QED
      BY <3>1 DEF goto, ns_call, Destroying
  <2>5. QED
    BY Zenon, <2>1, <2>2, <2>3, <2>4
<1>3. CASE sweep_close \/ free_next
  <2>1. pc \in {"tail", "free"} /\ phase' = phase
    BY Zenon, <1>3 DEF sweep_close, free_next, loopVars
  <2>2. (sweep_close => dying' = cur) /\ (free_next => dying' = nxt)
    BY Zenon, <1>3 DEF sweep_close, free_next, ns_close_conn, ns_call
  <2>3. QED
    BY Zenon, <1>3, <2>1, <2>2 DEF Destroying
<1>4. CASE Poll \/ ns_mgr_handle_ctl_sock \/ (\E a \in Conn : next_event(a)) \/ events_done
           \/ loop_next \/ loop_done \/ handled \/ sweep_next \/ sweep_done \/ sweep_keep \/ free_done
  <2>1. pc \notin {"user", "destroy"}
    BY Zenon, <1>4 DEF Poll, ns_mgr_poll, ns_mgr_handle_ctl_sock, next_event, events_done, loop_next, loop_done, handled,
       sweep_next, sweep_done, sweep_keep, free_done
  <2>2. phase \notin {"user", "destroy"}
    BY Zenon DEF TypeOK, LoopType
  <2>3. pc' # "destroy" /\ (pc' = "user" => call'.ret = "events")
    <3>1. CASE ns_mgr_handle_ctl_sock
      BY Zenon, <3>1 DEF ns_mgr_handle_ctl_sock, NoCall
    <3>2. CASE ~ns_mgr_handle_ctl_sock
      BY Zenon, <1>4, <2>2, <3>2 DEF Poll, ns_mgr_poll, next_event, events_done, loop_next, loop_done, handled,
         sweep_next, sweep_done, sweep_keep, free_done, goto
    <3>3. QED
      BY Zenon, <3>1, <3>2
  <2>4. QED
    BY Zenon, <2>1, <2>3 DEF Destroying
<1>5. CASE destroy
  <2>1. phase \notin {"user", "destroy"}
    BY DEF TypeOK, LoopType
  <2>2. QED
    BY Zenon, <1>5, <2>1 DEF destroy, goto, Destroying
<1>6. CASE Kernel \/ UNCHANGED vars
  <2>1. UNCHANGED <<pc, call, dying, phase, live>>
    BY Zenon, <1>6 DEF Kernel, peer_sends, peer_closes, connect_finishes, becomes_writable, ns_broadcast, vars, loopVars, connVars
  <2>2. QED
    BY Zenon, <2>1 DEF Destroying
<1>7. QED
  BY Zenon, <1>1, <1>2, <1>3, <1>4, <1>5, <1>6 DEF Next, Loop

-----------------------------------------------------------------------------

\* In the last loop of ns_mgr_poll() no event is pending and the saved next
\* pointer is not the connection being handled.
Cursors ==
    /\ phase \in {"none", "sweep", "free"} => \A c \in Conn : ready[c] = {}
    /\ phase = "sweep" /\ (Handling \/ Destroying) => nxt # cur
    /\ Destroying => ready[dying] = {}

\* Freed memory is never used: the inductive invariant.
Inv == TypeOK /\ ListOK /\ AllReachable /\ NoDanglingCursor /\ Control /\ Cursors

-----------------------------------------------------------------------------

\* The program starts in the invariant.
LEMMA InitInv == Init => Inv
<1> SUFFICES ASSUME Init PROVE Inv
  BY Zenon
<1> USE ConstAssumption
<1>1. TypeOK
  BY FirstType, PtrFacts, Zenon DEF Init, TypeOK, ListType, ConnType, EventType, ThreadType, LoopType, KernType,
     NoCall, NoSock, NoAttr, Attr, Sock, Label, ReturnTo, Life!Kind
<1>2. ListOK /\ AllReachable
  BY Zenon DEF Init, ListOK, AllReachable
<1>3. NoDanglingCursor /\ Control /\ Cursors
  BY Zenon DEF Init, NoDanglingCursor, Control, Cursors, Handling, Destroying, NoCall
<1>4. QED
  BY Zenon, <1>1, <1>2, <1>3 DEF Inv

\* The pointers the thread holds and where it is.
Cursor == NoDanglingCursor /\ Control /\ Cursors

\* Steps that do not move the thread: memory may be handed out, not freed.
LEMMA StandStill ==
    ASSUME Cursor, live \subseteq live', UNCHANGED <<pc, loopVars, call, dying>>, ctl' >= ctl, ctl \in Nat, ctl' \in Nat,
           UNCHANGED ctlev
    PROVE  Cursor'
<1>1. NoDanglingCursor'
  BY Zenon DEF Cursor, NoDanglingCursor, loopVars
<1>2. Control'
  BY DEF Cursor, Control, Handling, Destroying, loopVars
<1>3. Cursors'
  BY Zenon DEF Cursor, Cursors, Handling, Destroying, loopVars
<1>4. QED
  BY Zenon, <1>1, <1>2, <1>3 DEF Cursor

\* Steps of ns_mgr_handle_connection(): it goes on with cur, or calls a handler
\* of c and then goes on with cur.
LEMMA KeepHandling ==
    ASSUME Cursor, pc \in {"handle", "recv", "write"}, live \subseteq live', NEW c \in live', c # NULL,
           UNCHANGED <<phase, cur, nxt, ready, freeing, ctl, ctlev>>,
           \/ \E l \in {"recv", "write", "handled"} : goto(l)
           \/ \E f, log, ret : ret \in {"recv", "write", "handled"} /\ ns_call(c, f, log, ret)
    PROVE  Cursor'
<1>a. cur \in live /\ phase \in {"events", "loop", "sweep"} /\ call = NoCall /\ (phase = "sweep" => nxt # cur)
  BY Zenon DEF Cursor, NoDanglingCursor, Control, Cursors, Handling
<1>1. CASE \E l \in {"recv", "write", "handled"} : goto(l)
  <2>1. NoDanglingCursor'
    BY Zenon, <1>1, <1>a DEF goto, Cursor, NoDanglingCursor, NoCall
  <2>2. Control'
    BY Zenon, <1>1, <1>a DEF goto, Cursor, Control, Handling, Destroying
  <2>3. Cursors'
    BY Zenon, <1>1, <1>a DEF goto, Cursor, Cursors, Handling, Destroying
  <2>4. QED
    BY Zenon, <2>1, <2>2, <2>3 DEF Cursor
<1>2. CASE \E f, log, ret : ret \in {"recv", "write", "handled"} /\ ns_call(c, f, log, ret)
  <2>1. PICK ret \in {"recv", "write", "handled"} : pc' = "user" /\ call'.c = c /\ call'.ret = ret
    BY <1>2 DEF ns_call
  <2>2. NoDanglingCursor'
    BY Zenon, <2>1, <1>a DEF Cursor, NoDanglingCursor
  <2>3. Control'
    BY Zenon, <2>1, <1>a DEF Cursor, Control, Handling, Destroying
  <2>4. Cursors'
    BY Zenon, <2>1, <1>a DEF Cursor, Cursors, Handling, Destroying
  <2>5. QED
    BY Zenon, <2>2, <2>3, <2>4 DEF Cursor
<1>3. QED
  BY Zenon, <1>1, <1>2

\* Calling ns_close_conn(c) is safe if no pointer of the loop is left on c.
LEMMA CloseConn ==
    ASSUME Cursor, pc # "user", live \subseteq live', NEW c \in live', c # NULL, UNCHANGED <<ready, ctl, ctlev>>,
           nxt' \in live' \cup {NULL}, c # nxt', ready[c] = {}, \A d \in Conn : d \notin live' => ready[d] = {},
           phase' = "sweep" => nxt' # cur',
           phase' \in {"none", "sweep", "free"} => \A d \in Conn : ready[d] = {},
           dying' = c, \/ pc' = "destroy" /\ call' = call
                       \/ pc' = "user" /\ call'.c = c /\ call'.ret = "destroy",
           IF c = cur' THEN phase' \in {"sweep", "free"} ELSE cur' \in live' /\ phase' \in {"events", "loop", "sweep"}
    PROVE  Cursor'
<1>a. call = NoCall
  BY Zenon DEF Cursor, Control
<1>b. call'.c \in {c, NULL} /\ pc' \in {"destroy", "user"} /\ (pc' = "user" => call'.ret = "destroy")
  BY <1>a DEF NoCall
<1>1. NoDanglingCursor'
  <2>1. (dying \in live \ {nxt})'
    BY Zenon
  <2>2. \A d \in Conn \ live' : ready'[d] = {}
    BY Zenon
  <2>3. QED
    BY Zenon, <1>b, <2>1, <2>2 DEF NoDanglingCursor
<1>2. Control'
  BY Zenon, <1>a DEF Cursor, Control, Handling, Destroying
<1>3. Cursors'
  BY Zenon, <1>a DEF Cursor, Cursors, Handling, Destroying
<1>4. QED
  BY Zenon, <1>1, <1>2, <1>3 DEF Cursor

\* No step leaves the thread with a pointer to freed memory.
LEMMA CursorStep == Inv /\ [Next]_vars => Cursor'
<1> SUFFICES ASSUME Inv, [Next]_vars PROVE Cursor'
  BY Zenon
<1> USE ConstAssumption
<1>a. Cursor /\ live \subseteq Conn /\ ctl \in Nat
  BY Zenon DEF Inv, Cursor, TypeOK, ConnType, KernType
<1>b. \A c \in live : c # NULL /\ next[c] \in live \cup {NULL} /\ next[c] # c
  BY Zenon, <1>a, SelfLoopFree DEF Inv, ListOK
<1>c. pc \in {"handle", "recv", "write", "handled", "tail"} => cur \in live /\ cur # NULL
  BY Zenon, <1>a, <1>b DEF Cursor, NoDanglingCursor
<1>d. pc # "user" => call = NoCall /\ call.c = NULL
  BY <1>a DEF Cursor, Control, NoCall
<1>1. CASE handler_return
  <2>1. pc' = call.ret /\ pc = "user" /\ call' = NoCall /\ UNCHANGED <<live, dying, ctl, ctlev>> /\ UNCHANGED loopVars
    BY Zenon, <1>1 DEF handler_return, connVars, kernVars
  <2>2. call.ret \in {"events", "recv", "write", "handled", "destroy"}
    BY Zenon, <2>1, <1>a DEF Inv, TypeOK, ThreadType, ReturnTo, Cursor, Control
  <2>3. NoDanglingCursor'
    BY Zenon, <1>a, <2>1, <2>2 DEF Cursor, NoDanglingCursor, Control, NoCall, loopVars
  <2>4. Control'
    BY Zenon, <1>a, <2>1, <2>2 DEF Cursor, Control, Handling, Destroying, loopVars
  <2>5. Cursors'
    BY Zenon, <1>a, <2>1, <2>2 DEF Cursor, Cursors, Handling, Destroying, loopVars
  <2>6. QED
    BY Zenon, <2>3, <2>4, <2>5 DEF Cursor
<1>2. CASE Application /\ ~handler_return
  <2>1. (\E name : in_application(name)) /\ live \subseteq live'
    BY <1>2
    DEF Application, ns_connect_opt, ns_bind_opt, new_conn, ns_send, consume, clear_dont_send, set_limit,
        ns_set_ssl, set_flag, connVars
  <2>2. UNCHANGED <<pc, loopVars, call, dying, ctl, ctlev>>
    BY Zenon, <2>1 DEF in_application
  <2>3. QED
    BY <1>a, <2>1, <2>2, StandStill
<1>3. CASE connecting_wait \/ listener_idle \/ skip_read \/ begin_read \/ recv_none \/ skip_write
  <2>1. /\ pc \in {"handle", "recv", "write"} /\ UNCHANGED <<live, phase, cur, nxt, ready, freeing, ctl, ctlev>>
        /\ \E l \in {"recv", "write", "handled"} : goto(l)
    BY <1>3, Zenon DEF connecting_wait, listener_idle, skip_read, begin_read, recv_none, skip_write, connected, plain,
                connVars, loopVars, kernVars
  <2>2. QED
    BY Zenon, <1>a, <1>c, <2>1, KeepHandling
<1>4. CASE connect_done \/ ns_handle_udp \/ recv_some \/ ns_write_to_socket \/ poll_event
  <2>1. /\ pc \in {"handle", "recv", "write"} /\ UNCHANGED <<live, phase, cur, nxt, ready, freeing, ctl, ctlev>>
        /\ \/ \E l \in {"recv", "write", "handled"} : goto(l)
           \/ \E f, log, ret : ret \in {"recv", "write", "handled"} /\ ns_call(cur, f, log, ret)
    <3>1. CASE connect_done
      BY Zenon, <3>1 DEF connect_done, connVars, loopVars, kernVars
    <3>2. CASE ns_handle_udp
      BY Zenon, <3>2 DEF ns_handle_udp, plain, connected, connVars, loopVars
    <3>3. CASE recv_some
      BY Zenon, <3>3 DEF recv_some, loopVars
    <3>4. CASE ns_write_to_socket
      BY Zenon, <3>4 DEF ns_write_to_socket, loopVars
    <3>5. CASE poll_event
      BY Zenon, <3>5 DEF poll_event, connVars, loopVars, kernVars
    <3>6. QED
      BY Zenon, <1>4, <3>1, <3>2, <3>3, <3>4, <3>5
  <2>2. QED
    BY Zenon, <1>a, <1>c, <2>1, KeepHandling
<1>5. CASE read_handshake \/ write_handshake
  <2>1. /\ pc \in {"handle", "recv", "write"} /\ UNCHANGED <<live, phase, cur, nxt, ready, freeing, ctl, ctlev>>
        /\ handshake("write") \/ handshake("handled")
    BY Zenon, <1>5 DEF read_handshake, write_handshake, plain, connected, connVars, loopVars, kernVars
  <2>2. \/ \E l \in {"recv", "write", "handled"} : goto(l)
        \/ \E f, log, ret : ret \in {"recv", "write", "handled"} /\ ns_call(cur, f, log, ret)
    BY Zenon, <2>1 DEF handshake
  <2>3. QED
    BY Zenon, <1>a, <1>c, <2>1, <2>2, KeepHandling
<1>6. CASE accept_conn
  <2>1. pc = "handle" /\ UNCHANGED <<phase, cur, nxt, ready, freeing, ctl, ctlev>>
    BY Zenon, <1>6 DEF accept_conn, connected, loopVars
  <2>2. ASSUME NEW c \in Conn \ live, NEW a, NEW s, new_conn(c, a, {}, s),
               goto("handled") \/ ns_call(c, {}, <<"ACCEPT">>, "handled")
        PROVE  Cursor'
    BY Zenon, <1>a, <2>1, <2>2, KeepHandling DEF new_conn
  <2>3. ASSUME NEW c \in Conn \ live, NEW a, NEW s, new_conn(c, a, {}, s),
               ns_call(c, {}, <<"CLOSE">>, "destroy")
        PROVE  Cursor'
    <3>1. /\ live' = live \cup {c} /\ c \notin live
          /\ dying' = c /\ pc' = "user" /\ call'.c = c /\ call'.ret = "destroy"
      BY Zenon, <2>3 DEF new_conn, ns_call
    <3>2. /\ cur \in live /\ phase \in {"events", "loop", "sweep"} /\ (phase = "sweep" => nxt # cur)
          /\ nxt \in live \cup {NULL} /\ (\A d \in Conn \ live : ready[d] = {})
          /\ (phase = "sweep" => \A d \in Conn : ready[d] = {})
      BY Zenon, <1>a, <2>1 DEF Cursor, NoDanglingCursor, Control, Cursors, Handling
    <3>3. QED
      BY Zenon, <1>a, <2>1, <3>1, <3>2, CloseConn
  <2>4. ASSUME UNCHANGED <<listVars, connVars, reg>>, goto("handled") PROVE Cursor'
    BY Zenon, <1>a, <1>c, <2>1, <2>4, KeepHandling DEF connVars
  <2>5. QED
    BY Zenon, <1>6, <2>2, <2>3, <2>4 DEF accept_conn
<1>7. CASE Poll
  <2>1. PICK last \in BOOLEAN : ns_mgr_poll(last)
    BY Zenon, <1>7 DEF Poll
  <2>2. /\ pc = "idle" /\ UNCHANGED <<live, nxt, cur, ctl, call>> /\ phase' = "events" /\ pc' = "events"
        /\ dying' = NULL /\ ctlev' = (ctl > 0) /\ \A c \in Conn \ live : ready'[c] = {}
    BY Zenon, <2>1 DEF ns_mgr_poll, goto, connVars
  <2>3. NoDanglingCursor'
    BY Zenon, <1>a, <1>d, <2>2 DEF Cursor, NoDanglingCursor
  <2>4. Control' /\ Cursors'
    BY <1>a, <1>d, <2>2, Zenon DEF Control, Cursors, Handling, Destroying
  <2>5. QED
    BY Zenon, <2>3, <2>4 DEF Cursor
<1>8. CASE ns_mgr_handle_ctl_sock
  <2>1. /\ pc = "events" /\ UNCHANGED <<live, nxt, cur, phase, ready>> /\ ctlev' = FALSE
        /\ pc' = "user" /\ call'.ret = "events" /\ call'.c = NULL
    BY Zenon, <1>8 DEF ns_mgr_handle_ctl_sock, connVars, loopVars, NoCall
  <2>2. NoDanglingCursor' /\ Control' /\ Cursors'
    BY Zenon, <1>a, <2>1 DEF Cursor, NoDanglingCursor, Control, Cursors, Handling, Destroying
  <2>3. QED
    BY Zenon, <2>2 DEF Cursor
<1>9. ASSUME NEW c \in Conn, next_event(c) PROVE Cursor'
  <2>1. /\ pc = "events" /\ UNCHANGED <<live, nxt, phase, call, ctl, ctlev>> /\ cur' = c /\ pc' = "handle"
        /\ ready[c] # {} /\ (\A d \in Conn : d # c => ready'[d] = ready[d])
    BY Zenon, <1>9 DEF next_event, goto, connVars, kernVars, Inv, TypeOK, LoopType
  <2>2. c \in live /\ phase = "events"
    BY Zenon, <1>a, <2>1 DEF Cursor, NoDanglingCursor, Control
  <2>3. NoDanglingCursor'
    BY Zenon, <1>a, <1>d, <2>1, <2>2 DEF Cursor, NoDanglingCursor
  <2>4. Control' /\ Cursors'
    BY Zenon, <1>a, <1>d, <2>1, <2>2 DEF Cursor, Control, Cursors, Handling, Destroying
  <2>5. QED
    BY Zenon, <2>3, <2>4 DEF Cursor
<1>10. CASE events_done \/ loop_done
  <2>1. /\ pc \in {"events", "loop"} /\ UNCHANGED <<live, cur, call, ctl, ctlev>> /\ nxt' = head
        /\ phase' \in {"loop", "sweep"} /\ pc' = phase'
        /\ \A c \in Conn : ready'[c] = {} \/ (ready'[c] = ready[c] /\ phase' # "sweep")
    BY Zenon, <1>10 DEF events_done, loop_done, goto, connVars, kernVars
  <2>2. NoDanglingCursor'
    BY Zenon, <1>a, <1>d, <2>1 DEF Cursor, NoDanglingCursor, Inv, ListOK
  <2>3. Control' /\ Cursors'
    BY Zenon, <1>a, <1>d, <2>1 DEF Cursor, Control, Cursors, Handling, Destroying
  <2>4. QED
    BY Zenon, <2>2, <2>3 DEF Cursor
<1>11. CASE loop_next \/ sweep_next
  <2>1. /\ pc \in {"loop", "sweep"} /\ nxt # NULL /\ UNCHANGED <<live, phase, ready, call, ctl, ctlev>>
        /\ cur' = nxt /\ nxt' = next[nxt] /\ pc' \in {"handle", "tail"} /\ (pc' = "tail" => pc = "sweep")
    BY Zenon, <1>11 DEF loop_next, sweep_next, goto, connVars, kernVars
  <2>2. nxt \in live /\ phase = pc
    BY Zenon, <1>a, <2>1 DEF Cursor, NoDanglingCursor, Control
  <2>3. NoDanglingCursor'
    BY Zenon, <1>a, <1>b, <1>d, <2>1, <2>2 DEF Cursor, NoDanglingCursor
  <2>4. Control' /\ Cursors'
    BY Zenon, <1>a, <1>b, <1>d, <2>1, <2>2 DEF Cursor, Control, Cursors, Handling, Destroying
  <2>5. QED
    BY <2>3, <2>4 DEF Cursor
<1>12. CASE handled
  <2>1. /\ pc = "handled" /\ UNCHANGED <<live, phase, cur, nxt, ready, call, ctl, ctlev>>
        /\ pc' = IF phase = "sweep" THEN "tail" ELSE phase
    BY Zenon, <1>12 DEF handled, goto, loopVars, kernVars
  <2>2. phase \in {"events", "loop", "sweep"}
    BY Zenon, <1>a, <2>1 DEF Cursor, Control, Handling
  <2>3. NoDanglingCursor' /\ Control' /\ Cursors'
    BY Zenon, <1>a, <1>d, <2>1, <2>2 DEF Cursor, NoDanglingCursor, Control, Cursors, Handling, Destroying
  <2>4. QED
    BY <2>3 DEF Cursor
<1>13. CASE sweep_done \/ free_done
  <2>1. /\ pc \in {"sweep", "free"} /\ UNCHANGED <<live, ready, call, ctl, ctlev>> /\ nxt' \in {head, NULL}
        /\ \/ phase' = "free" /\ pc' \in {"free", "done"}
           \/ phase' = "none" /\ pc' = "idle"
    BY Zenon, <1>13, <1>a DEF sweep_done, free_done, goto, connVars, loopVars, kernVars, Cursor, Control
  <2>2. phase \in {"sweep", "free"}
    BY Zenon, <1>a, <2>1 DEF Cursor, Control
  <2>3. NoDanglingCursor' /\ Control' /\ Cursors'
    BY Zenon, <1>a, <1>d, <2>1, <2>2 DEF Cursor, NoDanglingCursor, Control, Cursors, Handling, Destroying, Inv, ListOK
  <2>4. QED
    BY <2>3 DEF Cursor
<1>14. CASE sweep_keep
  <2>1. pc = "tail" /\ pc' = "sweep" /\ UNCHANGED <<live, phase, cur, nxt, ready, call, ctl, ctlev>>
    BY Zenon, <1>14 DEF sweep_keep, goto, connVars, loopVars
  <2>2. NoDanglingCursor' /\ Control' /\ Cursors'
    BY Zenon, <1>a, <1>d, <2>1 DEF Cursor, NoDanglingCursor, Control, Cursors, Handling, Destroying
  <2>3. QED
    BY <2>2 DEF Cursor
<1>15. ASSUME NEW c, ns_close_conn(c)
       PROVE  dying' = c /\ (\/ pc' = "destroy" /\ call' = call
                             \/ pc' = "user" /\ call'.c = c /\ call'.ret = "destroy")
  BY <1>15 DEF ns_close_conn, ns_call
<1>16. CASE sweep_close
  <2>1. pc = "tail" /\ ns_close_conn(cur) /\ UNCHANGED <<live, phase, cur, nxt, ready, ctl, ctlev>>
    BY Zenon, <1>16 DEF sweep_close, connVars, loopVars, kernVars
  <2>2. phase = "sweep" /\ nxt # cur /\ (\A c \in Conn : ready[c] = {}) /\ nxt \in live \cup {NULL}
    BY Zenon, <1>a, <2>1 DEF Cursor, NoDanglingCursor, Control, Cursors, Handling
  <2>3. dying' = cur /\ (\/ pc' = "destroy" /\ call' = call
                         \/ pc' = "user" /\ call'.c = cur /\ call'.ret = "destroy")
    BY Zenon, <1>15, <2>1
  <2>4. QED
    BY Zenon, <1>a, <1>c, <2>1, <2>2, <2>3, CloseConn
<1>17. CASE free_next
  <2>1. /\ pc = "free" /\ nxt # NULL /\ ns_close_conn(nxt) /\ UNCHANGED <<live, phase, ready, ctl, ctlev>>
        /\ cur' = nxt /\ nxt' = next[nxt]
    BY Zenon, <1>17 DEF free_next, connVars, kernVars
  <2>2. phase = "free" /\ (\A c \in Conn : ready[c] = {}) /\ nxt \in live
    BY Zenon, <1>a, <2>1 DEF Cursor, NoDanglingCursor, Control, Cursors
  <2>3. /\ nxt # NULL /\ nxt' \in live' \cup {NULL} /\ nxt # nxt' /\ ready[nxt] = {}
        /\ pc # "user" /\ phase' = "free" /\ live' = live
    BY Zenon, <1>a, <1>b, <2>1, <2>2
  <2>4. dying' = nxt /\ (\/ pc' = "destroy" /\ call' = call
                         \/ pc' = "user" /\ call'.c = nxt /\ call'.ret = "destroy")
    BY Zenon, <1>15, <2>1
  <2>5. QED
    BY Zenon, <1>a, <2>1, <2>2, <2>3, <2>4, CloseConn
<1>18. CASE destroy
  <2>1. /\ pc = "destroy" /\ live' = live \ {dying} /\ UNCHANGED <<phase, cur, nxt, ready, call, ctl, ctlev>>
        /\ pc' = IF dying = cur THEN phase ELSE "handled"
    BY Zenon, <1>18 DEF destroy, goto, loopVars
  <2>2. /\ dying \in live \ {nxt} /\ ready[dying] = {}
        /\ IF dying = cur THEN phase \in {"sweep", "free"}
           ELSE cur \in live /\ phase \in {"events", "loop", "sweep"}
        /\ phase = "sweep" => nxt # cur
    BY Zenon, <1>a, <2>1 DEF Cursor, NoDanglingCursor, Control, Cursors, Destroying
  <2>3. NoDanglingCursor'
    BY Zenon, <1>a, <1>d, <2>1, <2>2 DEF Cursor, NoDanglingCursor
  <2>4. Control' /\ Cursors'
    BY Zenon, <1>a, <1>d, <2>1, <2>2 DEF Cursor, Control, Cursors, Handling, Destroying
  <2>5. QED
    BY <2>3, <2>4 DEF Cursor
<1>19. CASE Kernel
  <2>1. UNCHANGED <<live, pc, loopVars, call, dying, ctlev>> /\ ctl' \in {ctl, ctl + 1}
    BY Zenon, <1>19 DEF Kernel, peer_sends, peer_closes, connect_finishes, becomes_writable, ns_broadcast, connVars
  <2>2. QED
    BY <1>a, <2>1, StandStill
<1>20. CASE UNCHANGED vars
  BY <1>a, <1>20, StandStill DEF vars, connVars, kernVars
<1>21. QED
  BY Zenon, <1>1, <1>2, <1>3, <1>4, <1>5, <1>6, <1>7, <1>8, <1>9, <1>10, <1>11, <1>12, <1>13, <1>14, <1>16, <1>17,
     <1>18, <1>19, <1>20 DEF Next, HandleConnection, Loop

-----------------------------------------------------------------------------

\* Every step keeps the invariant.
LEMMA InvStep == Inv /\ [Next]_vars => Inv'
BY Zenon, TypeStep, ListStep, CursorStep DEF Inv, Cursor

\* The inductive invariant holds in every reachable state.
THEOREM Invariance == Spec => []Inv
BY InitInv, InvStep, PTL DEF Spec

\* Every variable keeps its type; lengths and counters never go below zero,
\* and the ctl socket is only read when it has a message.
THEOREM TypeCorrect == Spec => []TypeOK
<1>1. Inv => TypeOK
  BY Zenon DEF Inv
<1>2. QED
  BY <1>1, Invariance, PTL

\* The list of active connections stays doubly linked whatever is opened,
\* accepted and closed, and freed blocks are not in it (net.c:58-72).
THEOREM ListLinked == Spec => []ListOK
<1>1. Inv => ListOK
  BY Zenon DEF Inv
<1>2. QED
  BY <1>1, Invariance, PTL

\* No connection is ever lost from the list and the list has no cycle.
THEOREM ListComplete == Spec => []AllReachable
<1>1. Inv => AllReachable
  BY Zenon DEF Inv
<1>2. QED
  BY <1>1, Invariance, PTL

\* No pointer the thread keeps across a call into the application is freed
\* memory when it is used again, in ns_mgr_poll() and in ns_mgr_free().
THEOREM NoUseAfterFree == Spec => []NoDanglingCursor
<1>1. Inv => NoDanglingCursor
  BY Zenon DEF Inv
<1>2. QED
  BY <1>1, Invariance, PTL

-----------------------------------------------------------------------------
(***************************************************************************)
(* What the loops of ns_mgr_poll() still have in front of them.  A loop    *)
(* holds one saved pointer while handlers open connections and others are  *)
(* freed; Reach says which connections it will still visit, and Moves      *)
(* lists the ways in which a step changes the walk.                        *)
(***************************************************************************)

\* Following nx from p in the set L leads to c: whatever contains p and is
\* closed under nx contains c.
Reach(L, nx, p, c) ==
    \A S \in SUBSET L : (p # NULL => p \in S) /\ (\A d \in S : nx[d] \in S \cup {NULL}) => c \in S

\* The loop that runs will still come to c.
Ahead(c) == Reach(live, next, nxt, c)

-----------------------------------------------------------------------------

\* A connection pushed at the head changes nothing for a walk under way.
LEMMA ReachAdd ==
    ASSUME NEW L, NEW nx, NEW ny, NEW a, a \notin L, NULL \notin L, NEW p \in L \cup {NULL}, NEW c \in L,
           \A d \in L : ny[d] = nx[d] /\ nx[d] \in L \cup {NULL}
    PROVE  Reach(L, nx, p, c) <=> Reach(L \cup {a}, ny, p, c)
<1>1. ASSUME Reach(L, nx, p, c), NEW S \in SUBSET (L \cup {a}), p # NULL => p \in S,
             \A d \in S : ny[d] \in S \cup {NULL}
      PROVE  c \in S
  <2> DEFINE T == S \cap L
  <2>1. T \in SUBSET L /\ (p # NULL => p \in T)
    BY Zenon, <1>1
  <2>2. \A d \in T : nx[d] \in T \cup {NULL}
    BY Zenon, <1>1
  <2>3. QED
    BY <1>1, <2>1, <2>2, Zenon DEF Reach
<1>2. ASSUME Reach(L \cup {a}, ny, p, c), NEW S \in SUBSET L, p # NULL => p \in S,
             \A d \in S : nx[d] \in S \cup {NULL}
      PROVE  c \in S
  <2>1. S \in SUBSET (L \cup {a}) /\ \A d \in S : ny[d] \in S \cup {NULL}
    BY Zenon, <1>2
  <2>2. QED
    BY <1>2, <2>1, Zenon DEF Reach
<1>3. QED
  BY <1>1, <1>2, Zenon DEF Reach

\* Nor does unlinking another connection than the one the walk stands before.
LEMMA ReachRemove ==
    ASSUME NEW L, NEW nx, NEW ny, NEW a \in L, NULL \notin L, NEW p \in (L \ {a}) \cup {NULL}, NEW c \in L \ {a},
           nx[a] # a, \A d \in L : nx[d] \in L \cup {NULL},
           \A d \in L \ {a} : ny[d] = (IF nx[d] = a THEN nx[a] ELSE nx[d])
    PROVE  Reach(L, nx, p, c) <=> Reach(L \ {a}, ny, p, c)
<1>1. ASSUME Reach(L, nx, p, c), NEW S \in SUBSET (L \ {a}), p # NULL => p \in S,
             \A d \in S : ny[d] \in S \cup {NULL}
      PROVE  c \in S
  <2>1. CASE \E d \in S : nx[d] = a
    <3> DEFINE T == S \cup {a}
    <3>1. T \in SUBSET L /\ (p # NULL => p \in T)
      BY Zenon, <1>1
    <3>2. \A d \in T : nx[d] \in T \cup {NULL}
      BY Zenon, <1>1, <2>1
    <3>3. c \in T
      BY <1>1, <3>1, <3>2, Zenon DEF Reach
    <3>4. QED
      BY Zenon, <3>3
  <2>2. CASE \A d \in S : nx[d] # a
    <3>1. S \in SUBSET L /\ \A d \in S : nx[d] \in S \cup {NULL}
      BY Zenon, <1>1, <2>2
    <3>2. QED
      BY <1>1, <3>1, Zenon DEF Reach
  <2>3. QED
    BY Zenon, <2>1, <2>2
<1>2. ASSUME Reach(L \ {a}, ny, p, c), NEW S \in SUBSET L, p # NULL => p \in S,
             \A d \in S : nx[d] \in S \cup {NULL}
      PROVE  c \in S
  <2> DEFINE T == S \ {a}
  <2>1. T \in SUBSET (L \ {a}) /\ (p # NULL => p \in T)
    BY Zenon, <1>2
  <2>2. \A d \in T : ny[d] \in T \cup {NULL}
    BY Zenon, <1>2
  <2>3. QED
    BY <1>2, <2>1, <2>2, Zenon DEF Reach
<1>3. QED
  BY <1>1, <1>2, Zenon DEF Reach

\* One step of the walk leaves only the connection it stands on behind.
LEMMA ReachNext ==
    ASSUME NEW L, NEW nx, NEW p \in L, NEW c, c # p, Reach(L, nx, p, c)
    PROVE  Reach(L, nx, nx[p], c)
<1> SUFFICES ASSUME NEW S \in SUBSET L, nx[p] # NULL => nx[p] \in S, \A d \in S : nx[d] \in S \cup {NULL}
             PROVE  c \in S
  BY Zenon DEF Reach
<1> DEFINE T == S \cup {p}
<1>1. T \in SUBSET L /\ p \in T /\ \A d \in T : nx[d] \in T \cup {NULL}
  BY Zenon
<1>2. c \in T
  BY <1>1, Zenon DEF Reach
<1>3. QED
  BY Zenon, <1>2

\* What is not in front of a walk is not the connection it stands before, nor
\* in front of it one step further.
LEMMA ReachBack ==
    ASSUME NEW L, NEW nx, NEW p \in L, p # NULL, NEW c, ~Reach(L, nx, p, c)
    PROVE  c # p /\ ~Reach(L, nx, nx[p], c)
BY Zenon DEF Reach

\* Nothing is in front of a walk that has come to the end of the list.
LEMMA ReachEnd ==
    ASSUME NEW L, NEW nx, NEW c
    PROVE  ~Reach(L, nx, NULL, c)
<1>1. {} \in SUBSET L /\ \A d \in {} : nx[d] \in {} \cup {NULL}
  BY Zenon
<1>2. QED
  BY <1>1, Zenon DEF Reach

\* At the head of the list everything is in front of the walk.
LEMMA ReachHead ==
    ASSUME AllReachable, NEW c \in live
    PROVE  Reach(live, next, head, c)
BY Zenon DEF AllReachable, Reach

\* What is in front of c is in front of every walk that will come to c.
LEMMA ReachTrans ==
    ASSUME NEW L, NEW nx, NEW p, NEW c, NEW d, c # NULL, Reach(L, nx, p, c), Reach(L, nx, c, d)
    PROVE  Reach(L, nx, p, d)
BY Zenon DEF Reach

\* A walk does not come back to a connection it has passed.  For every live c
\* some set closed under prev holds c and not its successor: true of the head,
\* and passed on from c to next[c].
LEMMA Acyclic ==
    ASSUME ListOK, AllReachable, live \subseteq Conn, NEW c \in live
    PROVE  ~Reach(live, next, next[c], c)
<1> USE ConstAssumption
<1> DEFINE Cut(d) == \E B \in SUBSET live : d \in B /\ next[d] \notin B /\ (\A e \in B : prev[e] \in B \cup {NULL})
           S == {d \in live : Cut(d)}
<1>1. head # NULL => head \in S
  <2> SUFFICES ASSUME head # NULL PROVE head \in S
    BY Zenon
  <2>1. head \in live /\ prev[head] = NULL /\ next[head] # head
    BY Zenon, SelfLoopFree DEF ListOK
  <2>2. {head} \in SUBSET live /\ head \in {head} /\ next[head] \notin {head}
        /\ \A e \in {head} : prev[e] \in {head} \cup {NULL}
    BY Zenon, <2>1
  <2>3. Cut(head)
    BY Zenon, <2>2
  <2>4. QED
    BY Zenon, <2>1, <2>3
<1>2. ASSUME NEW d \in S, next[d] # NULL PROVE next[d] \in S
  <2>1. PICK B \in SUBSET live : d \in B /\ next[d] \notin B /\ (\A e \in B : prev[e] \in B \cup {NULL})
    BY Zenon
  <2>2. next[d] \in live /\ prev[next[d]] = d /\ next[next[d]] # next[d]
    BY Zenon, <1>2, SelfLoopFree DEF ListOK
  <2> DEFINE C == B \cup {next[d]}
  <2>3. C \in SUBSET live /\ next[d] \in C /\ \A e \in C : prev[e] \in C \cup {NULL}
    BY Zenon, <2>1, <2>2
  <2>4. next[next[d]] \notin C
    BY <2>1, <2>2 DEF ListOK
  <2>5. Cut(next[d])
    BY Zenon, <2>3, <2>4
  <2>6. QED
    BY Zenon, <2>2, <2>5
<1>3. S \in SUBSET live /\ \A d \in S : next[d] \in S \cup {NULL}
  BY Zenon, <1>2
<1>4. S = live
  <2> HIDE DEF S
  <2>1. QED
    BY <1>1, <1>3, Zenon DEF AllReachable
<1>5. PICK B \in SUBSET live : c \in B /\ next[c] \notin B /\ (\A e \in B : prev[e] \in B \cup {NULL})
  BY Zenon, <1>4
<1> DEFINE T == live \ B
<1>6. T \in SUBSET live /\ (next[c] # NULL => next[c] \in T) /\ c \notin T
  BY Zenon, <1>5 DEF ListOK
<1>7. \A d \in T : next[d] \in T \cup {NULL}
  BY <1>5 DEF ListOK
<1>8. QED
  BY <1>6, <1>7, Zenon DEF Reach

-----------------------------------------------------------------------------

\* The thread is between taking a connection from its loop and going on to
\* the next.
Busy == Handling \/ Destroying

walkVars == <<phase, cur, nxt, fd, ready, prog>>

\* A step that neither starts on a connection, nor is done with one, nor ends
\* a loop.
Onward == UNCHANGED walkVars /\ (Busy' <=> Busy) /\ (pc' \in {"idle", "done", "handle"} => pc' = pc)

\* A step that leaves the list and the walk alone.
Stay == UNCHANGED <<listVars, live, nopoll, reg>> /\ Onward

\* A step that opens connection c.
Grow(c) ==
    /\ c \notin live /\ live' = live \cup {c} /\ ns_add_conn(c)
    /\ nopoll' = [nopoll EXCEPT ![c] = FALSE]
    /\ \A d \in live : reg'[d] = reg[d]
    /\ Onward

\* Every step does one of these things to the walk.
LEMMA Moves ==
    ASSUME Inv, [Next]_vars
    PROVE  \/ Stay \/ (\E c \in Conn : Grow(c)) \/ destroy \/ Poll \/ (\E c \in Conn : next_event(c))
           \/ events_done \/ loop_next \/ loop_done \/ handled \/ sweep_next \/ sweep_done \/ sweep_keep
           \/ free_next \/ free_done
<1>a. pc # "user" => call = NoCall
  BY Zenon DEF Inv, Control
<1>b. ASSUME NEW c \in Conn, NEW a, NEW f, NEW s, new_conn(c, a, f, s), Onward PROVE Grow(c)
  BY Zenon, <1>b DEF new_conn, Grow, Inv, TypeOK, ConnType, KernType
<1>1. CASE Application /\ ~handler_return
  <2>1. ASSUME NEW name, in_application(name) PROVE Onward
    BY Zenon, <2>1 DEF Onward, in_application, loopVars, walkVars, Busy, Handling, Destroying
  <2>2. ASSUME NEW c \in Conn, ns_connect_opt(c) \/ ns_bind_opt(c) PROVE Grow(c)
    BY <1>b, <2>1, <2>2, Zenon DEF ns_connect_opt, ns_bind_opt
  <2>3. ASSUME NEW c \in Conn, NEW f \in Flag,
               ns_send(c) \/ consume(c) \/ clear_dont_send(c) \/ set_limit(c) \/ ns_set_ssl(c) \/ set_flag(c, f)
        PROVE  Stay
    BY Zenon, <2>1, <2>3 DEF Stay, ns_send, consume, clear_dont_send, set_limit, ns_set_ssl, set_flag, connVars
  <2>4. \E f : f \in Flag
    BY Zenon DEF Flag, Lib
  <2>5. QED
    BY <1>1, <2>2, <2>3, <2>4, Zenon DEF Application
<1>2. CASE handler_return
  <2>1. call.ret \in ReturnTo \ {"idle"} /\ pc' = call.ret /\ pc = "user"
    BY Zenon, <1>2 DEF handler_return, Inv, TypeOK, ThreadType, Control
  <2>2. (Busy' <=> Busy) /\ pc' \notin {"idle", "done", "handle"}
    BY Zenon, <2>1 DEF ReturnTo, Busy, Handling, Destroying
  <2>3. QED
    BY Zenon, <1>2, <2>2 DEF handler_return, Stay, Onward, connVars, loopVars, kernVars, walkVars
<1>3. CASE HandleConnection /\ ~accept_conn
  <2>1. UNCHANGED <<listVars, live, nopoll, reg, walkVars>> /\ Busy
    BY <1>3, Zenon
    DEF HandleConnection, connecting_wait, connect_done, listener_idle, skip_read, ns_handle_udp, begin_read,
        read_handshake, recv_some, recv_none, write_handshake, ns_write_to_socket, poll_event, skip_write,
        connVars, loopVars, kernVars, walkVars, Busy, Handling, connected, plain
  <2>2. \/ \E l \in {"recv", "write", "handled"} : goto(l)
        \/ \E f, log : \E ret \in {"recv", "write", "handled"} : ns_call(cur, f, log, ret)
    BY <1>3, Zenon
    DEF HandleConnection, connecting_wait, connect_done, listener_idle, skip_read, ns_handle_udp, begin_read,
        read_handshake, recv_some, recv_none, write_handshake, ns_write_to_socket, poll_event, skip_write, handshake
  <2>3. Busy' /\ pc' \notin {"idle", "done", "handle"}
    BY <2>2 DEF goto, ns_call, Busy, Handling
  <2>4. QED
    BY Zenon, <2>1, <2>3 DEF Stay, Onward
<1>4. CASE accept_conn
  <2>0. pc' \notin {"idle", "done", "handle"} /\ Busy'
    <3>1. pc' = "handled" \/ (pc' = "user" /\ call'.ret \in {"handled", "destroy"})
      BY <1>4 DEF accept_conn, goto, ns_call
    <3>2. QED
      BY Zenon, <3>1 DEF Busy, Handling, Destroying
  <2>1. Onward
    BY Zenon, <1>4, <2>0 DEF Onward, accept_conn, connected, loopVars, walkVars, Busy, Handling
  <2>2. CASE \E c \in Conn : \E a, s : new_conn(c, a, {}, s)
    BY Zenon, <1>b, <2>1, <2>2
  <2>3. CASE UNCHANGED <<listVars, connVars, reg>>
    BY Zenon, <2>1, <2>3 DEF Stay, connVars
  <2>4. QED
    BY Zenon, <1>4, <2>2, <2>3 DEF accept_conn
<1>5. CASE ns_mgr_handle_ctl_sock
  BY Zenon, <1>5, <1>a DEF NoCall, ns_mgr_handle_ctl_sock, Stay, Onward, connVars, loopVars, walkVars, Busy, Handling, Destroying
<1>6. CASE sweep_close
  <2>1. UNCHANGED <<listVars, live, nopoll, reg, walkVars>> /\ Busy
    BY Zenon, <1>6 DEF sweep_close, connVars, loopVars, kernVars, walkVars, Busy, Handling
  <2>2. pc' \in {"destroy", "user"} /\ (pc' = "user" => call'.ret = "destroy")
    BY <1>6 DEF sweep_close, ns_close_conn, ns_call
  <2>3. QED
    BY Zenon, <2>1, <2>2 DEF Stay, Onward, Busy, Destroying
<1>7. CASE Kernel
  BY <1>7 DEF Kernel, peer_sends, peer_closes, connect_finishes, becomes_writable, ns_broadcast, Stay, Onward, connVars,
              loopVars, walkVars, Busy, Handling, Destroying
<1>8. CASE UNCHANGED vars
  BY Zenon, <1>8 DEF vars, Stay, Onward, connVars, loopVars, kernVars, walkVars, Busy, Handling, Destroying
<1>9. QED
  BY Zenon, <1>1, <1>2, <1>3, <1>4, <1>5, <1>6, <1>7, <1>8 DEF Next, Loop

\* Opening and freeing connections does not change the order of the others.
LEMMA ReachKept ==
    ASSUME Inv, Stay \/ (\E a \in Conn : Grow(a)) \/ destroy,
           NEW c, c \in live, c \in live', NEW p, p \in live \cup {NULL}, p \in live' \cup {NULL}
    PROVE  Reach(live', next', p, c) <=> Reach(live, next, p, c)
<1> USE ConstAssumption
<1>a. live \subseteq Conn /\ NULL \notin live /\ next \in [Conn -> Ptr] /\ prev \in [Conn -> Ptr]
  BY Zenon DEF Inv, TypeOK, ConnType, ListType
<1>b. \A d \in live : next[d] \in live \cup {NULL} /\ next[d] # d
  BY Zenon, <1>a, SelfLoopFree DEF Inv, ListOK
<1>1. CASE Stay
  BY Zenon, <1>1 DEF Stay, listVars
<1>2. ASSUME NEW a \in Conn, Grow(a) PROVE Reach(live', next', p, c) <=> Reach(live, next, p, c)
  <2>1. a \notin live /\ live' = live \cup {a} /\ \A d \in live : next'[d] = next[d]
    BY Zenon, <1>a, <1>2 DEF Grow, ns_add_conn
  <2>2. p \in live \cup {NULL}
    BY Zenon
  <2>3. QED
    BY Zenon, <1>a, <1>b, <2>1, <2>2, ReachAdd
<1>3. CASE destroy
  <2>1. dying \in live /\ live' = live \ {dying}
    BY Zenon, <1>3 DEF destroy, Inv, NoDanglingCursor
  <2>2. \A d \in live : (d = prev[dying]) <=> (next[d] = dying)
    BY <1>a, <2>1 DEF Inv, ListOK
  <2>3. \A d \in live \ {dying} : next'[d] = (IF next[d] = dying THEN next[dying] ELSE next[d])
    BY Zenon, <1>3, <1>a, <2>1, <2>2 DEF destroy, ns_remove_conn
  <2>4. QED
    BY Zenon, <1>a, <1>b, <2>1, <2>3, ReachRemove
<1>4. QED
  BY Zenon, <1>1, <1>2, <1>3

-----------------------------------------------------------------------------

\* Where the thread is in its loop: what it handles is no longer in front of
\* it, its event is taken, and in the last loop it handles without events.
Where ==
    /\ pc = "idle" => phase = "none"
    /\ pc = "done" => phase = "free" /\ nxt = NULL
    /\ phase = "loop" => ~prog.epoll
    /\ Busy => /\ phase = "events" => prog.epoll /\ ready[cur] = {}
               /\ phase = "loop" => ~Ahead(cur)
               /\ phase = "sweep" => fd = {}

\* Who may have _NS_EPF_NO_POLL set: a connection whose event was handled in
\* this poll and which the last loop has not visited yet.
PollBits ==
    /\ phase \in {"none", "loop", "free"} \/ ~prog.epoll => \A c \in live : ~nopoll[c]
    /\ phase = "events" => \A c \in live : ready[c] # {} => ~nopoll[c]
    /\ phase = "events" /\ Busy => ~nopoll[cur]
    /\ phase = "sweep" => \A c \in live : nopoll[c] => Ahead(c)

\* Steps keep track of where the thread is.
LEMMA WhereStep == Inv /\ Where /\ [Next]_vars => Where'
<1> SUFFICES ASSUME Inv, Where, [Next]_vars PROVE Where'
  BY Zenon
<1> USE ConstAssumption
<1>a. live \subseteq Conn /\ NULL \notin live /\ ready \in [Conn -> SUBSET {"R", "W", "E"}]
      /\ nxt \in live \cup {NULL}
  BY Zenon DEF Inv, TypeOK, ConnType, LoopType, NoDanglingCursor
<1>b. Busy /\ phase \in {"events", "loop"} => cur \in live /\ (pc = "destroy" => dying # cur)
  BY Zenon DEF Inv, NoDanglingCursor, Control, Busy, Handling, Destroying
<1>c. pc # "user" => call = NoCall
  BY Zenon DEF Inv, Control
<1>1. CASE Stay \/ \E a \in Conn : Grow(a)
  <2>1. Onward /\ live \subseteq live'
    BY Zenon, <1>1 DEF Stay, Grow
  <2>2. Busy' /\ phase = "loop" => ~Reach(live', next', nxt, cur)
    BY Zenon, <1>1, <1>a, <1>b, <2>1, ReachKept DEF Where, Onward, Ahead
  <2>3. QED
    BY Zenon, <2>1, <2>2 DEF Where, Onward, walkVars, Ahead
<1>2. CASE destroy
  <2>1. /\ pc = "destroy" /\ live' = live \ {dying} /\ UNCHANGED walkVars /\ call' = call
        /\ pc' = IF dying = cur THEN phase ELSE "handled"
    BY Zenon, <1>2 DEF destroy, goto, loopVars, walkVars
  <2>2. nxt # dying /\ Busy /\ (dying = cur => phase \in {"sweep", "free"})
    BY Zenon, <2>1 DEF Inv, NoDanglingCursor, Control, Busy, Destroying
  <2>3. phase = "loop" => ~Reach(live', next', nxt, cur)
    BY Zenon, <1>2, <1>a, <1>b, <2>1, <2>2, ReachKept DEF Where, Ahead
  <2>4. QED
    BY Zenon, <2>1, <2>2, <2>3, <1>c DEF Where, walkVars, Ahead
<1>3. CASE Poll
  BY Zenon, <1>3, <1>c DEF Poll, ns_mgr_poll, goto, Where, Busy, Handling, Destroying
<1>4. ASSUME NEW c \in Conn, next_event(c) PROVE Where'
  BY Zenon, <1>4, <1>a DEF next_event, goto, Where, Busy, Inv, Control
<1>5. CASE events_done \/ loop_done
  BY Zenon, <1>5, <1>c DEF events_done, loop_done, goto, Where, Busy, Handling, Destroying
<1>6. CASE loop_next
  <2>1. /\ pc = "loop" /\ nxt # NULL /\ UNCHANGED <<live, next, phase, prog>> /\ cur' = nxt /\ nxt' = next[nxt]
        /\ pc' = "handle"
    BY Zenon, <1>6 DEF loop_next, goto, listVars, connVars
  <2>2. phase = "loop" /\ nxt \in live
    BY Zenon, <1>a, <2>1 DEF Inv, Control
  <2>3. ~Reach(live, next, next[nxt], nxt)
    BY Zenon, <1>a, <2>2, Acyclic DEF Inv
  <2>4. QED
    BY Zenon, <2>1, <2>2, <2>3 DEF Where, Ahead
<1>7. CASE handled \/ sweep_keep
  <2>1. /\ pc \in {"handled", "tail"} /\ UNCHANGED <<phase, prog, nxt, call>>
        /\ pc' = IF pc = "tail" THEN "sweep" ELSE IF phase = "sweep" THEN "tail" ELSE phase
        /\ UNCHANGED <<fd>>
    BY Zenon, <1>7 DEF handled, sweep_keep, goto, loopVars
  <2>2. phase \in {"events", "loop", "sweep"} /\ (pc = "tail" => phase = "sweep") /\ Busy
    BY Zenon, <2>1 DEF Inv, Control, Busy, Handling
  <2>3. QED
    BY Zenon, <1>c, <2>1, <2>2 DEF Where, Busy, Handling, Destroying
<1>8. CASE sweep_next
  BY Zenon, <1>8 DEF sweep_next, goto, Where, Inv, Control
<1>9. CASE sweep_done \/ free_done
  <2>1. pc # "user" /\ (free_done => phase = "free")
    BY Zenon, <1>9 DEF sweep_done, free_done, Inv, Control
  <2>2. QED
    BY Zenon, <1>9, <1>c, <2>1 DEF sweep_done, free_done, goto, loopVars, Where, Busy, Handling, Destroying
<1>10. CASE free_next
  <2>1. pc' \in {"destroy", "user"} /\ phase' = "free"
    BY Zenon, <1>10 DEF free_next, ns_close_conn, ns_call, Inv, Control
  <2>2. QED
    BY Zenon, <2>1 DEF Where
<1>11. QED
  BY Zenon, <1>1, <1>2, <1>3, <1>4, <1>5, <1>6, <1>7, <1>8, <1>9, <1>10, Moves

\* Steps keep the set bits in front of the last loop.
LEMMA PollBitsStep == Inv /\ Where /\ PollBits /\ [Next]_vars => PollBits'
<1> SUFFICES ASSUME Inv, Where, PollBits, [Next]_vars PROVE PollBits'
  BY Zenon
<1> USE ConstAssumption
<1>a. /\ live \subseteq Conn /\ NULL \notin live /\ ready \in [Conn -> SUBSET {"R", "W", "E"}]
      /\ nxt \in live \cup {NULL} /\ nopoll \in [Conn -> BOOLEAN] /\ phase \in {"none", "events", "loop", "sweep", "free"}
  BY Zenon DEF Inv, TypeOK, ConnType, LoopType, NoDanglingCursor
<1>b. Busy /\ phase = "events" => cur \in live /\ (pc = "destroy" => dying # cur)
  BY Zenon DEF Inv, NoDanglingCursor, Control, Busy, Handling, Destroying
<1>c. pc # "user" => call = NoCall
  BY Zenon DEF Inv, Control
<1>d. \A c \in live : Reach(live, next, head, c)
  BY Zenon, ReachHead DEF Inv
<1>1. CASE Stay \/ \E a \in Conn : Grow(a)
  <2>1. /\ Onward /\ live \subseteq live' /\ (\A c \in live : nopoll'[c] = nopoll[c])
        /\ \A c \in live' \ live : ~nopoll'[c]
    BY Zenon, <1>1, <1>a DEF Stay, Grow
  <2>2. \A c \in live : nopoll[c] => (Reach(live', next', nxt, c) <=> Ahead(c))
    BY Zenon, <1>1, <1>a, <2>1, ReachKept DEF Ahead
  <2>3. QED
    BY Zenon, <1>b, <2>1, <2>2 DEF PollBits, Onward, walkVars, Ahead
<1>2. CASE destroy
  <2>1. /\ pc = "destroy" /\ live' = live \ {dying} /\ UNCHANGED <<walkVars, nopoll>>
    BY Zenon, <1>2 DEF destroy, loopVars, walkVars
  <2>2. nxt # dying /\ Busy
    BY Zenon, <2>1 DEF Inv, NoDanglingCursor, Busy, Destroying
  <2>3. \A c \in live' : Reach(live', next', nxt, c) <=> Ahead(c)
    BY Zenon, <1>2, <1>a, <2>1, <2>2, ReachKept DEF Ahead
  <2>4. QED
    BY Zenon, <1>b, <2>1, <2>2, <2>3 DEF PollBits, walkVars, Ahead
<1>3. CASE Poll
  BY Zenon, <1>3, <1>c DEF Poll, ns_mgr_poll, goto, connVars, PollBits, Where, Busy, Handling, Destroying
<1>4. ASSUME NEW c \in Conn, next_event(c) PROVE PollBits'
  <2>1. c \in live /\ phase = "events"
    BY Zenon, <1>4 DEF next_event, Inv, NoDanglingCursor, Control
  <2>2. QED
    BY Zenon, <1>4, <1>a, <2>1 DEF next_event, connVars, PollBits
<1>5. CASE events_done \/ loop_done
  <2>1. /\ UNCHANGED <<live, next, nopoll, prog>> /\ nxt' = head /\ phase' \in {"loop", "sweep"}
        /\ (phase' = "loop" => ~prog.epoll) /\ pc' \in {"loop", "sweep"}
    BY Zenon, <1>5 DEF events_done, loop_done, goto, listVars, connVars
  <2>2. QED
    BY Zenon, <1>d, <2>1 DEF PollBits, Ahead, Busy, Handling, Destroying
<1>6. CASE loop_next
  <2>1. pc = "loop" /\ UNCHANGED <<live, nopoll, phase, prog>> /\ phase = "loop"
    BY Zenon, <1>6 DEF loop_next, connVars, Inv, Control
  <2>2. QED
    BY Zenon, <2>1 DEF PollBits
<1>7. CASE handled
  <2>1. /\ UNCHANGED <<live, next, walkVars>> /\ phase \in {"events", "loop", "sweep"} /\ Busy
        /\ \A c \in live : nopoll'[c] = nopoll[c] \/ (phase = "events" /\ c = cur)
    BY Zenon, <1>7, <1>a DEF handled, listVars, loopVars, walkVars, Inv, Control, Busy, Handling
  <2>2. phase = "events" => prog.epoll /\ ready[cur] = {} /\ ~Busy'
    BY Zenon, <1>7, <1>c, <2>1 DEF handled, goto, Where, Busy, Handling, Destroying
  <2>3. QED
    BY Zenon, <2>1, <2>2 DEF PollBits, walkVars, Ahead
<1>8. CASE sweep_next
  <2>1. /\ pc = "sweep" /\ nxt # NULL /\ UNCHANGED <<live, next, phase, prog>> /\ nxt' = next[nxt]
        /\ nopoll' = [nopoll EXCEPT ![nxt] = FALSE]
    BY Zenon, <1>8 DEF sweep_next, listVars
  <2>2. phase = "sweep" /\ nxt \in live
    BY Zenon, <1>a, <2>1 DEF Inv, Control
  <2>3. \A c \in live \ {nxt} : Ahead(c) => Reach(live, next, next[nxt], c)
    BY Zenon, <2>2, ReachNext DEF Ahead
  <2>4. QED
    BY Zenon, <1>a, <2>1, <2>2, <2>3 DEF PollBits, Ahead
<1>9. CASE sweep_done
  <2>1. phase = "sweep" /\ nxt = NULL /\ UNCHANGED <<live, nopoll>> /\ phase' \in {"none", "free"}
    BY Zenon, <1>9 DEF sweep_done, connVars, Inv, Control
  <2>2. \A c \in live : ~nopoll[c]
    BY Zenon, <2>1, ReachEnd DEF PollBits, Ahead
  <2>3. QED
    BY Zenon, <2>1, <2>2 DEF PollBits
<1>10. CASE sweep_keep
  <2>1. phase = "sweep" /\ UNCHANGED <<live, next, nxt, nopoll, phase, prog>>
    BY Zenon, <1>10 DEF sweep_keep, listVars, connVars, loopVars, Inv, Control
  <2>2. QED
    BY Zenon, <2>1 DEF PollBits, Ahead
<1>11. CASE free_next \/ free_done
  <2>1. phase = "free" /\ UNCHANGED <<live, nopoll, phase>>
    BY Zenon, <1>11 DEF free_next, free_done, connVars, loopVars, Inv, Control
  <2>2. QED
    BY Zenon, <2>1 DEF PollBits
<1>12. QED
  BY Zenon, <1>1, <1>2, <1>3, <1>4, <1>5, <1>6, <1>7, <1>8, <1>9, <1>10, <1>11, Moves

\* Where the thread is, and which bits are set, in every reachable state.
THEOREM WalkInvariance == Spec => [](Inv /\ Where /\ PollBits)
<1>1. Init => Where /\ PollBits
  BY Zenon DEF Init, Where, PollBits, Busy, Handling, Destroying
<1>2. QED
  BY <1>1, Invariance, WhereStep, PollBitsStep, PTL DEF Spec

\* net.c:1063-1075.  Every toggle of _NS_EPF_NO_POLL for an event is undone in
\* the same poll, whatever handlers open and close in between: the bit is off
\* on every connection when ns_mgr_poll() returns.
THEOREM PollBitsOff == Spec => []PollBitClear
<1>1. Where /\ PollBits => PollBitClear
  BY Zenon DEF Where, PollBits, PollBitClear
<1>2. QED
  BY <1>1, WalkInvariance, PTL

=============================================================================
