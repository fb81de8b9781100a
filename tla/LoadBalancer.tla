---------------------------- MODULE LoadBalancer ----------------------------
(***************************************************************************)
(* The load balancer of apps/load_balancer on top of the event loop and of *)
(* http_handler(): client connections, connections to a backend, and the   *)
(* pool of idle backend connections.                                       *)
(*                                                                         *)
(* A handler runs to its end before another one starts, so the operators   *)
(* are functions of the program's memory m and an action applies the       *)
(* handlers one event leads to.  Clients do not pipeline, as the comment   *)
(* of connect_backend() asks, every request matches a backend, and         *)
(* backends speak only when asked.  A poll handles the ready connections   *)
(* in any order, then walks the list, newest first.                        *)
(***************************************************************************)
EXTENDS Integers, Sequences

CONSTANTS
    Client,     \* client connections; each is accepted once
    Back,       \* memory blocks for connections to the backend
    NULL,
    MaxIdle,    \* MAX_IDLE_CONNS
    MaxReq      \* bound: requests of one client

ASSUME LBAssumption ==
    /\ NULL \notin Client \cup Back /\ NULL \notin Seq(Client \cup Back) /\ Client \cap Back = {}
    /\ MaxIdle \in Nat /\ MaxReq \in Nat

VARIABLES
    m,          \* memory: connections, conn_data, be_conn, pool, list order
    sock,       \* what waits in the socket of each connection
    turn,       \* client's view: "talk" (may ask), "wait" or "done" (expects the end)
    asked,      \* requests sent so far
    ready,      \* connections with an event in this poll
    todo        \* rest of the list walk; NULL while events are handled

vars == <<m, sock, turn, asked, ready, todo>>

Nc == Client \cup Back
NoNc   == [st |-> "free", flags |-> {}, handler |-> "ev", ud |-> NULL, part |-> FALSE]
NoConn == [mem |-> FALSE, client |-> FALSE, backend |-> NULL, be_conn |-> NULL,
           keep_alive |-> FALSE, headers |-> FALSE, body_len |-> -1]
NoBec  == [mem |-> FALSE, nc |-> FALSE, idle |-> FALSE]
NoSock == [data |-> "no", fin |-> FALSE, syn |-> "pending"]

\* told[c] is the last thing sent to client c: nothing, or how it goes on.
\* owed[b] is history: the client whose request b still has to answer.
Init ==
    /\ m = [nc |-> [x \in Nc |-> NoNc], conn |-> [c \in Client |-> NoConn],
            bec |-> [b \in Back |-> NoBec], pool |-> <<>>, num_conns |-> 0, list |-> <<>>,
            owed |-> [b \in Back |-> NULL], told |-> [c \in Client |-> "no"], crashed |-> FALSE]
    /\ sock = [x \in Nc |-> NoSock]
    /\ turn = [c \in Client |-> "talk"]
    /\ asked = [c \in Client |-> 0]
    /\ ready = {} /\ todo = NULL

Range1(s) == {s[i] : i \in 1 .. Len(s)}

\* Taking x out of a linked list, if it is there.
without(s, x) ==
    IF x \notin Range1(s) THEN s
    ELSE LET i == CHOOSE i \in 1 .. Len(s) : s[i] = x IN SubSeq(s, 1, i - 1) \o SubSeq(s, i + 1, Len(s))

flag(s, x, f) == [s EXCEPT !.nc[x].flags = @ \cup {f}]

-----------------------------------------------------------------------------
(* The handlers *)

\* Mutant: the client is not told.
respond_with_error_quiet(s, c) == s

respond_with_error(s, c) ==
    IF ~s.conn[c].client THEN s
    ELSE flag(IF s.conn[c].headers THEN s ELSE [s EXCEPT !.told[c] = "close", !.conn[c].headers = TRUE],
              c, "SEND_AND_CLOSE")

\* The loop at the end of release_backend(), which runs at most once: the
\* pool has grown by one (PoolSound: num_conns was not above the cap).
evict(s) ==
    IF s.num_conns <= MaxIdle THEN s
    ELSE LET b == Head(s.pool) IN
         [s EXCEPT !.pool = Tail(@), !.num_conns = @ - 1, !.bec[b].idle = FALSE,
                   !.nc[b].flags = {"CLOSE_IMMEDIATELY"}]

\* The two assignments release_backend() starts with; memset() makes
\* backend.body_len 0, and it is never negative again.
detach(s, c) == [s EXCEPT !.conn[c] = [@ EXCEPT !.be_conn = NULL, !.backend = NULL, !.body_len = 0]]

\* keep is backend.flags.keep_alive.
release_backend(s, c, keep) ==
    LET b  == s.conn[c].be_conn
        s1 == detach(s, c)
        s2 == [s1 EXCEPT !.nc[b] = [@ EXCEPT !.ud = NULL, !.handler = "idle"], !.bec[b].idle = keep]
    IN  IF ~s.bec[b].nc THEN [s1 EXCEPT !.bec[b] = NoBec]
        ELSE IF keep THEN evict([s2 EXCEPT !.pool = Append(@, b), !.num_conns = @ + 1])
        ELSE flag(s2, b, "CLOSE_IMMEDIATELY")

get_conn(s) == [s EXCEPT !.pool = Tail(@), !.num_conns = @ - 1]

\* connect_backend() and the forwarding of a request: redirected, sent on a
\* pooled or a new connection, or answered with an error when ns_connect()
\* fails.
connect_backend(s, c) ==
    LET use(t, b) == [t EXCEPT !.conn[c] = [@ EXCEPT !.be_conn = b, !.backend = b],
                               !.nc[b] = [@ EXCEPT !.ud = c, !.handler = "ev"], !.owed[b] = c]
        fresh(b) == [s EXCEPT !.nc[b] = [NoNc EXCEPT !.st = "connecting"], !.list = <<b>> \o @,
                              !.bec[b] = [mem |-> TRUE, nc |-> TRUE, idle |-> FALSE]]
    IN  {flag([s EXCEPT !.told[c] = "close"], c, "SEND_AND_CLOSE")}
        \cup IF s.pool # <<>>
             THEN {use(get_conn(s), Head(s.pool))}
             ELSE {respond_with_error(s, c)}
                  \cup {use(fresh(b), b) : b \in {d \in Back : s.nc[d].st = "free" /\ ~s.bec[d].mem}}

\* NS_HTTP_REQUEST; keep-alive is up to the client.
on_request(s, c) ==
    UNION {connect_backend([s EXCEPT !.conn[c].keep_alive = k, !.nc[c].part = FALSE], c) : k \in BOOLEAN}

\* NS_HTTP_REPLY: forward it, give the connection back, close the client
\* unless it stays.  Without a client, forward() follows a null pointer.
on_reply(s, b, keep) ==
    LET c == s.nc[b].ud IN
    IF ~s.conn[c].client THEN [s EXCEPT !.crashed = TRUE]
    ELSE LET t == [s EXCEPT !.conn[c].headers = TRUE, !.nc[b].part = FALSE, !.owed[b] = NULL,
                            !.told[c] = IF s.conn[c].keep_alive THEN "keep" ELSE "close"]
             u == release_backend(t, c, keep)
         IN  IF s.conn[c].keep_alive THEN u ELSE flag(u, c, "SEND_AND_CLOSE")

\* NS_CONNECT.
on_connect(s, b, ok) ==
    IF ok THEN [s EXCEPT !.nc[b].st = "open"]
    ELSE LET c == s.nc[b].ud IN
         flag(release_backend([respond_with_error(s, c) EXCEPT !.bec[b].nc = FALSE], c, FALSE),
              b, "CLOSE_IMMEDIATELY")

\* Mutant: conn_data goes with the client.
free_conn_early(s, c) == IF s.conn[c].client THEN s ELSE [s EXCEPT !.conn[c] = NoConn]

free_conn(s, c) ==
    IF s.conn[c].client \/ s.conn[c].backend # NULL THEN s ELSE [s EXCEPT !.conn[c] = NoConn]

\* Mutant: the connection goes back to the pool.
drop_backend_to_pool(s, c) ==
    IF s.conn[c].backend = NULL THEN s ELSE release_backend(s, c, TRUE)

\* The client has closed: its backend connection, busy with its request, is
\* no good for another client.
drop_backend(s, c) ==
    IF s.conn[c].backend = NULL THEN s ELSE flag(s, s.conn[c].backend, "CLOSE_IMMEDIATELY")

\* NS_CLOSE in ev_handler(): the peer is closed or told, and conn_data goes
\* with the last of the two.
on_close(s, x) ==
    LET c == IF x \in Client THEN x ELSE s.nc[x].ud
        t == IF x \in Client
             THEN drop_backend([s EXCEPT !.conn[c].client = FALSE], c)
             ELSE LET u == [s EXCEPT !.conn[c].backend = NULL] IN
                  IF u.conn[c].client /\ u.conn[c].body_len < 0 THEN respond_with_error(u, c) ELSE u
    IN  free_conn(t, c)

\* Mutant: an idle connection that closes stays in the pool.
on_close_idle_stays(s, b) == [s EXCEPT !.bec[b] = NoBec]

\* NS_CLOSE in idle_backend_handler(); num_conns is not adjusted.
on_close_idle(s, b) ==
    [s EXCEPT !.pool = IF s.bec[b].idle THEN without(@, b) ELSE @, !.bec[b] = NoBec]

\* ns_close_conn(): http_handler() first delivers a message that is still
\* incomplete, then NS_CLOSE goes to the handler set by then; a connection
\* that is connecting gets neither.
destroy(s, x) ==
    [s EXCEPT !.nc[x] = NoNc, !.list = without(@, x),
              !.owed = [b \in Back |-> IF b = x THEN NULL ELSE @[b]]]

close(s, x) ==
    LET told == IF ~s.nc[x].part \/ s.nc[x].handler = "idle" THEN {s}
                ELSE IF x \in Client THEN on_request(s, x)
                ELSE {on_reply(s, x, k) : k \in BOOLEAN}
    IN  IF s.nc[x].st = "connecting" THEN {destroy(s, x)}
        ELSE {IF t.crashed THEN t
              ELSE destroy(IF t.nc[x].handler = "idle" THEN on_close_idle(t, x) ELSE on_close(t, x), x) : t \in told}

-----------------------------------------------------------------------------
(* ns_mgr_poll() *)

\* What the client sees: an answer, or the end of its connection.
watch == turn' = [c \in Client |->
            IF turn[c] = "wait" /\ m'.told[c] # "no"
            THEN (IF m'.told[c] = "keep" THEN "talk" ELSE "done")
            ELSE IF m.nc[c].st = "open" /\ m'.nc[c].st = "free" THEN "done" ELSE turn[c]]

running == ~m.crashed

\* A poll that finds no event and no flag changes nothing and is left out.
poll ==
    /\ running /\ todo = NULL /\ ready = {}
    /\ ready' = {x \in Nc : m.nc[x].st # "free" /\
                    IF m.nc[x].st = "connecting" THEN sock[x].syn # "pending"
                    ELSE sock[x].data # "no" \/ sock[x].fin}
    /\ ready' # {} \/ \E x \in Nc : m.nc[x].flags # {}
    /\ todo' = IF ready' = {} THEN m.list ELSE NULL
    /\ UNCHANGED <<m, sock, turn, asked>>

\* NS_ACCEPT.
accept(c) ==
    /\ running /\ todo = NULL
    /\ m.nc[c].st = "free" /\ asked[c] = 0 /\ turn[c] = "talk"
    /\ m' = [m EXCEPT !.nc[c] = [NoNc EXCEPT !.st = "open", !.ud = c], !.list = <<c>> \o @,
                      !.conn[c] = [NoConn EXCEPT !.mem = TRUE, !.client = TRUE]]
    /\ UNCHANGED <<sock, turn, asked, ready, todo>>

\* Reading: the data, if any, then the end of file.
received(x) ==
    IF sock[x].data = "no" THEN {m}
    ELSE IF sock[x].data = "part" THEN {[m EXCEPT !.nc[x].part = TRUE]}
    ELSE IF x \in Client THEN on_request(m, x)
    ELSE IF m.nc[x].handler = "idle" THEN {m}
    ELSE {on_reply(m, x, k) : k \in BOOLEAN}

handle(x) ==
    /\ running /\ todo = NULL /\ x \in ready
    /\ ready' = ready \ {x}
    /\ IF m.nc[x].st = "connecting"
       THEN m' = on_connect(m, x, sock[x].syn = "ok") /\ UNCHANGED sock
       ELSE /\ \E t \in received(x) :
                  m' = IF sock[x].fin /\ ~t.crashed THEN flag(t, x, "CLOSE_IMMEDIATELY") ELSE t
            /\ sock' = [sock EXCEPT ![x].data = "no"]
    /\ todo' = IF ready' = {} THEN m'.list ELSE NULL
    /\ watch
    /\ UNCHANGED asked

\* NS_POLL of an idle connection whose deadline has passed.
idle_timeout(b) ==
    /\ running /\ todo = NULL /\ b \notin ready
    /\ m.nc[b].st = "open" /\ m.nc[b].handler = "idle" /\ m.bec[b].idle
    /\ "CLOSE_IMMEDIATELY" \notin m.nc[b].flags
    /\ m' = flag(m, b, "CLOSE_IMMEDIATELY")
    /\ UNCHANGED <<sock, turn, asked, ready, todo>>

\* The list walk, from one connection with a flag to the next; a buffer being
\* sent may hold up NSF_SEND_AND_CLOSE.
sweep ==
    /\ running /\ todo # NULL
    /\ \E i \in 1 .. Len(todo) :
          LET x == todo[i] IN
          /\ m.nc[x].flags # {} /\ \A j \in 1 .. i - 1 : m.nc[todo[j]].flags = {}
          /\ \/ /\ m' \in close(m, x)
                /\ sock' = IF m'.crashed THEN sock ELSE [sock EXCEPT ![x] = NoSock]
             \/ "CLOSE_IMMEDIATELY" \notin m.nc[x].flags /\ UNCHANGED <<m, sock>>
          /\ todo' = SubSeq(todo, i + 1, Len(todo))
    /\ watch
    /\ UNCHANGED <<asked, ready>>

sweep_done ==
    /\ running /\ todo # NULL /\ \A i \in 1 .. Len(todo) : m.nc[todo[i]].flags = {}
    /\ todo' = NULL
    /\ UNCHANGED <<m, sock, turn, asked, ready>>

-----------------------------------------------------------------------------
(* Clients and backends.  They act between polls: what reaches a socket     *)
(* while a poll is under way is read by this poll only if the connection was *)
(* ready already, and then it could as well have come before the poll.       *)

between_polls == running /\ todo = NULL /\ ready = {}

client_asks(c) ==
    /\ between_polls /\ m.nc[c].st = "open" /\ turn[c] = "talk" /\ ~sock[c].fin /\ asked[c] < MaxReq
    /\ \E d \in {"part", "whole"} : sock' = [sock EXCEPT ![c].data = d]
    /\ turn' = [turn EXCEPT ![c] = "wait"] /\ asked' = [asked EXCEPT ![c] = @ + 1]
    /\ m' = [m EXCEPT !.told[c] = "no"]
    /\ UNCHANGED <<ready, todo>>

\* The rest of a message of which the first part was sent.
completes(x) ==
    /\ between_polls /\ m.nc[x].st = "open" /\ ~sock[x].fin
    /\ sock[x].data = "part" \/ (sock[x].data = "no" /\ m.nc[x].part)
    /\ sock' = [sock EXCEPT ![x].data = "whole"]
    /\ UNCHANGED <<m, turn, asked, ready, todo>>

backend_answers(b) ==
    /\ between_polls /\ m.nc[b].st = "open" /\ m.owed[b] # NULL /\ ~m.nc[b].part /\ sock[b] = [NoSock EXCEPT !.syn = "ok"]
    /\ \E d \in {"part", "whole"} : sock' = [sock EXCEPT ![b].data = d]
    /\ UNCHANGED <<m, turn, asked, ready, todo>>

peer_closes(x) ==
    /\ between_polls /\ m.nc[x].st = "open" /\ ~sock[x].fin
    /\ sock' = [sock EXCEPT ![x].fin = TRUE]
    /\ UNCHANGED <<m, turn, asked, ready, todo>>

connect_finishes(b) ==
    /\ between_polls /\ m.nc[b].st = "connecting" /\ sock[b].syn = "pending"
    /\ \E r \in {"ok", "err"} : sock' = [sock EXCEPT ![b].syn = r]
    /\ UNCHANGED <<m, turn, asked, ready, todo>>

Next ==
    \/ poll \/ sweep \/ sweep_done
    \/ \E c \in Client : accept(c) \/ client_asks(c)
    \/ \E b \in Back : idle_timeout(b) \/ backend_answers(b) \/ connect_finishes(b)
    \/ \E x \in Nc : handle(x) \/ completes(x) \/ peer_closes(x)

Spec == Init /\ [][Next]_vars

-----------------------------------------------------------------------------
(* Properties *)

\* Type invariant; it bounds the pool by MAX_IDLE_CONNS, which the loop of
\* release_backend() enforces.
TypeOK ==
    /\ m.nc \in [Nc -> [st : {"free", "connecting", "open"}, handler : {"ev", "idle"}, part : BOOLEAN,
                        flags : SUBSET {"CLOSE_IMMEDIATELY", "SEND_AND_CLOSE"}, ud : Client \cup {NULL}]]
    /\ m.conn \in [Client -> [mem : BOOLEAN, client : BOOLEAN, backend : Back \cup {NULL}, body_len : {-1, 0},
                              be_conn : Back \cup {NULL}, keep_alive : BOOLEAN, headers : BOOLEAN]]
    /\ m.bec \in [Back -> [mem : BOOLEAN, nc : BOOLEAN, idle : BOOLEAN]]
    /\ m.num_conns \in 0 .. MaxIdle
    /\ turn \in [Client -> {"talk", "wait", "done"}]

\* The pool holds exactly the connections that idle_backend_handler() would
\* take out of it, each once, each still open and with its be_conn allocated,
\* and num_conns, although it drifts upwards when an idle connection closes,
\* never falls below their number, nor rises above MAX_IDLE_CONNS (TypeOK):
\* eviction always finds a connection.
PoolSound ==
    /\ TypeOK
    /\ Range1(m.pool) = {b \in Back : m.bec[b].mem /\ m.bec[b].idle /\ m.nc[b].handler = "idle" /\ m.nc[b].st = "open"}
    /\ \A i, j \in 1 .. Len(m.pool) : m.pool[i] = m.pool[j] => i = j
    /\ Len(m.pool) <= m.num_conns

\* A backend connection serves one client: its reply goes to the client whose
\* request was sent on it, and one that still owes a reply is not in the pool.
ReplyToAsker ==
    \A b \in Back : m.owed[b] # NULL => m.nc[b].handler = "ev" /\ m.nc[b].ud = m.owed[b]

\* While a client is there, the backend connection its conn_data names is
\* allocated, is its own, and is the one of its be_conn; the handler of a
\* backend connection never finds a conn_data that was freed.  The assertions
\* of ev_handler() hold: a client that may send its next request has no backend
\* connection, and a connection that becomes connected has its be_conn.
OwnBackend ==
    /\ \A c \in Client : m.conn[c].client /\ m.conn[c].backend # NULL =>
          LET b == m.conn[c].backend IN m.nc[b].st # "free" /\ m.nc[b].ud = c /\ m.conn[c].be_conn = b
    /\ \A b \in Back : m.nc[b].st = "open" /\ m.nc[b].handler = "ev" => m.conn[m.nc[b].ud].mem
    /\ \A c \in Client : m.nc[c].st = "open" /\ turn[c] = "talk" => m.conn[c].be_conn = NULL
    /\ \A b \in Back : m.nc[b].st = "connecting" /\ m.nc[b].flags = {} => m.conn[m.nc[b].ud].be_conn = b

\* A client that waits for the answer to its first request, once the request
\* was handed on, waits for a backend connection that is still there and still
\* owes it: every way to lose that connection tells the client.
WaitsForSomething ==
    \A c \in Client :
       m.nc[c].st = "open" /\ turn[c] = "wait" /\ m.conn[c].body_len < 0 /\ m.conn[c].be_conn # NULL =>
          LET b == m.conn[c].backend IN b # NULL /\ m.nc[b].st # "free" /\ m.owed[b] = c

=============================================================================
