------------------------------- MODULE Resolver -------------------------------
(***************************************************************************)
(* The asynchronous resolver (resolv.c) and its use by ns_connect() of a   *)
(* host name.  A lookup is a request plus a UDP connection to a nameserver *)
(* whose handler, ns_resolve_async_eh(), sends queries, gives up or takes  *)
(* the answer, and frees the request; the connection itself is closed by   *)
(* a later step of ns_mgr_poll().  The connection being made by name is    *)
(* in no list while it is resolved: only the request points to it.         *)
(***************************************************************************)
EXTENDS Naturals, Sequences, FiniteSets

CONSTANTS
    Req,            \* memory blocks of requests, each with its nameserver connection
    Client,         \* memory blocks of connections made by name
    App,            \* the application as the owner of a callback
    MaxRetries,     \* opts.max_retries
    Timeout,        \* opts.timeout, in ticks of time()
    Builds,         \* with epoll() (TRUE), with select() (FALSE)
    ByName,         \* may opts.nameserver_url hold a name?
    MaxInq          \* bound: datagrams queued on one socket

ASSUME ResolverAssumption ==
    /\ App \notin Req \cup Client /\ Req \cap Client = {}
    /\ MaxRetries \in Nat \ {0} /\ Timeout \in Nat \ {0} /\ MaxInq \in Nat \ {0}
    /\ Builds \subseteq BOOLEAN /\ ByName \in BOOLEAN

VARIABLES
    rq,         \* the requests
    cc,         \* connections made by name: "none", "resolving", "connecting" (in the list)
    phase,      \* of ns_mgr_poll(): "idle", "events", "sweep"; "freed" after ns_mgr_free()
    todo,       \* nameserver connections this loop has still to visit
    ready,      \* those with an event reported
    last,       \* is this the last poll, of ns_mgr_free()?
    epoll       \* the build

vars == <<rq, cc, phase, todo, ready, last, epoll>>
loop == <<phase, todo, ready, last, epoll>>

\* What a reply turns out to be: an A record, other answers only, or no
\* answer at all (or not a DNS message).
Reply == {"a", "other", "empty"}

\* A free block.  age: seconds since last_time, which starts at 0, cut off
\* at Timeout + 1; nc: the nameserver connection, "named" while its own
\* address is looked up; life: history, seconds since the start, cut off at
\* Elapsed.
Elapsed == MaxRetries * (Timeout + 1)
Fresh == [mem |-> "none", nc |-> "none", client |-> App, retries |-> 0,
          age |-> Timeout + 1, inq |-> <<>>, nopoll |-> FALSE, life |-> 0]

Init ==
    /\ rq = [r \in Req |-> Fresh]
    /\ cc = [c \in Client |-> "none"]
    /\ phase = "idle" /\ todo = {} /\ ready = {} /\ last = FALSE
    /\ epoll \in Builds

Listed == {r \in Req : rq[r].nc \in {"connecting", "open", "closing"}}

-----------------------------------------------------------------------------
(* The handler, as a map from s = [rq, cc] to the set of possible results. *)

\* Mutant: last_time is not set.
query_keeps_time(q) == IF q.age > Timeout THEN [q EXCEPT !.retries = @ + 1] ELSE q

\* Mutant: the query is not counted.
query_not_counted(q) == IF q.age > Timeout THEN [q EXCEPT !.age = 0] ELSE q

\* A query if the last one has timed out.
query(q) == IF q.age > Timeout THEN [q EXCEPT !.age = 0, !.retries = @ + 1] ELSE q

\* NS_CONNECT with an error for the nameserver connection of k, which is then
\* destroyed: the handler does not look at the error, the request stays.
connect_failed(s, k) == [s EXCEPT !.rq[k] = [query(s.rq[k]) EXCEPT !.nc = "gone"]]

\* Mutant: without an A record the connection is left as it is.
resolve_cb_forgets(s, k, res) ==
    IF k \in Client
    THEN IF res = "a" THEN {[s EXCEPT !.cc[k] = x] : x \in {"connecting", "none"}} ELSE {s}
    ELSE {connect_failed(s, k)} \cup (IF res = "a" THEN {[s EXCEPT !.rq[k].nc = "connecting"]} ELSE {})

\* resolve_cb(): connect to the first A record, which may fail at once; or
\* tell the handler, and destroy the connection.
resolve_cb(s, k, res) ==
    IF k \in Client
    THEN {[s EXCEPT !.cc[k] = x] : x \in IF res = "a" THEN {"connecting", "none"} ELSE {"none"}}
    ELSE {connect_failed(s, k)} \cup (IF res = "a" THEN {[s EXCEPT !.rq[k].nc = "connecting"]} ELSE {})

\* The callback, then NS_FREE(req) and NSF_CLOSE_IMMEDIATELY.
finish(s, r, res) ==
    LET t == [s EXCEPT !.rq[r].mem = "freed", !.rq[r].nc = "closing"] IN
    IF s.rq[r].client = App THEN {t} ELSE resolve_cb(t, s.rq[r].client, res)

\* NS_CONNECT and NS_POLL.
eh_poll(s, r) ==
    IF s.rq[r].retries > MaxRetries THEN finish(s, r, "empty")
    ELSE {[s EXCEPT !.rq[r] = query(@)]}

\* NS_RECV.
eh_recv(s, r) == finish([s EXCEPT !.rq[r].inq = Tail(@)], r, Head(s.rq[r].inq))

\* ns_mgr_handle_connection() of a nameserver connection.
handle_connection(s, r, fd) ==
    CASE s.rq[r].nc = "connecting" -> IF fd THEN eh_poll([s EXCEPT !.rq[r].nc = "open"], r) ELSE {s}
      [] s.rq[r].nc # "connecting" /\ fd -> eh_recv(s, r)
      [] OTHER -> eh_poll(s, r)

-----------------------------------------------------------------------------
(* ns_mgr_poll(), as far as nameserver connections see it (see EventLoop). *)

now == [rq |-> rq, cc |-> cc]
becomes(s) == rq' = s.rq /\ cc' = s.cc

\* A connecting UDP socket is writable at once.
poll(free) ==
    /\ phase = "idle" /\ phase' = "events"
    /\ ready' = {r \in Req : rq[r].nc = "connecting" \/ (rq[r].nc = "open" /\ rq[r].inq # <<>>)}
    /\ todo' = IF epoll THEN ready' ELSE Listed
    /\ last' = free
    /\ UNCHANGED <<rq, cc, epoll>>

\* Mutant: _NS_EPF_NO_POLL is not set after an event.
handle_no_bit(r) ==
    /\ phase = "events" /\ r \in todo
    /\ todo' = todo \ {r}
    /\ \E s \in handle_connection(now, r, r \in ready) : becomes(s)
    /\ UNCHANGED <<phase, ready, last, epoll>>

\* epoll: one event.  select: one round of the second loop.
handle(r) ==
    /\ phase = "events" /\ r \in todo
    /\ todo' = todo \ {r}
    /\ \E s \in handle_connection(now, r, r \in ready) :
          becomes(IF epoll THEN [s EXCEPT !.rq[r].nopoll = ~@] ELSE s)
    /\ UNCHANGED <<phase, ready, last, epoll>>

events_done ==
    /\ phase = "events" /\ todo = {}
    /\ phase' = "sweep" /\ todo' = Listed /\ ready' = {}
    /\ UNCHANGED <<rq, cc, last, epoll>>

closed(s, r) == IF s.rq[r].nc = "closing" THEN [s EXCEPT !.rq[r] = Fresh] ELSE s

\* The last loop: epoll gives NS_POLL to who had no event; both close.
sweep(r) ==
    /\ phase = "sweep" /\ r \in todo
    /\ todo' = todo \ {r}
    /\ \E s \in IF epoll /\ ~rq[r].nopoll THEN handle_connection(now, r, FALSE) ELSE {now} :
          becomes(closed([s EXCEPT !.rq[r].nopoll = FALSE], r))
    /\ UNCHANGED <<phase, ready, last, epoll>>

\* The end of the poll.  ns_mgr_free() then closes what is in the list: the
\* handler does nothing on NS_CLOSE.
sweep_done ==
    /\ phase = "sweep" /\ todo = {}
    /\ phase' = IF last THEN "freed" ELSE "idle"
    /\ rq' = IF last THEN [r \in Req |-> IF r \in Listed THEN [rq[r] EXCEPT !.nc = "gone"] ELSE rq[r]]
                     ELSE rq
    /\ UNCHANGED <<cc, todo, ready, last, epoll>>

-----------------------------------------------------------------------------
(* The application, between two polls or in any handler. *)

unused(r) == phase # "freed" /\ rq[r] = Fresh
lookup(client) == [Fresh EXCEPT !.mem = "held", !.nc = "connecting", !.client = client]

\* ns_resolve_async(), by the address of a nameserver.
ns_resolve_async(r) ==
    /\ unused(r)
    /\ rq' = [rq EXCEPT ![r] = lookup(App)]
    /\ UNCHANGED <<cc, loop>>

\* ns_resolve_async_opt() with a nameserver given by name: the connection of r
\* is itself made by a lookup, i.
ns_resolve_async_opt(r, i) ==
    /\ ByName /\ unused(r) /\ unused(i) /\ r # i
    /\ rq' = [rq EXCEPT ![r] = [lookup(App) EXCEPT !.nc = "named"], ![i] = lookup(r)]
    /\ UNCHANGED <<cc, loop>>

\* ns_connect() of a host name.
ns_connect(c, r) ==
    /\ unused(r) /\ cc[c] = "none"
    /\ cc' = [cc EXCEPT ![c] = "resolving"]
    /\ rq' = [rq EXCEPT ![r] = lookup(c)]
    /\ UNCHANGED loop

\* The rest of the life of a connection is EventLoop's.
connection_ends(c) ==
    /\ cc[c] = "connecting"
    /\ cc' = [cc EXCEPT ![c] = "none"]
    /\ UNCHANGED <<rq, loop>>

-----------------------------------------------------------------------------
(* Time and the network. *)

older(q) == IF q.mem # "held" THEN q
            ELSE [q EXCEPT !.age = IF @ > Timeout THEN @ ELSE @ + 1,
                           !.life = IF @ = Elapsed THEN @ ELSE @ + 1]

tick ==
    /\ phase # "freed"
    /\ rq' = [r \in Req |-> older(rq[r])]
    /\ UNCHANGED <<cc, loop>>

\* Replies may be lost, late (to an earlier query) or duplicated; none comes
\* before the first query, which binds the socket.
reply_arrives(r, d) ==
    /\ rq[r].nc \in {"open", "closing"} /\ rq[r].retries > 0
    /\ Len(rq[r].inq) < MaxInq
    /\ rq' = [rq EXCEPT ![r].inq = Append(@, d)]
    /\ UNCHANGED <<cc, loop>>

Loop == \/ poll(FALSE) \/ events_done \/ sweep_done
        \/ \E r \in Req : handle(r) \/ sweep(r)

Next ==
    \/ Loop \/ poll(TRUE) \/ tick
    \/ \E r \in Req : \/ ns_resolve_async(r)
                      \/ \E i \in Req : ns_resolve_async_opt(r, i)
                      \/ \E d \in Reply : reply_arrives(r, d)
                      \/ \E c \in Client : ns_connect(c, r)
    \/ \E c \in Client : connection_ends(c)

Spec == Init /\ [][Next]_vars

\* The application polls for ever (or frees the manager), and time passes.
FairSpec == Spec /\ WF_vars(Loop) /\ WF_vars(tick)

-----------------------------------------------------------------------------
(* Properties *)

\* Every variable has its type; at most MaxRetries + 1 queries are sent.
TypeOK ==
    /\ \A r \in Req :
          /\ rq[r].mem \in {"none", "held", "freed"}
          /\ rq[r].nc \in {"none", "named", "connecting", "open", "closing", "gone"}
          /\ rq[r].client \in {App} \cup Client \cup Req
          /\ rq[r].retries \in 0..(MaxRetries + 1) /\ rq[r].age \in 0..(Timeout + 1)
          /\ rq[r].inq \in Seq(Reply) /\ rq[r].nopoll \in BOOLEAN
          /\ rq[r].life \in 0..Elapsed
    /\ cc \in [Client -> {"none", "resolving", "connecting"}]
    /\ phase \in {"idle", "events", "sweep", "freed"}
    /\ todo \subseteq Req /\ ready \subseteq Req /\ last \in BOOLEAN /\ epoll \in BOOLEAN

\* resolv.c:155 and 173.  The handler frees the request long before the
\* connection is closed, yet no event that makes it look at the request
\* (NS_CONNECT, NS_POLL, NS_RECV) comes in between, in either build.
NoStaleRequest ==
    \A r \in todo :
        /\ phase = "events" => rq[r].mem = "held"
        /\ phase = "sweep" /\ epoll /\ ~rq[r].nopoll => rq[r].mem = "held"

Awaits(r, k) == /\ rq[r].mem = "held" /\ rq[r].client = k
                /\ phase # "freed" => rq[r].nc \in {"connecting", "open"}

\* net.c:1259.  The connection resolve_cb() gets as a bare pointer is there
\* and still unresolved, no other lookup is for it, and as long as it is
\* unresolved there is a lookup for it: it can neither be freed twice nor
\* be forgotten before ns_mgr_free().  (With the type invariant.)
Paired ==
    TypeOK /\ \A k \in Client \cup Req :
        LET waiting == IF k \in Client THEN cc[k] = "resolving" ELSE rq[k].nc = "named"
        IN  Cardinality({r \in Req : Awaits(r, k)}) = IF waiting THEN 1 ELSE 0

\* The step in which the handler of r gives up: it ends without a reply.
TimesOut(r) ==
    /\ rq[r].mem = "held" /\ rq'[r].mem # "held"
    /\ ~(phase = "events" /\ r \in ready)

\* resolv.c:153-163.  Nobody is told that a lookup has timed out before
\* MaxRetries queries have each had their timeout.
TimeoutTotal == [][\A r \in Req : TimesOut(r) => rq[r].life = Elapsed]_vars

\* resolv.c:153-176.  Every lookup that has the address of its nameserver ends
\* in its callback, unless the manager is freed before.
Answered ==
    \A r \in Req : rq[r].nc \in {"connecting", "open"} /\ rq[r].mem = "held"
                      ~> rq[r].mem # "held" \/ phase = "freed"

\* resolv.h:35-40.  So does every lookup.
AlwaysAnswered == \A r \in Req : rq[r].mem = "held" ~> rq[r].mem # "held" \/ phase = "freed"

=============================================================================
