--------------------------- MODULE ResolverProofs ---------------------------
(***************************************************************************)
(* Proofs about Resolver, for any number of requests and connections, any  *)
(* timeout and number of retries, and both builds.                         *)
(***************************************************************************)
EXTENDS Resolver, FiniteSetTheorems, TLAPS

\* The type of a request.
Request ==
    [mem : {"none", "held", "freed"}, nc : {"none", "named", "connecting", "open", "closing", "gone"},
     client : {App} \cup Client \cup Req, retries : 0 .. (MaxRetries + 1), age : 0 .. (Timeout + 1),
     inq : Seq(Reply), nopoll : BOOLEAN, life : 0 .. Elapsed]

\* The type of every variable.
Shape ==
    /\ rq \in [Req -> Request] /\ cc \in [Client -> {"none", "resolving", "connecting"}]
    /\ phase \in {"idle", "events", "sweep", "freed"}
    /\ todo \in SUBSET Req /\ ready \in SUBSET Req /\ last \in BOOLEAN /\ epoll \in BOOLEAN

\* Which requests the loops of ns_mgr_poll() have still to visit, and that
\* one whose memory is gone is closed in the same poll, unvisited.
Visit(r) ==
    /\ rq[r].nc \in {"named", "connecting", "open"} => rq[r].mem = "held"
    /\ rq[r].nc = "closing" => rq[r].mem = "freed" /\ (epoll => rq[r].nopoll)
    /\ r \in todo => rq[r].nc \in {"connecting", "open", "closing"}
    /\ phase = "events" /\ r \in todo =>
          /\ rq[r].nc # "closing" /\ (epoll => r \in ready)
          /\ r \in ready => rq[r].nc = "connecting" \/ rq[r].inq # <<>>
    /\ rq[r].nopoll => epoll /\ rq[r].nc \in {"open", "closing"}
    /\ rq[r].nopoll \/ rq[r].nc = "closing" =>
          (phase = "events" /\ r \notin todo) \/ (phase = "sweep" /\ r \in todo)
Visits == (phase \in {"idle", "freed"} => todo = {}) /\ \A r \in Req : Visit(r)

\* Is k, a connection by name or a request with a nameserver by name, still
\* unresolved?
Waiting(k) == IF k \in Client THEN cc[k] = "resolving" ELSE rq[k].nc = "named"

\* Lookups and what waits for them.
For(r, k) == rq[r].mem = "held" /\ rq[r].client = k
Pairs ==
    /\ \A r \in Req, k \in Client \cup Req : For(r, k) => Waiting(k)
    /\ \A r, i \in Req, k \in Client \cup Req : For(r, k) /\ For(i, k) => r = i
    /\ \A k \in Client \cup Req : Waiting(k) => \E r \in Req : For(r, k)
    /\ \A r \in Req : rq[r].mem = "held" /\ rq[r].client # App /\ phase # "freed"
                         => rq[r].nc \in {"connecting", "open"}
    /\ \A r \in Req : rq[r].nc = "named" => rq[r].client = App /\ rq[r].retries = 0

\* How long a lookup with so many queries has lasted.
Long(p) ==
    p.mem = "held" /\ p.retries # 0 =>
        p.life = Elapsed \/ p.life >= (p.retries - 1) * (Timeout + 1) + p.age
Lasted == \A r \in Req : Long(rq[r])

Inv == Shape /\ Visits /\ Pairs /\ Lasted

-----------------------------------------------------------------------------
(* What the handler does, to the request it is called for and to whoever    *)
(* waits for that one.                                                      *)

States == [rq : [Req -> Request], cc : [Client -> {"none", "resolving", "connecting"}]]

\* At most one query, when the last one has timed out.
Asked(p, q) ==
    \/ q.retries = p.retries /\ q.age = p.age
    \/ p.age > Timeout /\ q.age = 0 /\ q.retries = p.retries + 1

\* What no handler changes before the request is freed.
Kept(p, q) == q.mem = p.mem /\ q.client = p.client /\ q.life = p.life /\ q.inq = p.inq

\* Nothing but r, and what it is for, changes.
Aside(s, t, r) ==
    /\ \A j \in Req \ {r} : j # s.rq[r].client => t.rq[j] = s.rq[j]
    /\ \A c \in Client : c # s.rq[r].client => t.cc[c] = s.cc[c]

\* The handler waits on.
Stays(s, t, r, fd) ==
    /\ t \in States /\ t.cc = s.cc
    /\ \A j \in Req \ {r} : t.rq[j] = s.rq[j]
    /\ Kept(s.rq[r], t.rq[r]) /\ Asked(s.rq[r], t.rq[r]) /\ t.rq[r].nopoll = s.rq[r].nopoll
    /\ t.rq[r].nc = IF s.rq[r].nc = "connecting" /\ fd THEN "open" ELSE s.rq[r].nc

\* The connection k is told the result of its lookup.
Told(s, t, k) ==
    /\ k \in Client => t.cc[k] \in {"connecting", "none"}
    /\ k \in Req => /\ Kept(s.rq[k], t.rq[k]) /\ Asked(s.rq[k], t.rq[k])
                    /\ t.rq[k].nopoll = s.rq[k].nopoll /\ t.rq[k].nc \in {"gone", "connecting"}

\* The handler ends the lookup r.
Ends(s, t, r) ==
    /\ t \in States /\ Aside(s, t, r) /\ Told(s, t, s.rq[r].client)
    /\ t.rq[r].mem = "freed" /\ t.rq[r].nc = "closing" /\ t.rq[r].nopoll = s.rq[r].nopoll

\* A request is replaced in a state.
LEMMA Replaced ==
  ASSUME NEW s \in States, NEW r \in Req, NEW x \in Request
  PROVE  /\ [s EXCEPT !.rq[r] = x] \in States
         /\ [s EXCEPT !.rq[r] = x].cc = s.cc
         /\ [s EXCEPT !.rq[r] = x].rq[r] = x
         /\ \A j \in Req \ {r} : [s EXCEPT !.rq[r] = x].rq[j] = s.rq[j]
  BY DEF States

\* query() with a query left.
LEMMA QueryAsks ==
  ASSUME NEW p \in Request, p.retries <= MaxRetries
  PROVE  query(p) \in Request /\ Kept(p, query(p)) /\ Asked(p, query(p))
         /\ query(p).nopoll = p.nopoll /\ query(p).nc = p.nc
  <1>1. CASE p.age > Timeout
    <2>1. p.retries \in 0 .. (MaxRetries + 1)
      BY DEF Request
    <2>2. p.retries + 1 \in 0 .. (MaxRetries + 1) /\ 0 \in 0 .. (Timeout + 1)
      BY <2>1, ResolverAssumption
    <2>3. query(p) = [p EXCEPT !.age = 0, !.retries = p.retries + 1]
      BY <1>1 DEF query
    <2>4. query(p) \in Request
      BY Zenon, <2>2, <2>3 DEF Request
    <2>5. query(p).age = 0 /\ query(p).retries = p.retries + 1
      BY <2>3 DEF Request
    <2>6. Kept(p, query(p)) /\ query(p).nopoll = p.nopoll /\ query(p).nc = p.nc
      BY <2>3 DEF Request, Kept
    <2> QED BY <1>1, <2>4, <2>5, <2>6 DEF Asked
  <1>2. CASE ~(p.age > Timeout)
    BY <1>2 DEF query, Kept, Asked
  <1> QED BY <1>1, <1>2

\* The connection of a request changes its state.
LEMMA Renamed ==
  ASSUME NEW p \in Request, NEW n \in {"open", "gone", "connecting"}
  PROVE  [p EXCEPT !.nc = n] \in Request /\ Kept(p, [p EXCEPT !.nc = n])
         /\ [p EXCEPT !.nc = n].retries = p.retries /\ [p EXCEPT !.nc = n].age = p.age
         /\ [p EXCEPT !.nc = n].nopoll = p.nopoll /\ [p EXCEPT !.nc = n].nc = n
  BY DEF Request, Kept

-----------------------------------------------------------------------------

\* resolve_cb() tells a connection made by name, or a request whose nameserver
\* has a name.
LEMMA CallbackTells ==
  ASSUME NEW s \in States, NEW k \in Client \cup Req, NEW res \in Reply,
         k \in Req => s.rq[k].retries <= MaxRetries, NEW t \in resolve_cb(s, k, res)
  PROVE  /\ t \in States /\ Told(s, t, k)
         /\ \A j \in Req \ {k} : t.rq[j] = s.rq[j]
         /\ \A c \in Client \ {k} : t.cc[c] = s.cc[c]
  <1>1. CASE k \in Client
    <2>1. PICK x \in {"none", "connecting"} : t = [s EXCEPT !.cc[k] = x]
      BY <1>1 DEF resolve_cb
    <2>2. k \notin Req
      BY <1>1, ResolverAssumption
    <2>3. /\ t \in States /\ t.rq = s.rq /\ t.cc[k] = x
          /\ \A d \in Client \ {k} : t.cc[d] = s.cc[d]
      BY <1>1, <2>1 DEF States
    <2> QED BY Zenon, <1>1, <2>2, <2>3 DEF Told
  <1>2. CASE k \notin Client
    <2>1. k \in Req /\ s.rq[k] \in Request
      BY <1>2 DEF States
    <2>2. PICK x \in {[query(s.rq[k]) EXCEPT !.nc = "gone"], [s.rq[k] EXCEPT !.nc = "connecting"]} :
                t = [s EXCEPT !.rq[k] = x]
      BY <1>2, <2>1 DEF resolve_cb, connect_failed, States
    <2>3. query(s.rq[k]) \in Request /\ Kept(s.rq[k], query(s.rq[k])) /\ Asked(s.rq[k], query(s.rq[k]))
          /\ query(s.rq[k]).nopoll = s.rq[k].nopoll
      BY <2>1, QueryAsks
    <2>4. /\ x \in Request /\ Kept(s.rq[k], x) /\ Asked(s.rq[k], x)
          /\ x.nopoll = s.rq[k].nopoll /\ x.nc \in {"gone", "connecting"}
      <3>1. CASE x = [query(s.rq[k]) EXCEPT !.nc = "gone"]
        BY Zenon, <2>3, <3>1, Renamed DEF Kept, Asked
      <3>2. CASE x = [s.rq[k] EXCEPT !.nc = "connecting"]
        BY Zenon, <2>1, <3>2, Renamed DEF Kept, Asked
      <3> QED BY <3>1, <3>2
    <2> QED BY <1>2, <2>1, <2>2, <2>4, Replaced DEF Told
  <1> QED BY <1>1, <1>2

\* finish() ends the lookup, and tells what it was for.
LEMMA FinishEnds ==
  ASSUME NEW s \in States, NEW r \in Req, NEW res \in Reply, s.rq[r].client # r,
         s.rq[r].client \in Req => s.rq[s.rq[r].client].retries <= MaxRetries,
         NEW t \in finish(s, r, res)
  PROVE  Ends(s, t, r)
  <1> DEFINE x == [s.rq[r] EXCEPT !.mem = "freed", !.nc = "closing"]
             u == [s EXCEPT !.rq[r].mem = "freed", !.rq[r].nc = "closing"]
             k == s.rq[r].client
  <1>1. s.rq[r] \in Request
    BY DEF States
  <1>2. x \in Request /\ x.mem = "freed" /\ x.nc = "closing" /\ x.nopoll = s.rq[r].nopoll
    BY Zenon, <1>1 DEF Request
  <1>3. u = [s EXCEPT !.rq[r] = x]
    BY Zenon DEF States
  <1>4. k \in {App} \cup Client \cup Req
    BY <1>1 DEF Request
  <1>5. t \in IF k = App THEN {u} ELSE resolve_cb(u, k, res)
    BY DEF finish
  <1>6. k # r /\ (k \in Req => s.rq[k].retries <= MaxRetries)
    OBVIOUS
  <1> HIDE DEF x, u
  <1>7. /\ u \in States /\ u.cc = s.cc /\ u.rq[r] = x
        /\ \A j \in Req \ {r} : u.rq[j] = s.rq[j]
    BY <1>2, <1>3, Replaced
  <1>8. CASE k = App
    <2>1. t = u
      BY <1>5, <1>8
    <2> QED BY <1>2, <1>7, <1>8, <2>1, ResolverAssumption DEF Ends, Aside, Told
  <1>9. CASE k # App
    <2> HIDE DEF k
    <2>1. t \in resolve_cb(u, k, res)
      BY <1>5, <1>9
    <2>2. k \in Client \cup Req /\ (k \in Req => u.rq[k] = s.rq[k])
      BY <1>4, <1>6, <1>7, <1>9
    <2>3. k \in Req => u.rq[k].retries <= MaxRetries
      BY <1>6, <2>2
    <2>4. /\ t \in States /\ Told(u, t, k)
          /\ \A j \in Req \ {k} : t.rq[j] = u.rq[j]
          /\ \A c \in Client \ {k} : t.cc[c] = u.cc[c]
      BY <1>7, <2>1, <2>2, <2>3, CallbackTells
    <2>5. Told(s, t, k)
      BY Zenon, <2>2, <2>4 DEF Told
    <2>6. t.rq[r] = x
      BY <1>6, <1>7, <2>4
    <2>7. Aside(s, t, r)
      BY <1>7, <2>4 DEF Aside, k
    <2> QED BY <1>2, <2>4, <2>5, <2>6, <2>7 DEF Ends, k
  <1> QED BY <1>8, <1>9

\* A lookup ends in the same way when its request was changed just before.
LEMMA EndsFrom ==
  ASSUME NEW s, NEW u, NEW t, NEW r \in Req, s.rq[r].client # r, Ends(u, t, r),
         u.cc = s.cc, \A j \in Req \ {r} : u.rq[j] = s.rq[j],
         u.rq[r].client = s.rq[r].client, u.rq[r].nopoll = s.rq[r].nopoll
  PROVE  Ends(s, t, r)
  <1> DEFINE k == s.rq[r].client
  <1>1. k # r /\ u.rq[r].client = k
    OBVIOUS
  <1> HIDE DEF k
  <1>2. Told(s, t, k)
    BY Zenon, <1>1 DEF Ends, Told
  <1>3. Aside(s, t, r)
    BY Zenon, <1>1 DEF Ends, Aside, k
  <1> QED BY Zenon, <1>2, <1>3 DEF Ends, k

\* NS_CONNECT and NS_POLL: the handler gives up or waits on.
LEMMA PollEffect ==
  ASSUME NEW s \in States, NEW r \in Req, s.rq[r].client # r,
         s.rq[r].client \in Req => s.rq[s.rq[r].client].retries <= MaxRetries,
         NEW t \in eh_poll(s, r)
  PROVE  \/ s.rq[r].retries > MaxRetries /\ Ends(s, t, r)
         \/ Stays(s, t, r, FALSE)
  <1>1. CASE s.rq[r].retries > MaxRetries
    <2>1. t \in finish(s, r, "empty")
      BY <1>1 DEF eh_poll
    <2> QED BY Zenon, <1>1, <2>1, FinishEnds DEF Reply
  <1>2. CASE ~(s.rq[r].retries > MaxRetries)
    <2>1. s.rq[r] \in Request
      BY DEF States
    <2>2. s.rq[r].retries <= MaxRetries
      BY <1>2, <2>1, ResolverAssumption DEF Request
    <2>3. t = [s EXCEPT !.rq[r] = query(s.rq[r])]
      BY <1>2 DEF eh_poll, States
    <2> DEFINE x == query(s.rq[r])
    <2>4. /\ x \in Request /\ Kept(s.rq[r], x) /\ Asked(s.rq[r], x)
          /\ x.nopoll = s.rq[r].nopoll /\ x.nc = s.rq[r].nc
      BY <2>1, <2>2, QueryAsks
    <2> HIDE DEF x
    <2>5. t = [s EXCEPT !.rq[r] = x]
      BY <2>3 DEF x
    <2>6. t \in States /\ t.cc = s.cc /\ t.rq[r] = x /\ \A j \in Req \ {r} : t.rq[j] = s.rq[j]
      BY <2>4, <2>5, Replaced
    <2> QED BY Zenon, <2>4, <2>6 DEF Stays
  <1> QED BY Zenon, <1>1, <1>2

\* NS_RECV: the lookup ends.
LEMMA RecvEffect ==
  ASSUME NEW s \in States, NEW r \in Req, s.rq[r].client # r, s.rq[r].inq # <<>>,
         s.rq[r].client \in Req => s.rq[s.rq[r].client].retries <= MaxRetries,
         NEW t \in eh_recv(s, r)
  PROVE  Ends(s, t, r)
  <1> DEFINE x == [s.rq[r] EXCEPT !.inq = Tail(s.rq[r].inq)]
             u == [s EXCEPT !.rq[r].inq = Tail(@)]
  <1>1. s.rq[r] \in Request
    BY DEF States
  <1>2. s.rq[r].inq \in Seq(Reply)
    BY <1>1 DEF Request
  <1>3. Head(s.rq[r].inq) \in Reply /\ Tail(s.rq[r].inq) \in Seq(Reply)
    BY <1>2
  <1>4. x \in Request /\ x.client = s.rq[r].client /\ x.nopoll = s.rq[r].nopoll
    BY Zenon, <1>1, <1>3 DEF Request
  <1>5. u = [s EXCEPT !.rq[r] = x]
    BY DEF States
  <1>6. t \in finish(u, r, Head(s.rq[r].inq))
    BY DEF eh_recv
  <1> HIDE DEF x, u
  <1>7. /\ u \in States /\ u.cc = s.cc /\ u.rq[r] = x
        /\ \A j \in Req \ {r} : u.rq[j] = s.rq[j]
    BY <1>4, <1>5, Replaced
  <1>8. u.rq[r].client = s.rq[r].client /\ u.rq[r].nopoll = s.rq[r].nopoll
    BY <1>4, <1>7
  <1>9. u.rq[r].client \in Req => u.rq[u.rq[r].client].retries <= MaxRetries
    BY <1>7, <1>8
  <1>10. Ends(u, t, r)
    BY <1>3, <1>6, <1>7, <1>8, <1>9, FinishEnds
  <1> QED BY <1>7, <1>8, <1>10, EndsFrom

\* ns_mgr_handle_connection() of a nameserver connection.
LEMMA HandleEffect ==
  ASSUME NEW s \in States, NEW r \in Req, s.rq[r].client # r, NEW fd \in BOOLEAN,
         s.rq[r].client \in Req => s.rq[s.rq[r].client].retries <= MaxRetries,
         fd => s.rq[r].nc = "connecting" \/ s.rq[r].inq # <<>>,
         NEW t \in handle_connection(s, r, fd)
  PROVE  \/ (fd \/ s.rq[r].retries > MaxRetries) /\ Ends(s, t, r)
         \/ Stays(s, t, r, fd)
  <1>1. s.rq[r] \in Request
    BY DEF States
  <1>2. CASE s.rq[r].nc = "connecting" /\ fd
    <2> DEFINE x == [s.rq[r] EXCEPT !.nc = "open"]
               u == [s EXCEPT !.rq[r].nc = "open"]
    <2>1. t \in eh_poll(u, r)
      BY <1>2 DEF handle_connection
    <2>2. u = [s EXCEPT !.rq[r] = x]
      BY DEF States
    <2>3. /\ x \in Request /\ Kept(s.rq[r], x) /\ x.retries = s.rq[r].retries
          /\ x.age = s.rq[r].age /\ x.nopoll = s.rq[r].nopoll /\ x.nc = "open"
      BY Zenon, <1>1, Renamed
    <2> HIDE DEF x, u
    <2>4. /\ u \in States /\ u.cc = s.cc /\ u.rq[r] = x
          /\ \A j \in Req \ {r} : u.rq[j] = s.rq[j]
      BY <2>2, <2>3, Replaced
    <2>5. u.rq[r].client = s.rq[r].client /\ u.rq[r].nopoll = s.rq[r].nopoll
      BY <2>3, <2>4 DEF Kept
    <2>6. u.rq[r].client \in Req => u.rq[u.rq[r].client].retries <= MaxRetries
      BY <2>4, <2>5
    <2>7. Ends(u, t, r) \/ Stays(u, t, r, FALSE)
      BY Zenon, <2>1, <2>4, <2>5, <2>6, PollEffect
    <2>8. Ends(u, t, r) => Ends(s, t, r)
      BY Zenon, <2>4, <2>5, EndsFrom
    <2>9. ASSUME Stays(u, t, r, FALSE)
          PROVE  Stays(s, t, r, fd)
      <3>1. t.rq[r].nc = "open" /\ t.cc = s.cc /\ \A j \in Req \ {r} : t.rq[j] = s.rq[j]
        BY Zenon, <2>3, <2>4, <2>9 DEF Stays
      <3>2. Kept(s.rq[r], t.rq[r]) /\ Asked(s.rq[r], t.rq[r]) /\ t.rq[r].nopoll = s.rq[r].nopoll
        BY Zenon, <2>3, <2>4, <2>9 DEF Stays, Kept, Asked
      <3> QED BY Zenon, <1>2, <2>9, <3>1, <3>2 DEF Stays
    <2> QED BY Zenon, <1>2, <2>7, <2>8, <2>9
  <1>3. CASE s.rq[r].nc = "connecting" /\ ~fd
    <2>1. t = s
      BY <1>3 DEF handle_connection
    <2> QED BY Zenon, <1>3, <2>1 DEF Stays, Kept, Asked
  <1>4. CASE s.rq[r].nc # "connecting" /\ fd
    <2>1. t \in eh_recv(s, r)
      BY <1>4 DEF handle_connection
    <2> QED BY Zenon, <1>4, <2>1, RecvEffect
  <1>5. CASE s.rq[r].nc # "connecting" /\ ~fd
    <2>1. t \in eh_poll(s, r)
      BY <1>5 DEF handle_connection
    <2>2. fd = FALSE
      BY <1>5
    <2> QED BY Zenon, <2>1, <2>2, PollEffect
  <1> QED BY Zenon, <1>2, <1>3, <1>4, <1>5


-----------------------------------------------------------------------------
(* The same for the steps of ns_mgr_poll().                                 *)

Typed == rq \in [Req -> Request] /\ cc \in [Client -> {"none", "resolving", "connecting"}]

\* The lookup r goes on, and nobody else notices.
Runs(r) ==
    /\ Typed' /\ cc' = cc /\ \A j \in Req \ {r} : rq'[j] = rq[j]
    /\ Kept(rq[r], rq'[r]) /\ Asked(rq[r], rq'[r])

\* The lookup r is over, and k, what it was for, is told.
Over(r) ==
    LET k == rq[r].client IN
    /\ Typed' /\ rq[r].nc \in {"connecting", "open"}
    /\ \A j \in Req \ {r} : j # k => rq'[j] = rq[j]
    /\ \A c \in Client : c # k => cc'[c] = cc[c]
    /\ k \in Client => cc'[k] \in {"connecting", "none"}
    /\ k \in Req => /\ Kept(rq[k], rq'[k]) /\ Asked(rq[k], rq'[k]) /\ rq'[k].nopoll = rq[k].nopoll
                    /\ rq[k].nc = "named" /\ rq'[k].nc \in {"gone", "connecting"}

\* A step of the loop over the events.
Handles(r) ==
    \/ /\ Runs(r) /\ rq'[r].nopoll = epoll
       /\ rq'[r].nc = IF rq[r].nc = "connecting" /\ r \in ready THEN "open" ELSE rq[r].nc
    \/ /\ Over(r) /\ rq'[r].nopoll = epoll /\ rq'[r].mem = "freed" /\ rq'[r].nc = "closing"
       /\ r \in ready \/ rq[r].retries > MaxRetries

\* A step of the last loop of ns_mgr_poll().
Sweeps(r) ==
    \/ Runs(r) /\ rq'[r].nopoll = FALSE /\ rq[r].nc # "closing" /\ rq'[r].nc = rq[r].nc
    \/ Over(r) /\ rq'[r] = Fresh /\ rq[r].retries > MaxRetries
    \/ /\ Typed' /\ rq[r].nc = "closing" /\ rq'[r] = Fresh
       /\ cc' = cc /\ \A j \in Req \ {r} : rq'[j] = rq[j]

\* The pollable bit of a request changes.
LEMMA Repolled ==
  ASSUME NEW p \in Request, NEW b \in BOOLEAN
  PROVE  /\ [p EXCEPT !.nopoll = b] \in Request /\ Kept(p, [p EXCEPT !.nopoll = b])
         /\ [p EXCEPT !.nopoll = b].retries = p.retries /\ [p EXCEPT !.nopoll = b].age = p.age
         /\ [p EXCEPT !.nopoll = b].nopoll = b /\ [p EXCEPT !.nopoll = b].nc = p.nc
  BY Zenon DEF Request, Kept

\* A free block is a request.
LEMMA FreshTyped == Fresh \in Request
  <1>1. Timeout + 1 \in 0 .. (Timeout + 1) /\ 0 \in 0 .. (MaxRetries + 1) /\ 0 \in 0 .. Elapsed
    BY ResolverAssumption DEF Elapsed
  <1>2. <<>> \in Seq(Reply)
    OBVIOUS
  <1> QED BY Zenon, <1>1, <1>2 DEF Fresh, Request

\* What a lookup that has not ended is for waits, and has sent no query.
LEMMA ClientWaits ==
  ASSUME Shape, Visits, Pairs, NEW r \in Req, rq[r].nc \in {"connecting", "open"}
  PROVE  /\ now \in States /\ now.rq = rq /\ now.cc = cc
         /\ rq[r].client # r /\ rq[r].mem = "held"
         /\ rq[r].client \in Req => rq[rq[r].client].nc = "named" /\ rq[rq[r].client].retries <= MaxRetries
  <1>1. now \in States /\ now.rq = rq /\ now.cc = cc
    BY DEF now, States, Shape
  <1>2. rq[r].mem = "held"
    BY Zenon DEF Visits, Visit
  <1>3. rq[r].client \in Req => rq[rq[r].client].nc = "named"
    BY Zenon, <1>2, ResolverAssumption DEF Pairs, For, Waiting
  <1>4. rq[r].client \in Req => rq[rq[r].client].retries = 0 /\ rq[rq[r].client].client = App
    BY Zenon, <1>3 DEF Pairs
  <1>5. rq[r].client # r
    BY Zenon, <1>3, <1>4, ResolverAssumption
  <1> QED BY <1>1, <1>2, <1>3, <1>4, <1>5, ResolverAssumption

\* A state with the pollable bit of r set to b.
repoll(s, r, b) == [s EXCEPT !.rq[r].nopoll = b]

\* Nothing else changes.
LEMMA BitChanged ==
  ASSUME NEW s \in States, NEW r \in Req, NEW b \in BOOLEAN
  PROVE  LET t == repoll(s, r, b) IN
         /\ t \in States /\ t.cc = s.cc /\ \A j \in Req \ {r} : t.rq[j] = s.rq[j]
         /\ Kept(s.rq[r], t.rq[r]) /\ t.rq[r].retries = s.rq[r].retries /\ t.rq[r].age = s.rq[r].age
         /\ t.rq[r].nopoll = b /\ t.rq[r].nc = s.rq[r].nc
  <1> DEFINE x == [s.rq[r] EXCEPT !.nopoll = b]
             t == repoll(s, r, b)
  <1>1. s.rq[r] \in Request
    BY DEF States
  <1>2. /\ x \in Request /\ Kept(s.rq[r], x) /\ x.retries = s.rq[r].retries
        /\ x.age = s.rq[r].age /\ x.nopoll = b /\ x.nc = s.rq[r].nc
    BY Zenon, <1>1, Repolled
  <1>3. t = [s EXCEPT !.rq[r] = x]
    BY DEF States, repoll
  <1> HIDE DEF x, t
  <1>4. t \in States /\ t.cc = s.cc
    BY <1>2, <1>3 DEF States
  <1>5. t.rq[r] = x /\ \A j \in Req \ {r} : t.rq[j] = s.rq[j]
    BY <1>2, <1>3 DEF States
  <1> QED BY Zenon, <1>2, <1>4, <1>5 DEF t

\* The lookup goes on, when the bit is changed as well.
LEMMA RunsOn ==
  ASSUME NEW r \in Req, NEW fd, NEW s, NEW b \in BOOLEAN, now.rq = rq, now.cc = cc, Stays(now, s, r, fd),
         rq' = repoll(s, r, b).rq, cc' = repoll(s, r, b).cc
  PROVE  /\ Runs(r) /\ rq'[r].nopoll = b
         /\ rq'[r].nc = IF rq[r].nc = "connecting" /\ fd THEN "open" ELSE rq[r].nc
  <1> DEFINE t == repoll(s, r, b)
  <1>1. rq' = t.rq /\ cc' = t.cc
    OBVIOUS
  <1>2. s \in States
    BY Zenon DEF Stays
  <1>3. /\ t \in States /\ t.cc = s.cc /\ \A j \in Req \ {r} : t.rq[j] = s.rq[j]
        /\ Kept(s.rq[r], t.rq[r]) /\ t.rq[r].retries = s.rq[r].retries /\ t.rq[r].age = s.rq[r].age
        /\ t.rq[r].nopoll = b /\ t.rq[r].nc = s.rq[r].nc
    BY Zenon, <1>2, BitChanged
  <1> HIDE DEF t
  <1>4. Typed'
    <2>1. t.rq \in [Req -> Request] /\ t.cc \in [Client -> {"none", "resolving", "connecting"}]
      BY <1>3 DEF States
    <2> QED BY Zenon, <1>1, <2>1 DEF Typed
  <1>5. cc' = cc /\ \A j \in Req \ {r} : rq'[j] = rq[j]
    BY Zenon, <1>1, <1>3 DEF Stays
  <1>6. Kept(rq[r], rq'[r]) /\ Asked(rq[r], rq'[r])
    BY Zenon, <1>1, <1>3 DEF Stays, Kept, Asked
  <1> QED BY Zenon, <1>1, <1>3, <1>4, <1>5, <1>6 DEF Runs, Stays

\* The lookup is over, when its own request is changed as well.
LEMMA OverThen ==
  ASSUME Shape, Visits, Pairs, NEW r \in Req, rq[r].nc \in {"connecting", "open"}, NEW s, Ends(now, s, r),
         NEW t \in States, t.cc = s.cc, \A j \in Req \ {r} : t.rq[j] = s.rq[j],
         rq' = t.rq, cc' = t.cc
  PROVE  Over(r)
  <1> DEFINE k == rq[r].client
  <1>1. now.rq = rq /\ now.cc = cc /\ k # r /\ (k \in Req => rq[k].nc = "named")
    BY Zenon, ClientWaits
  <1>2. now.rq[r].client = k
    BY <1>1
  <1> HIDE DEF k
  <1>3. Typed'
    BY DEF Typed, States
  <1>4. /\ \A j \in Req \ {r} : j # k => rq'[j] = rq[j]
        /\ \A c \in Client : c # k => cc'[c] = cc[c]
    BY Zenon, <1>1, <1>2 DEF Ends, Aside
  <1>5. k \in Client => cc'[k] \in {"connecting", "none"}
    BY Zenon, <1>2 DEF Ends, Told
  <1>6. k \in Req => /\ Kept(rq[k], rq'[k]) /\ Asked(rq[k], rq'[k])
                     /\ rq'[k].nopoll = rq[k].nopoll /\ rq'[k].nc \in {"gone", "connecting"}
    BY Zenon, <1>1, <1>2 DEF Ends, Told
  <1> QED BY Zenon, <1>1, <1>3, <1>4, <1>5, <1>6 DEF Over, k

\* handle() is such a step.
LEMMA HandleStep ==
  ASSUME Shape, Visits, Pairs, NEW r \in Req, handle(r)
  PROVE  Handles(r)
  <1>1. phase = "events" /\ r \in todo /\ epoll \in BOOLEAN /\ rq[r] \in Request
    BY DEF handle, Shape
  <1>2. rq[r].nc \in {"connecting", "open"} /\ rq[r].nopoll = FALSE
        /\ (r \in ready => rq[r].nc = "connecting" \/ rq[r].inq # <<>>)
    <2>1. rq[r].nopoll \in BOOLEAN
      BY Zenon, <1>1 DEF Request
    <2> QED BY Zenon, <1>1, <2>1 DEF Visits, Visit
  <1>3. /\ now \in States /\ now.rq = rq /\ now.cc = cc
        /\ rq[r].client # r
        /\ rq[r].client \in Req => rq[rq[r].client].retries <= MaxRetries
    BY Zenon, <1>2, ClientWaits
  <1>4. PICK s \in handle_connection(now, r, r \in ready) :
                becomes(IF epoll THEN [s EXCEPT !.rq[r].nopoll = ~@] ELSE s)
    BY Zenon DEF handle
  <1> DEFINE fd == r \in ready
  <1>5. /\ now.rq[r].client # r
        /\ now.rq[r].client \in Req => now.rq[now.rq[r].client].retries <= MaxRetries
        /\ fd => now.rq[r].nc = "connecting" \/ now.rq[r].inq # <<>>
    BY <1>2, <1>3
  <1>6. fd \in BOOLEAN /\ s \in handle_connection(now, r, fd)
    BY <1>4
  <1> HIDE DEF fd
  <1>7. \/ (fd \/ now.rq[r].retries > MaxRetries) /\ Ends(now, s, r)
        \/ Stays(now, s, r, fd)
    BY Zenon, <1>3, <1>5, <1>6, HandleEffect
  <1>8. s \in States /\ s.rq[r].nopoll = FALSE
    BY Zenon, <1>2, <1>3, <1>7 DEF Ends, Stays
  <1>9. rq' = repoll(s, r, epoll).rq /\ cc' = repoll(s, r, epoll).cc
    <2>1. CASE epoll
      BY Zenon, <1>1, <1>4, <1>8, <2>1 DEF becomes, repoll, States
    <2>2. CASE ~epoll
      <3>1. rq' = s.rq /\ cc' = s.cc
        BY <1>4, <2>2 DEF becomes
      <3>2. s.rq[r] \in Request
        BY <1>8 DEF States
      <3>3. [s.rq[r] EXCEPT !.nopoll = FALSE] = s.rq[r]
        BY Zenon, <1>8, <3>2 DEF Request
      <3>4. repoll(s, r, FALSE) = [s EXCEPT !.rq[r] = s.rq[r]]
        BY Zenon, <3>3, <1>8 DEF repoll, States
      <3>5. repoll(s, r, FALSE).rq = s.rq /\ repoll(s, r, FALSE).cc = s.cc
        BY Zenon, <3>4, <1>8 DEF States
      <3> QED BY Zenon, <1>1, <2>2, <3>1, <3>5
    <2> QED BY <2>1, <2>2
  <1>10. CASE Stays(now, s, r, fd)
    <2>1. /\ Runs(r) /\ rq'[r].nopoll = epoll
          /\ rq'[r].nc = IF rq[r].nc = "connecting" /\ fd THEN "open" ELSE rq[r].nc
      BY Zenon, <1>1, <1>3, <1>9, <1>10, RunsOn
    <2> QED BY Zenon, <2>1 DEF Handles, fd
  <1>11. CASE (fd \/ now.rq[r].retries > MaxRetries) /\ Ends(now, s, r)
    <2> DEFINE t == repoll(s, r, epoll)
    <2>1. /\ t \in States /\ t.cc = s.cc /\ \A j \in Req \ {r} : t.rq[j] = s.rq[j]
          /\ Kept(s.rq[r], t.rq[r]) /\ t.rq[r].retries = s.rq[r].retries /\ t.rq[r].age = s.rq[r].age
          /\ t.rq[r].nopoll = epoll /\ t.rq[r].nc = s.rq[r].nc
      BY Zenon, <1>1, <1>8, BitChanged
    <2>2. rq' = t.rq /\ cc' = t.cc
      BY <1>9
    <2> HIDE DEF t
    <2>3. Over(r)
      BY Zenon, <1>2, <1>11, <2>1, <2>2, OverThen
    <2>4. rq'[r].nopoll = epoll /\ rq'[r].mem = "freed" /\ rq'[r].nc = "closing"
      BY Zenon, <1>11, <2>1, <2>2 DEF Ends, Kept
    <2> QED BY Zenon, <1>3, <1>11, <2>3, <2>4 DEF Handles, fd
  <1> QED BY Zenon, <1>7, <1>10, <1>11

\* sweep() is such a step.
LEMMA SweepStep ==
  ASSUME Shape, Visits, Pairs, NEW r \in Req, sweep(r)
  PROVE  Sweeps(r)
  <1>1. r \in todo /\ epoll \in BOOLEAN /\ rq[r] \in Request /\ FALSE \in BOOLEAN
    BY DEF sweep, Shape
  <1>2. rq[r].nc \in {"connecting", "open", "closing"} /\ (epoll /\ ~rq[r].nopoll => rq[r].nc # "closing")
    BY Zenon, <1>1 DEF Visits, Visit
  <1>3. now \in States /\ now.rq = rq /\ now.cc = cc
    BY DEF now, States, Shape
  <1>4. PICK s \in IF epoll /\ ~rq[r].nopoll THEN handle_connection(now, r, FALSE) ELSE {now} :
                becomes(closed(repoll(s, r, FALSE), r))
    BY Zenon DEF sweep, repoll
  <1> DEFINE t == repoll(s, r, FALSE)
  <1>5. ASSUME s \in States
        PROVE  /\ t \in States /\ t.cc = s.cc /\ \A j \in Req \ {r} : t.rq[j] = s.rq[j]
               /\ Kept(s.rq[r], t.rq[r]) /\ t.rq[r].retries = s.rq[r].retries /\ t.rq[r].age = s.rq[r].age
               /\ t.rq[r].nopoll = FALSE /\ t.rq[r].nc = s.rq[r].nc
    BY Zenon, <1>1, <1>5, BitChanged
  <1>6. becomes(IF t.rq[r].nc = "closing" THEN [t EXCEPT !.rq[r] = Fresh] ELSE t)
    BY Zenon, <1>4 DEF closed
  <1>7. ASSUME t \in States, t.rq[r].nc = "closing"
        PROVE  /\ [rq |-> rq', cc |-> cc'] \in States /\ cc' = t.cc /\ rq'[r] = Fresh
               /\ \A j \in Req \ {r} : rq'[j] = t.rq[j]
    <2> HIDE DEF t
    <2> DEFINE u == [t EXCEPT !.rq[r] = Fresh]
    <2>1. rq' = u.rq /\ cc' = u.cc
      BY Zenon, <1>6, <1>7 DEF becomes
    <2>2. u \in States /\ u.cc = t.cc /\ u.rq[r] = Fresh /\ \A j \in Req \ {r} : u.rq[j] = t.rq[j]
      BY <1>7, FreshTyped, Replaced
    <2>3. u = [rq |-> u.rq, cc |-> u.cc]
      BY <2>2 DEF States
    <2> QED BY Zenon, <2>1, <2>2, <2>3
  <1>8. t.rq[r].nc # "closing" => rq' = t.rq /\ cc' = t.cc
    BY Zenon, <1>6 DEF becomes
  <1>9. ASSUME Stays(now, s, r, FALSE), rq[r].nc # "closing"
        PROVE  Sweeps(r)
    <2>1. s \in States /\ s.rq[r].nc = rq[r].nc
      BY Zenon, <1>3, <1>9 DEF Stays
    <2>2. rq' = t.rq /\ cc' = t.cc
      BY Zenon, <1>5, <1>8, <1>9, <2>1
    <2>3. Runs(r) /\ rq'[r].nopoll = FALSE /\ rq'[r].nc = IF rq[r].nc = "connecting" /\ FALSE THEN "open" ELSE rq[r].nc
      BY Zenon, <1>1, <1>3, <1>9, <2>2, RunsOn
    <2> QED BY Zenon, <1>9, <2>3 DEF Sweeps
  <1>10. CASE epoll /\ ~rq[r].nopoll
    <2>1. s \in handle_connection(now, r, FALSE) /\ rq[r].nc \in {"connecting", "open"}
      BY Zenon, <1>2, <1>4, <1>10
    <2>2. rq[r].client # r /\ (rq[r].client \in Req => rq[rq[r].client].retries <= MaxRetries)
      BY Zenon, <2>1, ClientWaits
    <2>3. /\ now.rq[r].client # r
          /\ now.rq[r].client \in Req => now.rq[now.rq[r].client].retries <= MaxRetries
      BY <1>3, <2>2
    <2>4. (now.rq[r].retries > MaxRetries /\ Ends(now, s, r)) \/ Stays(now, s, r, FALSE)
      BY Zenon, <1>1, <1>3, <2>1, <2>3, HandleEffect
    <2>5. ASSUME now.rq[r].retries > MaxRetries, Ends(now, s, r)
          PROVE  Sweeps(r)
      <3>1. s \in States /\ s.rq[r].nc = "closing"
        BY Zenon, <2>5 DEF Ends
      <3>2. t \in States /\ t.cc = s.cc /\ (\A j \in Req \ {r} : t.rq[j] = s.rq[j]) /\ t.rq[r].nc = "closing"
        BY Zenon, <1>5, <3>1
      <3> DEFINE u == [rq |-> rq', cc |-> cc']
      <3>3. /\ u \in States /\ cc' = t.cc /\ rq'[r] = Fresh
            /\ \A j \in Req \ {r} : rq'[j] = t.rq[j]
        BY Zenon, <1>7, <3>2
      <3>4. u.rq = rq' /\ u.cc = cc'
        OBVIOUS
      <3> HIDE DEF u, t
      <3>5. u.cc = s.cc /\ \A j \in Req \ {r} : u.rq[j] = s.rq[j]
        BY Zenon, <3>2, <3>3, <3>4
      <3>6. Over(r)
        BY Zenon, <2>1, <2>5, <3>3, <3>4, <3>5, OverThen
      <3> QED BY Zenon, <1>3, <2>5, <3>3, <3>6 DEF Sweeps
    <2> QED BY Zenon, <1>9, <2>1, <2>4, <2>5
  <1>11. CASE ~(epoll /\ ~rq[r].nopoll)
    <2>1. s = now
      BY Zenon, <1>4, <1>11
    <2>2. CASE rq[r].nc # "closing"
      <3>1. Stays(now, s, r, FALSE)
        BY Zenon, <1>3, <2>1 DEF Stays, Kept, Asked
      <3> QED BY Zenon, <1>9, <2>2, <3>1
    <2>3. CASE rq[r].nc = "closing"
      <3>1. s \in States /\ s.rq[r].nc = "closing" /\ s.rq = rq /\ s.cc = cc
        BY Zenon, <1>3, <2>1, <2>3
      <3>2. t \in States /\ t.cc = cc /\ (\A j \in Req \ {r} : t.rq[j] = rq[j]) /\ t.rq[r].nc = "closing"
        BY Zenon, <1>5, <3>1
      <3>3. /\ [rq |-> rq', cc |-> cc'] \in States /\ cc' = t.cc /\ rq'[r] = Fresh
            /\ \A j \in Req \ {r} : rq'[j] = t.rq[j]
        BY Zenon, <1>7, <3>2
      <3>4. Typed'
        BY Zenon, <3>3 DEF Typed, States
      <3> HIDE DEF t
      <3>5. cc' = cc /\ \A j \in Req \ {r} : rq'[j] = rq[j]
        BY Zenon, <3>2, <3>3
      <3> QED BY Zenon, <2>3, <3>3, <3>4, <3>5 DEF Sweeps
    <2> QED BY <2>2, <2>3
  <1> QED BY <1>10, <1>11

-----------------------------------------------------------------------------
(* The other steps.                                                         *)

\* Time and the network leave a lookup where it is.
Same(j) ==
    /\ rq'[j].mem = rq[j].mem /\ rq'[j].nc = rq[j].nc /\ rq'[j].client = rq[j].client
    /\ rq'[j].retries = rq[j].retries /\ rq'[j].nopoll = rq[j].nopoll
    /\ rq[j].inq # <<>> => rq'[j].inq # <<>>

\* A lookup is a second older.
Aged(p, q) ==
    /\ q.age = IF p.age > Timeout THEN p.age ELSE p.age + 1
    /\ q.life = IF p.life = Elapsed THEN p.life ELSE p.life + 1

\* A new lookup.
LEMMA LookupTyped ==
  ASSUME NEW k \in {App} \cup Client \cup Req
  PROVE  /\ lookup(k) \in Request
         /\ lookup(k).mem = "held" /\ lookup(k).nc = "connecting" /\ lookup(k).client = k
         /\ lookup(k).retries = 0 /\ lookup(k).nopoll = FALSE
  <1>1. Fresh \in Request /\ Fresh.retries = 0 /\ Fresh.nopoll = FALSE
    BY Zenon, FreshTyped DEF Fresh
  <1> HIDE DEF Fresh
  <1>2. lookup(k) \in Request
    BY Zenon, <1>1 DEF lookup, Request
  <1>3. lookup(k).mem = "held" /\ lookup(k).nc = "connecting" /\ lookup(k).client = k
    BY Zenon, <1>1 DEF lookup, Request
  <1>4. lookup(k).retries = Fresh.retries /\ lookup(k).nopoll = Fresh.nopoll
    BY Zenon, <1>1 DEF lookup, Request
  <1> QED BY Zenon, <1>1, <1>2, <1>3, <1>4

\* The same with a nameserver given by name.
LEMMA NamedTyped ==
  /\ [lookup(App) EXCEPT !.nc = "named"] \in Request
  /\ [lookup(App) EXCEPT !.nc = "named"].mem = "held"
  /\ [lookup(App) EXCEPT !.nc = "named"].nc = "named"
  /\ [lookup(App) EXCEPT !.nc = "named"].client = App
  /\ [lookup(App) EXCEPT !.nc = "named"].retries = 0
  /\ [lookup(App) EXCEPT !.nc = "named"].nopoll = FALSE
  <1>1. /\ lookup(App) \in Request
        /\ lookup(App).mem = "held" /\ lookup(App).nc = "connecting" /\ lookup(App).client = App
        /\ lookup(App).retries = 0 /\ lookup(App).nopoll = FALSE
    BY Zenon, LookupTyped
  <1> QED BY Zenon, <1>1 DEF Request

\* A second passes.
LEMMA TickEffect ==
  ASSUME Shape, tick
  PROVE  /\ Typed' /\ cc' = cc
         /\ \A j \in Req : Same(j) /\ (rq[j].mem = "held" => Aged(rq[j], rq'[j]))
  <1>1. ASSUME NEW p \in Request, p.mem = "held"
        PROVE  /\ older(p) \in Request /\ Aged(p, older(p)) /\ older(p).inq = p.inq
               /\ older(p).mem = p.mem /\ older(p).nc = p.nc /\ older(p).client = p.client
               /\ older(p).retries = p.retries /\ older(p).nopoll = p.nopoll
    <2> DEFINE a == IF p.age > Timeout THEN p.age ELSE p.age + 1
               l == IF p.life = Elapsed THEN p.life ELSE p.life + 1
    <2>1. older(p) = [p EXCEPT !.age = a, !.life = l]
      BY <1>1 DEF older
    <2>2. p.age \in 0 .. (Timeout + 1) /\ p.life \in 0 .. Elapsed
      BY Zenon, <1>1 DEF Request
    <2>3. a \in 0 .. (Timeout + 1)
      BY <2>2, ResolverAssumption
    <2>4. Elapsed \in Nat
      BY ResolverAssumption DEF Elapsed
    <2>5. l \in 0 .. Elapsed
      BY <2>2, <2>4
    <2> HIDE DEF a, l
    <2>6. older(p) \in Request /\ older(p).age = a /\ older(p).life = l
      BY Zenon, <1>1, <2>1, <2>3, <2>5 DEF Request
    <2>7. /\ older(p).mem = p.mem /\ older(p).nc = p.nc /\ older(p).client = p.client
          /\ older(p).retries = p.retries /\ older(p).nopoll = p.nopoll /\ older(p).inq = p.inq
      BY Zenon, <1>1, <2>1 DEF Request
    <2> QED BY Zenon, <2>6, <2>7 DEF Aged, a, l
  <1>2. \A j \in Req : rq[j] \in Request /\ rq'[j] = older(rq[j])
    BY DEF Shape, tick
  <1>3. \A j \in Req : rq[j].mem # "held" => rq'[j] = rq[j]
    BY Zenon, <1>2 DEF older
  <1>4. ASSUME NEW j \in Req
        PROVE  rq'[j] \in Request /\ Same(j) /\ (rq[j].mem = "held" => Aged(rq[j], rq'[j]))
    <2>1. CASE rq[j].mem = "held"
      BY Zenon, <1>1, <1>2, <2>1 DEF Same
    <2>2. CASE rq[j].mem # "held"
      BY Zenon, <1>2, <1>3, <2>2 DEF Same
    <2> QED BY <2>1, <2>2
  <1>5. rq' = [j \in Req |-> rq'[j]]
    BY DEF tick
  <1>6. rq' \in [Req -> Request]
    BY <1>4, <1>5
  <1> QED BY Zenon, <1>4, <1>6 DEF Typed, Shape, tick

\* A reply arrives.
LEMMA ReplyEffect ==
  ASSUME Shape, NEW r \in Req, NEW d \in Reply, reply_arrives(r, d)
  PROVE  /\ Typed' /\ cc' = cc
         /\ \A j \in Req : Same(j) /\ rq'[j].age = rq[j].age /\ rq'[j].life = rq[j].life
  <1> DEFINE x == [rq[r] EXCEPT !.inq = Append(rq[r].inq, d)]
  <1>1. rq[r] \in Request /\ rq \in [Req -> Request]
    BY DEF Shape
  <1>2. rq[r].inq \in Seq(Reply)
    BY Zenon, <1>1 DEF Request
  <1>3. Append(rq[r].inq, d) \in Seq(Reply) /\ Append(rq[r].inq, d) # <<>>
    BY <1>2
  <1>4. /\ x \in Request /\ x.inq # <<>> /\ x.age = rq[r].age /\ x.life = rq[r].life
        /\ x.mem = rq[r].mem /\ x.nc = rq[r].nc /\ x.client = rq[r].client
        /\ x.retries = rq[r].retries /\ x.nopoll = rq[r].nopoll
    BY Zenon, <1>1, <1>3 DEF Request
  <1>5. rq' = [rq EXCEPT ![r] = x]
    BY Zenon DEF reply_arrives
  <1> HIDE DEF x
  <1>6. rq' \in [Req -> Request] /\ rq'[r] = x /\ \A j \in Req \ {r} : rq'[j] = rq[j]
    BY <1>1, <1>4, <1>5
  <1>7. cc' = cc /\ Typed'
    BY Zenon, <1>6 DEF reply_arrives, Typed, Shape
  <1>8. ASSUME NEW j \in Req
        PROVE  Same(j) /\ rq'[j].age = rq[j].age /\ rq'[j].life = rq[j].life
    BY Zenon, <1>4, <1>6 DEF Same
  <1> QED BY Zenon, <1>7, <1>8

\* A lookup for k has started in block r.
Begun(r, k) ==
    /\ Typed' /\ rq'[r].mem = "held" /\ rq'[r].nc = "connecting" /\ rq'[r].client = k
    /\ rq'[r].retries = 0 /\ rq'[r].nopoll = FALSE
    /\ \A j \in Req \ {r} : rq'[j] = rq[j]

\* A lookup has started in block r, and in block i that of its nameserver.
Chained(r, i) ==
    /\ Typed' /\ rq'[i].mem = "held" /\ rq'[i].nc = "connecting" /\ rq'[i].client = r
    /\ rq'[r].mem = "held" /\ rq'[r].nc = "named" /\ rq'[r].client = App
    /\ rq'[r].retries = 0 /\ rq'[i].retries = 0 /\ rq'[r].nopoll = FALSE /\ rq'[i].nopoll = FALSE
    /\ \A j \in Req \ {r, i} : rq'[j] = rq[j]

\* A lookup starts in block r, for the application or for a connection.
LEMMA StartEffect ==
  ASSUME Shape, NEW r \in Req, NEW k \in {App} \cup Client, rq' = [rq EXCEPT ![r] = lookup(k)],
         cc' \in [Client -> {"none", "resolving", "connecting"}]
  PROVE  Begun(r, k)
  <1>1. /\ lookup(k) \in Request /\ lookup(k).mem = "held" /\ lookup(k).nc = "connecting"
        /\ lookup(k).client = k /\ lookup(k).retries = 0 /\ lookup(k).nopoll = FALSE
    BY Zenon, LookupTyped
  <1>2. rq' \in [Req -> Request] /\ rq'[r] = lookup(k) /\ \A j \in Req \ {r} : rq'[j] = rq[j]
    BY <1>1 DEF Shape
  <1> QED BY Zenon, <1>1, <1>2 DEF Begun, Typed

\* A lookup starts in block r, and in block i the lookup of its nameserver.
LEMMA NamedEffect ==
  ASSUME Shape, NEW r \in Req, NEW i \in Req, ns_resolve_async_opt(r, i)
  PROVE  Chained(r, i)
  <1> DEFINE x == [lookup(App) EXCEPT !.nc = "named"]
             y == lookup(r)
  <1>1. /\ x \in Request /\ x.mem = "held" /\ x.nc = "named" /\ x.client = App
        /\ x.retries = 0 /\ x.nopoll = FALSE
    BY Zenon, NamedTyped
  <1>2. /\ y \in Request /\ y.mem = "held" /\ y.nc = "connecting" /\ y.client = r
        /\ y.retries = 0 /\ y.nopoll = FALSE
    BY Zenon, LookupTyped
  <1>3. rq' = [rq EXCEPT ![r] = x, ![i] = y] /\ r # i /\ cc' = cc
    BY Zenon DEF ns_resolve_async_opt
  <1> HIDE DEF x, y
  <1>4. /\ rq' \in [Req -> Request] /\ rq'[r] = x /\ rq'[i] = y
        /\ \A j \in Req \ {r, i} : rq'[j] = rq[j]
    BY <1>1, <1>2, <1>3 DEF Shape
  <1> QED BY Zenon, <1>1, <1>2, <1>3, <1>4 DEF Chained, Typed, Shape

\* The end of a poll; ns_mgr_free() closes what is listed.
LEMMA DoneEffect ==
  ASSUME Shape, sweep_done
  PROVE  /\ Typed' /\ cc' = cc
         /\ \A j \in Req : /\ Kept(rq[j], rq'[j]) /\ rq'[j].nopoll = rq[j].nopoll
                           /\ rq'[j].retries = rq[j].retries /\ rq'[j].age = rq[j].age
         /\ ~last => rq' = rq
         /\ last => \A j \in Req : rq'[j].nc = IF rq[j].nc \in {"connecting", "open", "closing"}
                                               THEN "gone" ELSE rq[j].nc
  <1>1. CASE ~last
    <2>1. rq' = rq /\ cc' = cc
      BY Zenon, <1>1 DEF sweep_done
    <2> QED BY Zenon, <1>1, <2>1 DEF Typed, Shape, Kept
  <1>2. CASE last
    <2>1. /\ cc' = cc
          /\ rq' = [j \in Req |-> IF j \in Listed THEN [rq[j] EXCEPT !.nc = "gone"] ELSE rq[j]]
      BY Zenon, <1>2 DEF sweep_done
    <2>2. ASSUME NEW j \in Req
          PROVE  /\ rq'[j] \in Request /\ Kept(rq[j], rq'[j]) /\ rq'[j].nopoll = rq[j].nopoll
                 /\ rq'[j].retries = rq[j].retries /\ rq'[j].age = rq[j].age
                 /\ rq'[j].nc = IF rq[j].nc \in {"connecting", "open", "closing"} THEN "gone" ELSE rq[j].nc
      <3>1. rq[j] \in Request
        BY DEF Shape
      <3>2. rq'[j] = IF rq[j].nc \in {"connecting", "open", "closing"}
                     THEN [rq[j] EXCEPT !.nc = "gone"] ELSE rq[j]
        BY Zenon, <2>1 DEF Listed
      <3>3. CASE rq[j].nc \in {"connecting", "open", "closing"}
        <4> DEFINE x == [rq[j] EXCEPT !.nc = "gone"]
        <4>1. /\ x \in Request /\ Kept(rq[j], x) /\ x.retries = rq[j].retries
              /\ x.age = rq[j].age /\ x.nopoll = rq[j].nopoll /\ x.nc = "gone"
          BY Zenon, <3>1, Renamed
        <4>2. rq'[j] = x
          BY Zenon, <3>2, <3>3
        <4> HIDE DEF x
        <4> QED BY Zenon, <3>3, <4>1, <4>2
      <3>4. CASE rq[j].nc \notin {"connecting", "open", "closing"}
        BY Zenon, <3>1, <3>2, <3>4 DEF Kept
      <3> QED BY <3>3, <3>4
    <2>3. rq' = [j \in Req |-> rq'[j]]
      BY <2>1
    <2>4. rq' \in [Req -> Request]
      BY <2>2, <2>3
    <2> QED BY Zenon, <1>2, <2>1, <2>2, <2>4 DEF Typed, Shape
  <1> QED BY <1>1, <1>2

\* A free block.
LEMMA FreshFields ==
  Fresh.mem = "none" /\ Fresh.nc = "none" /\ Fresh.client = App /\ Fresh.nopoll = FALSE
  BY Zenon DEF Fresh

-----------------------------------------------------------------------------
(* Visits is inductive.                                                     *)

\* The loop over the events.
LEMMA VisitsHandle ==
  ASSUME Inv, NEW r \in Req, handle(r)
  PROVE  Visits'
  <1>1. phase = "events" /\ r \in todo /\ phase' = phase /\ todo' = todo \ {r} /\ ready' = ready /\ epoll' = epoll
    BY Zenon DEF handle
  <1>2. Handles(r)
    BY Zenon, HandleStep DEF Inv
  <1>3. \A j \in Req : Visit(j)
    BY Zenon DEF Inv, Visits
  <1>4. rq[r].nc \in {"connecting", "open"} /\ rq[r].mem = "held" /\ (epoll => r \in ready)
    BY Zenon, <1>1, <1>3 DEF Visit
  <1>5. ASSUME NEW j \in Req
        PROVE  Visit(j)'
    <2>1. CASE j # r /\ rq'[j] = rq[j]
      <3>1. Visit(j) /\ (j \in todo <=> j \in todo')
        BY Zenon, <1>1, <1>3, <2>1
      <3> QED BY Zenon, <1>1, <2>1, <3>1 DEF Visit
    <2>2. CASE j = r
      <3>1. j \notin todo'
        BY Zenon, <1>1, <2>2
      <3>2. /\ rq'[r].nopoll = epoll
            /\ \/ rq'[r].mem = "held" /\ rq'[r].nc \in {"connecting", "open"} /\ (r \in ready => rq'[r].nc = "open")
               \/ rq'[r].mem = "freed" /\ rq'[r].nc = "closing"
        BY Zenon, <1>2, <1>4 DEF Handles, Runs, Kept
      <3> QED BY Zenon, <1>1, <1>4, <2>2, <3>1, <3>2 DEF Visit
    <2>3. CASE j # r /\ rq'[j] # rq[j]
      <3>1. /\ rq[j].nc = "named" /\ rq'[j].nc \in {"gone", "connecting"}
            /\ rq'[j].nopoll = rq[j].nopoll /\ rq'[j].mem = rq[j].mem
        BY Zenon, <1>2, <2>3 DEF Handles, Runs, Over, Kept
      <3>2. ~rq[j].nopoll /\ rq[j].mem = "held" /\ j \notin todo
        BY Zenon, <1>3, <3>1 DEF Visit
      <3> QED BY Zenon, <1>1, <3>1, <3>2 DEF Visit
    <2> QED BY <2>1, <2>2, <2>3
  <1> QED BY Zenon, <1>1, <1>5 DEF Visits

\* The last loop of ns_mgr_poll().
LEMMA VisitsSweep ==
  ASSUME Inv, NEW r \in Req, sweep(r)
  PROVE  Visits'
  <1>1. phase = "sweep" /\ r \in todo /\ phase' = phase /\ todo' = todo \ {r} /\ ready' = ready /\ epoll' = epoll
    BY Zenon DEF sweep
  <1>2. Sweeps(r)
    BY Zenon, SweepStep DEF Inv
  <1>3. \A j \in Req : Visit(j)
    BY Zenon DEF Inv, Visits
  <1>4. rq[r].nc \in {"connecting", "open", "closing"}
    BY Zenon, <1>1, <1>3 DEF Visit
  <1>5. ASSUME NEW j \in Req
        PROVE  Visit(j)'
    <2>1. CASE j # r /\ rq'[j] = rq[j]
      <3>1. Visit(j) /\ (j \in todo <=> j \in todo')
        BY Zenon, <1>1, <1>3, <2>1
      <3> QED BY Zenon, <1>1, <2>1, <3>1 DEF Visit
    <2>2. CASE j = r
      <3>1. j \notin todo'
        BY Zenon, <1>1, <2>2
      <3>2. /\ rq'[r].nopoll = FALSE
            /\ \/ rq'[r].mem = rq[r].mem /\ rq'[r].nc \in {"connecting", "open"} /\ rq[r].nc = rq'[r].nc
               \/ rq'[r].nc = "none"
        BY Zenon, <1>2, <1>4, FreshFields DEF Sweeps, Runs, Kept
      <3>3. rq[r].nc \in {"connecting", "open"} => rq[r].mem = "held"
        BY Zenon, <1>3 DEF Visit
      <3> QED BY Zenon, <1>1, <2>2, <3>1, <3>2, <3>3 DEF Visit
    <2>3. CASE j # r /\ rq'[j] # rq[j]
      <3>1. /\ rq[j].nc = "named" /\ rq'[j].nc \in {"gone", "connecting"}
            /\ rq'[j].nopoll = rq[j].nopoll /\ rq'[j].mem = rq[j].mem
        BY Zenon, <1>2, <2>3 DEF Sweeps, Runs, Over, Kept
      <3>2. ~rq[j].nopoll /\ rq[j].mem = "held" /\ j \notin todo
        BY Zenon, <1>3, <3>1 DEF Visit
      <3> QED BY Zenon, <1>1, <3>1, <3>2 DEF Visit
    <2> QED BY <2>1, <2>2, <2>3
  <1> QED BY Zenon, <1>1, <1>5 DEF Visits

\* The steps between the loops.
LEMMA VisitsLoop ==
  ASSUME Inv, poll(TRUE) \/ poll(FALSE) \/ events_done \/ sweep_done
  PROVE  Visits'
  <1>1. \A j \in Req : Visit(j)
    BY Zenon DEF Inv, Visits
  <1>2. CASE poll(TRUE) \/ poll(FALSE)
    <2>1. /\ phase = "idle" /\ phase' = "events" /\ rq' = rq /\ epoll' = epoll
          /\ ready' = {r \in Req : rq[r].nc = "connecting" \/ (rq[r].nc = "open" /\ rq[r].inq # <<>>)}
          /\ todo' = IF epoll THEN ready' ELSE Listed
      BY Zenon, <1>2 DEF poll
    <2>2. ASSUME NEW j \in Req
          PROVE  Visit(j)'
      <3>1. ~rq[j].nopoll /\ rq[j].nc # "closing"
        BY Zenon, <1>1, <2>1 DEF Visit
      <3>2. j \in ready' <=> rq[j].nc = "connecting" \/ (rq[j].nc = "open" /\ rq[j].inq # <<>>)
        BY Zenon, <2>1
      <3>3. /\ j \in todo' => rq[j].nc \in {"connecting", "open"}
            /\ epoll => (j \in todo' <=> j \in ready')
        BY Zenon, <2>1, <3>1, <3>2 DEF Listed
      <3> QED BY Zenon, <1>1, <2>1, <3>1, <3>2, <3>3 DEF Visit
    <2> QED BY Zenon, <2>1, <2>2 DEF Visits
  <1>3. CASE events_done
    <2>1. phase = "events" /\ todo = {} /\ phase' = "sweep" /\ todo' = Listed /\ rq' = rq /\ epoll' = epoll
      BY Zenon, <1>3 DEF events_done
    <2>2. ASSUME NEW j \in Req
          PROVE  Visit(j)'
      <3>1. j \in todo' <=> rq[j].nc \in {"connecting", "open", "closing"}
        BY Zenon, <2>1 DEF Listed
      <3> QED BY Zenon, <1>1, <2>1, <3>1 DEF Visit
    <2> QED BY Zenon, <2>1, <2>2 DEF Visits
  <1>4. CASE sweep_done
    <2>1. phase = "sweep" /\ todo = {} /\ todo' = todo /\ phase' \in {"freed", "idle"} /\ epoll' = epoll
      BY Zenon, <1>4 DEF sweep_done
    <2>2. ASSUME NEW j \in Req
          PROVE  Visit(j)'
      <3>1. ~rq[j].nopoll /\ rq[j].nc # "closing"
        BY Zenon, <1>1, <2>1 DEF Visit
      <3>2. /\ rq'[j].mem = rq[j].mem /\ rq'[j].nopoll = rq[j].nopoll
            /\ rq'[j].nc = rq[j].nc \/ rq'[j].nc = "gone"
        BY Zenon, <1>4, DoneEffect DEF Inv, Kept
      <3>3. j \notin todo'
        BY Zenon, <2>1
      <3> QED BY Zenon, <1>1, <3>1, <3>2, <3>3 DEF Visit
    <2> QED BY Zenon, <2>1, <2>2 DEF Visits
  <1> QED BY Zenon, <1>2, <1>3, <1>4

\* Time, the network, and the end of a connection.
LEMMA VisitsSame ==
  ASSUME Inv, \A j \in Req : Same(j), UNCHANGED loop
  PROVE  Visits'
  <1>1. \A j \in Req : Visit(j)
    BY Zenon DEF Inv, Visits
  <1>2. phase' = phase /\ todo' = todo /\ ready' = ready /\ epoll' = epoll
    BY Zenon DEF loop
  <1>3. ASSUME NEW j \in Req
        PROVE  Visit(j)'
    BY Zenon, <1>1, <1>2 DEF Visit, Same
  <1> QED BY Zenon, <1>2, <1>3 DEF Visits, Inv

\* New lookups, in the blocks R.
Started(R) ==
    /\ \A j \in Req \ R : rq'[j] = rq[j]
    /\ \A j \in R : /\ unused(j) /\ rq'[j].mem = "held" /\ rq'[j].nc \in {"connecting", "named"}
                    /\ rq'[j].retries = 0 /\ rq'[j].nopoll = FALSE

\* The application's calls.
LEMMA VisitsNew ==
  ASSUME Inv, UNCHANGED loop, NEW R, Started(R)
  PROVE  Visits'
  <1>1. \A j \in Req : Visit(j)
    BY Zenon DEF Inv, Visits
  <1>2. phase' = phase /\ todo' = todo /\ ready' = ready /\ epoll' = epoll
    BY Zenon DEF loop
  <1>3. ASSUME NEW j \in Req
        PROVE  Visit(j)'
    <2>1. CASE j \in R
      <3>1. rq[j].nc = "none"
        BY Zenon, <2>1, FreshFields DEF Started, unused
      <3>2. j \notin todo
        BY Zenon, <1>1, <3>1 DEF Visit
      <3> QED BY Zenon, <1>2, <2>1, <3>2 DEF Started, Visit
    <2>2. CASE j \notin R
      <3>1. rq'[j] = rq[j] /\ Visit(j)
        BY Zenon, <1>1, <2>2 DEF Started
      <3> QED BY Zenon, <1>2, <3>1 DEF Visit
    <2> QED BY <2>1, <2>2
  <1> QED BY Zenon, <1>2, <1>3 DEF Visits, Inv

-----------------------------------------------------------------------------
(* Pairs is inductive.                                                      *)

\* Block j is for the same connection, if for any, as before.
Linked(j) == rq[j].mem = "held" /\ rq[j].client # App
Quiet(j) ==
    /\ Linked(j)' <=> Linked(j)
    /\ Linked(j) => /\ rq'[j].client = rq[j].client
                    /\ rq[j].nc \in {"connecting", "open"} /\ phase' # "freed"
                          => rq'[j].nc \in {"connecting", "open"}
    /\ rq'[j].nc = "named" <=> rq[j].nc = "named"
    /\ rq[j].nc = "named" => rq'[j].client = rq[j].client /\ rq'[j].retries = rq[j].retries

\* Steps in which no lookup for a connection starts or ends.
LEMMA PairsQuiet ==
  ASSUME Pairs, \A c \in Client : cc'[c] = "resolving" <=> cc[c] = "resolving",
         \A j \in Req : Quiet(j), phase = "freed" => phase' = "freed"
  PROVE  Pairs'
  <1>1. \A r \in Req, k \in Client \cup Req : For(r, k)' <=> For(r, k)
    <2>1. ASSUME NEW r \in Req, NEW k \in Client \cup Req
          PROVE  For(r, k)' <=> For(r, k)
      <3>1. k # App
        BY Zenon, ResolverAssumption
      <3> QED BY Zenon, <2>1, <3>1 DEF For, Quiet, Linked
    <2> QED BY Zenon, <2>1
  <1>2. \A k \in Client \cup Req : Waiting(k)' <=> Waiting(k)
    BY Zenon DEF Waiting, Quiet
  <1>3. \A r \in Req, k \in Client \cup Req : For(r, k)' => Waiting(k)'
    BY Zenon, <1>1, <1>2 DEF Pairs
  <1>4. \A r, i \in Req, k \in Client \cup Req : For(r, k)' /\ For(i, k)' => r = i
    BY Zenon, <1>1 DEF Pairs
  <1>5. \A k \in Client \cup Req : Waiting(k)' => \E r \in Req : For(r, k)'
    BY Zenon, <1>1, <1>2 DEF Pairs
  <1>6. \A r \in Req : rq'[r].mem = "held" /\ rq'[r].client # App /\ phase' # "freed"
                          => rq'[r].nc \in {"connecting", "open"}
    BY Zenon DEF Pairs, Quiet, Linked
  <1>7. \A r \in Req : rq'[r].nc = "named" => rq'[r].client = App /\ rq'[r].retries = 0
    BY Zenon DEF Pairs, Quiet
  <1> QED BY Zenon, <1>3, <1>4, <1>5, <1>6, <1>7 DEF Pairs

\* The end of a lookup.
LEMMA PairsOver ==
  ASSUME Pairs, Shape, NEW r \in Req, Over(r), rq[r].mem = "held", phase' = phase,
         rq'[r].mem # "held", rq'[r].nc # "named", rq[r].client # r
  PROVE  Pairs'
  <1>0. PICK k : k = rq[r].client
    OBVIOUS
  <1>1. /\ \A j \in Req \ {r} : j # k => rq'[j] = rq[j]
        /\ \A c \in Client : c # k => cc'[c] = cc[c]
        /\ k \in Client => cc'[k] \in {"connecting", "none"}
        /\ k \in Req => /\ rq'[k].mem = rq[k].mem /\ rq'[k].client = rq[k].client
                        /\ rq[k].nc = "named" /\ rq'[k].nc \in {"gone", "connecting"}
        /\ rq[r].nc \in {"connecting", "open"}
    BY Zenon, <1>0 DEF Over, Kept
  <1>2. k # r /\ For(r, k)
    BY Zenon, <1>0 DEF For
  <1>3. \A j \in Req \ {r} : rq'[j].mem = rq[j].mem /\ rq'[j].client = rq[j].client
    BY Zenon, <1>1
  <1>4. ASSUME NEW j \in Req, NEW m \in Client \cup Req, For(j, m)'
        PROVE  j # r /\ For(j, m) /\ m # k
    <2>1. j # r
      BY Zenon, <1>4 DEF For
    <2>2. For(j, m)
      BY Zenon, <1>3, <1>4, <2>1 DEF For
    <2>3. m # k
      <3>1. \A h, i \in Req, n \in Client \cup Req : For(h, n) /\ For(i, n) => h = i
        BY Zenon DEF Pairs
      <3>2. SUFFICES ASSUME m = k
                     PROVE  FALSE
        OBVIOUS
      <3>3. For(r, m)
        BY Zenon, <1>2, <3>2
      <3> QED BY Zenon, <2>1, <2>2, <3>1, <3>3
    <2> QED BY Zenon, <2>1, <2>2, <2>3
  <1>5. \A j \in Req, m \in Client \cup Req : For(j, m) /\ m # k => For(j, m)'
    BY Zenon, <1>2, <1>3, <1>0 DEF For
  <1>6. \A m \in Client \cup Req : m # k => (Waiting(m)' <=> Waiting(m))
    <2>1. ASSUME NEW m \in Client \cup Req, m # k, m \in Client
          PROVE  Waiting(m)' <=> Waiting(m)
      BY Zenon, <1>1, <2>1 DEF Waiting
    <2>2. ASSUME NEW m \in Client \cup Req, m # k, m \notin Client
          PROVE  Waiting(m)' <=> Waiting(m)
      <3>1. CASE m = r
        BY Zenon, <1>1, <2>2, <3>1 DEF Waiting
      <3>2. CASE m # r
        <4>1. rq'[m] = rq[m]
          BY Zenon, <1>1, <2>2, <3>2
        <4> QED BY Zenon, <2>2, <4>1 DEF Waiting
      <3> QED BY <3>1, <3>2
    <2> QED BY Zenon, <2>1, <2>2
  <1>7. k \in Client \cup Req => ~Waiting(k)'
    <2>1. CASE k \in Client
      <3>1. cc'[k] # "resolving"
        BY <1>1, <2>1
      <3> QED BY Zenon, <2>1, <3>1 DEF Waiting
    <2>2. CASE k \in Req /\ k \notin Client
      <3>1. rq'[k].nc # "named"
        BY <1>1, <2>2
      <3> QED BY Zenon, <2>2, <3>1 DEF Waiting
    <2> QED BY Zenon, <2>1, <2>2
  <1>8. \A j \in Req, m \in Client \cup Req : For(j, m)' => Waiting(m)'
    <2>1. \A j \in Req, m \in Client \cup Req : For(j, m) => Waiting(m)
      BY Zenon DEF Pairs
    <2> QED BY Zenon, <1>4, <1>6, <2>1
  <1>9. \A j, i \in Req, m \in Client \cup Req : For(j, m)' /\ For(i, m)' => j = i
    <2>1. \A j, i \in Req, m \in Client \cup Req : For(j, m) /\ For(i, m) => j = i
      BY Zenon DEF Pairs
    <2> QED BY Zenon, <1>4, <2>1
  <1>10. \A m \in Client \cup Req : Waiting(m)' => \E j \in Req : For(j, m)'
    <2>1. \A m \in Client \cup Req : Waiting(m) => \E j \in Req : For(j, m)
      BY Zenon DEF Pairs
    <2>2. ASSUME NEW m \in Client \cup Req, Waiting(m)'
          PROVE  \E j \in Req : For(j, m)'
      <3>1. m # k
        BY Zenon, <1>7, <2>2
      <3>2. Waiting(m)
        BY Zenon, <1>6, <2>2, <3>1
      <3>3. PICK j \in Req : For(j, m)
        BY Zenon, <2>1, <3>2
      <3> QED BY Zenon, <1>5, <3>1, <3>3
    <2> QED BY Zenon, <2>2
  <1>11. ASSUME NEW j \in Req
         PROVE  /\ rq'[j].mem = "held" /\ rq'[j].client # App /\ phase' # "freed"
                      => rq'[j].nc \in {"connecting", "open"}
                /\ rq'[j].nc = "named" => rq'[j].client = App /\ rq'[j].retries = 0
    <2>1. CASE j = r
      BY Zenon, <2>1
    <2>2. CASE j = k
      BY Zenon, <1>1, <2>2 DEF Pairs
    <2>3. CASE j # r /\ j # k
      <3>1. rq'[j] = rq[j]
        BY Zenon, <1>1, <2>3
      <3> QED BY Zenon, <3>1 DEF Pairs
    <2> QED BY <2>1, <2>2, <2>3
  <1> QED BY Zenon, <1>8, <1>9, <1>10, <1>11 DEF Pairs

\* A new lookup, in block i, for k that was not waiting.
LEMMA PairsNew ==
  ASSUME Pairs, phase' = phase, NEW i \in Req, NEW k \in Client \cup Req, k # i, ~Waiting(k), Waiting(k)',
         rq[i] = Fresh, rq'[i].mem = "held" /\ rq'[i].nc = "connecting" /\ rq'[i].client = k,
         \A j \in Req \ {i} : j # k => rq'[j] = rq[j],
         \A c \in Client \ {k} : cc'[c] = cc[c],
         k \in Req => /\ rq[k] = Fresh /\ rq'[k].client = App /\ rq'[k].retries = 0
  PROVE  Pairs'
  <1>1. rq[i].mem = "none" /\ rq[i].nc = "none"
    BY Zenon, FreshFields
  <1>2. \A j \in Req : ~For(j, k)
    BY Zenon DEF Pairs
  <1>3. \A j \in Req, m \in Client \cup Req : j # i => (For(j, m)' <=> For(j, m))
    <2>1. ASSUME NEW j \in Req, NEW m \in Client \cup Req, j # i
          PROVE  For(j, m)' <=> For(j, m)
      <3>1. CASE j = k
        BY Zenon, <2>1, <3>1, FreshFields, ResolverAssumption DEF For
      <3>2. CASE j # k
        BY Zenon, <2>1, <3>2 DEF For
      <3> QED BY <3>1, <3>2
    <2> QED BY Zenon, <2>1
  <1>4. \A m \in Client \cup Req : (For(i, m)' <=> m = k) /\ ~For(i, m)
    BY Zenon, <1>1 DEF For
  <1>5. ASSUME NEW m \in Client \cup Req, m # k
        PROVE  Waiting(m)' <=> Waiting(m)
    <2>1. CASE m \in Client
      BY Zenon, <1>5, <2>1 DEF Waiting
    <2>2. CASE m \notin Client /\ m = i
      BY Zenon, <1>1, <2>2 DEF Waiting
    <2>3. CASE m \notin Client /\ m # i
      <3>1. rq'[m] = rq[m]
        BY Zenon, <1>5, <2>3
      <3> QED BY Zenon, <2>3, <3>1 DEF Waiting
    <2> QED BY <2>1, <2>2, <2>3
  <1>6. \A j \in Req, m \in Client \cup Req : For(j, m)' => Waiting(m)'
    <2>1. \A j \in Req, m \in Client \cup Req : For(j, m) => Waiting(m)
      BY Zenon DEF Pairs
    <2>2. ASSUME NEW j \in Req, NEW m \in Client \cup Req, For(j, m)', m # k
          PROVE  Waiting(m)'
      BY Zenon, <1>3, <1>4, <1>5, <2>1, <2>2
    <2> QED BY Zenon, <2>2
  <1>7. \A j, h \in Req, m \in Client \cup Req : For(j, m)' /\ For(h, m)' => j = h
    <2>1. \A j, h \in Req, m \in Client \cup Req : For(j, m) /\ For(h, m) => j = h
      BY Zenon DEF Pairs
    <2>2. ASSUME NEW j \in Req, NEW h \in Req, NEW m \in Client \cup Req, For(j, m)', For(h, m)', m # k
          PROVE  j = h
      BY Zenon, <1>3, <1>4, <2>1, <2>2
    <2>3. ASSUME NEW j \in Req, For(j, k)'
          PROVE  j = i
      BY Zenon, <1>2, <1>3, <2>3
    <2> QED BY Zenon, <2>2, <2>3
  <1>8. \A m \in Client \cup Req : Waiting(m)' => \E j \in Req : For(j, m)'
    <2>1. \A m \in Client \cup Req : Waiting(m) => \E j \in Req : For(j, m)
      BY Zenon DEF Pairs
    <2>2. ASSUME NEW m \in Client \cup Req, Waiting(m)', m # k
          PROVE  \E j \in Req : For(j, m)'
      <3>1. PICK j \in Req : For(j, m)
        BY Zenon, <1>5, <2>1, <2>2
      <3>2. j # i
        BY Zenon, <1>4, <3>1
      <3> QED BY Zenon, <1>3, <3>1, <3>2
    <2> QED BY Zenon, <1>4, <2>2
  <1>9. ASSUME NEW j \in Req
        PROVE  /\ rq'[j].mem = "held" /\ rq'[j].client # App /\ phase' # "freed"
                     => rq'[j].nc \in {"connecting", "open"}
               /\ rq'[j].nc = "named" => rq'[j].client = App /\ rq'[j].retries = 0
    <2>1. CASE j = i
      BY Zenon, <2>1
    <2>2. CASE j = k
      BY Zenon, <2>2
    <2>3. CASE j # i /\ j # k
      <3>1. rq'[j] = rq[j]
        BY Zenon, <2>3
      <3> QED BY Zenon, <3>1 DEF Pairs
    <2> QED BY <2>1, <2>2, <2>3
  <1> QED BY Zenon, <1>6, <1>7, <1>8, <1>9 DEF Pairs

\* The loops of ns_mgr_poll().
LEMMA PairsLoops ==
  ASSUME Inv, NEW r \in Req, handle(r) \/ sweep(r)
  PROVE  Pairs'
  <1>1. r \in todo /\ phase' = phase
    BY Zenon DEF handle, sweep
  <1>2. Handles(r) \/ Sweeps(r)
    BY Zenon, HandleStep, SweepStep DEF Inv
  <1>3. /\ rq[r].nc \in {"connecting", "open", "closing"}
        /\ rq[r].nc \in {"connecting", "open"} => rq[r].mem = "held"
        /\ rq[r].nc = "closing" => rq[r].mem = "freed"
    BY Zenon, <1>1 DEF Inv, Visits, Visit
  <1>4. ASSUME cc' = cc, Quiet(r), \A j \in Req \ {r} : rq'[j] = rq[j]
        PROVE  Pairs'
    <2>1. \A j \in Req : Quiet(j)
      BY Zenon, <1>4 DEF Quiet, Linked
    <2> QED BY Zenon, <1>1, <1>4, <2>1, PairsQuiet DEF Inv
  <1>5. CASE Runs(r) /\ (rq'[r].nc = rq[r].nc \/ rq'[r].nc = "open")
    <2>1. Quiet(r)
      BY Zenon, <1>3, <1>5 DEF Quiet, Linked, Runs, Kept
    <2> QED BY Zenon, <1>4, <1>5, <2>1 DEF Runs
  <1>6. CASE Over(r) /\ rq'[r].mem # "held" /\ rq'[r].nc # "named"
    <2>1. rq[r].mem = "held" /\ rq[r].client # r
      BY Zenon, <1>6, ClientWaits DEF Inv, Over
    <2> QED BY Zenon, <1>1, <1>6, <2>1, PairsOver DEF Inv
  <1>7. CASE rq[r].nc = "closing" /\ rq'[r] = Fresh /\ cc' = cc /\ \A j \in Req \ {r} : rq'[j] = rq[j]
    <2>1. Quiet(r)
      BY Zenon, <1>3, <1>7, FreshFields DEF Quiet, Linked
    <2> QED BY Zenon, <1>4, <1>7, <2>1
  <1>8. CASE Handles(r)
    BY Zenon, <1>5, <1>6, <1>8 DEF Handles
  <1>9. CASE Sweeps(r)
    BY Zenon, <1>5, <1>6, <1>7, <1>9, FreshFields DEF Sweeps
  <1> QED BY Zenon, <1>2, <1>8, <1>9

\* The steps of ns_mgr_poll() between the loops, time, the network, and the
\* end of a connection.
LEMMA PairsRest ==
  ASSUME Inv, \/ poll(TRUE) \/ poll(FALSE) \/ events_done \/ sweep_done \/ tick
              \/ \E r \in Req, d \in Reply : reply_arrives(r, d)
              \/ \E c \in Client : connection_ends(c)
  PROVE  Pairs'
  <1>0. Pairs /\ Shape
    BY Zenon DEF Inv
  <1>1. CASE poll(TRUE) \/ poll(FALSE) \/ events_done
    <2>1. rq' = rq /\ cc' = cc /\ phase # "freed"
      BY Zenon, <1>1 DEF poll, events_done
    <2>2. \A j \in Req : Quiet(j)
      BY Zenon, <2>1 DEF Quiet, Linked
    <2> QED BY Zenon, <1>0, <2>1, <2>2, PairsQuiet
  <1>2. CASE sweep_done
    <2>1. phase = "sweep" /\ phase' = IF last THEN "freed" ELSE "idle"
      BY Zenon, <1>2 DEF sweep_done
    <2>2. ASSUME NEW j \in Req
          PROVE  Quiet(j)
      <3>1. /\ rq'[j].mem = rq[j].mem /\ rq'[j].client = rq[j].client /\ rq'[j].retries = rq[j].retries
            /\ phase' # "freed" => rq' = rq
            /\ rq'[j].nc = rq[j].nc \/ (rq'[j].nc = "gone" /\ rq[j].nc \in {"connecting", "open", "closing"})
        BY Zenon, <1>0, <1>2, <2>1, DoneEffect DEF Kept
      <3> QED BY Zenon, <3>1 DEF Quiet, Linked
    <2>3. cc' = cc
      BY Zenon, <1>0, <1>2, DoneEffect
    <2> QED BY Zenon, <1>0, <2>1, <2>2, <2>3, PairsQuiet
  <1>3. ASSUME cc' = cc, phase' = phase, \A j \in Req : Same(j)
        PROVE  Pairs'
    <2>1. \A j \in Req : Quiet(j)
      BY Zenon, <1>3 DEF Same, Quiet, Linked
    <2> QED BY Zenon, <1>0, <1>3, <2>1, PairsQuiet
  <1>4. CASE tick
    BY Zenon, <1>0, <1>3, <1>4, TickEffect DEF tick, loop
  <1>5. ASSUME NEW r \in Req, NEW d \in Reply, reply_arrives(r, d)
        PROVE  Pairs'
    <2>1. phase' = phase
      BY Zenon, <1>5 DEF reply_arrives, loop
    <2> QED BY Zenon, <1>0, <1>3, <1>5, <2>1, ReplyEffect
  <1>6. ASSUME NEW c \in Client, connection_ends(c)
        PROVE  Pairs'
    <2>1. rq' = rq /\ phase' = phase /\ cc[c] = "connecting" /\ cc' = [cc EXCEPT ![c] = "none"]
      BY Zenon, <1>6 DEF connection_ends, loop
    <2>2. \A d \in Client : cc'[d] = "resolving" <=> cc[d] = "resolving"
      BY <1>0, <2>1 DEF Shape
    <2>3. \A j \in Req : Quiet(j)
      BY Zenon, <2>1 DEF Quiet, Linked
    <2> QED BY Zenon, <1>0, <2>1, <2>2, <2>3, PairsQuiet
  <1> QED BY Zenon, <1>1, <1>2, <1>4, <1>5, <1>6

\* A lookup by the application.
LEMMA PairsAsync ==
  ASSUME Inv, NEW r \in Req, ns_resolve_async(r)
  PROVE  Pairs'
  <1>1. rq' = [rq EXCEPT ![r] = lookup(App)] /\ cc' = cc /\ phase' = phase /\ rq[r] = Fresh
    BY Zenon DEF ns_resolve_async, loop, unused
  <1>2. Pairs /\ Shape /\ cc' \in [Client -> {"none", "resolving", "connecting"}]
    BY Zenon, <1>1 DEF Inv, Shape
  <1>3. Begun(r, App)
    BY Zenon, <1>1, <1>2, StartEffect
  <1>4. Quiet(r)
    BY Zenon, <1>1, <1>3, FreshFields DEF Begun, Quiet, Linked
  <1>5. \A j \in Req : Quiet(j)
    BY Zenon, <1>3, <1>4 DEF Begun, Quiet, Linked
  <1> QED BY Zenon, <1>1, <1>2, <1>5, PairsQuiet

\* A lookup with a nameserver given by name.
LEMMA PairsNamed ==
  ASSUME Inv, NEW r \in Req, NEW i \in Req, ns_resolve_async_opt(r, i)
  PROVE  Pairs'
  <1>1. cc' = cc /\ phase' = phase /\ rq[r] = Fresh /\ rq[i] = Fresh /\ r # i
    BY Zenon DEF ns_resolve_async_opt, loop, unused
  <1>2. Pairs /\ Shape /\ r \notin Client
    BY Zenon, ResolverAssumption DEF Inv
  <1>3. Chained(r, i)
    BY Zenon, <1>2, NamedEffect
  <1>4. ~Waiting(r) /\ Waiting(r)'
    BY Zenon, <1>1, <1>2, <1>3, FreshFields DEF Chained, Waiting
  <1> QED BY Zenon, <1>1, <1>2, <1>3, <1>4, PairsNew DEF Chained

\* A connection to a host name.
LEMMA PairsConnect ==
  ASSUME Inv, NEW c \in Client, NEW r \in Req, ns_connect(c, r)
  PROVE  Pairs'
  <1>1. /\ rq' = [rq EXCEPT ![r] = lookup(c)] /\ cc' = [cc EXCEPT ![c] = "resolving"]
        /\ phase' = phase /\ rq[r] = Fresh /\ cc[c] = "none"
    BY Zenon DEF ns_connect, loop, unused
  <1>2. Pairs /\ Shape /\ c \notin Req
    BY Zenon, ResolverAssumption DEF Inv
  <1>3. /\ cc' \in [Client -> {"none", "resolving", "connecting"}] /\ cc'[c] = "resolving"
        /\ \A d \in Client \ {c} : cc'[d] = cc[d]
    BY <1>1, <1>2 DEF Shape
  <1>4. Begun(r, c)
    BY Zenon, <1>1, <1>2, <1>3, StartEffect
  <1>5. ~Waiting(c) /\ Waiting(c)'
    BY Zenon, <1>1, <1>3 DEF Waiting
  <1> QED BY Zenon, <1>1, <1>2, <1>3, <1>4, <1>5, PairsNew DEF Begun

-----------------------------------------------------------------------------
(* Lasted is inductive.                                                     *)

\* A query, or none.
LEMMA LongAsked ==
  ASSUME NEW p \in Request, NEW q \in Request, Long(p), Kept(p, q), Asked(p, q)
  PROVE  Long(q)
  <1>1. CASE q.retries = p.retries /\ q.age = p.age
    BY Zenon, <1>1 DEF Long, Kept
  <1>2. CASE p.age > Timeout /\ q.age = 0 /\ q.retries = p.retries + 1
    <2>1. p.age \in 0 .. (Timeout + 1) /\ p.retries \in 0 .. (MaxRetries + 1) /\ p.life \in 0 .. Elapsed
      BY Zenon DEF Request
    <2>2. p.age = Timeout + 1 /\ Elapsed \in Nat /\ p.life \in Nat /\ p.retries \in Nat /\ Timeout \in Nat
      BY <1>2, <2>1, ResolverAssumption DEF Elapsed
    <2>3. (p.retries - 1) * (Timeout + 1) + (Timeout + 1) = p.retries * (Timeout + 1)
      BY <2>2
    <2>4. (q.retries - 1) * (Timeout + 1) + q.age = p.retries * (Timeout + 1)
      BY <1>2, <2>2
    <2>5. CASE p.retries = 0
      <3>1. p.retries * (Timeout + 1) = 0
        BY <2>2, <2>5
      <3> QED BY <2>2, <2>4, <3>1 DEF Long, Kept
    <2>6. CASE p.retries # 0
      BY <2>2, <2>3, <2>4, <2>6 DEF Long, Kept
    <2> QED BY <2>5, <2>6
  <1> QED BY Zenon, <1>1, <1>2 DEF Asked

\* A second.
LEMMA LongAged ==
  ASSUME NEW p \in Request, NEW q \in Request, Long(p), Aged(p, q),
         q.mem = p.mem, q.retries = p.retries
  PROVE  Long(q)
  <1>1. p.age \in 0 .. (Timeout + 1) /\ p.retries \in 0 .. (MaxRetries + 1) /\ p.life \in 0 .. Elapsed
    BY Zenon DEF Request
  <1>2. Elapsed \in Nat /\ p.life \in Nat /\ p.retries \in Nat /\ p.age \in Nat /\ Timeout \in Nat
    BY <1>1, ResolverAssumption DEF Elapsed
  <1>3. PICK n \in Int : n = (p.retries - 1) * (Timeout + 1)
    BY <1>2
  <1>4. q.age <= p.age + 1 /\ q.age \in Nat
    BY <1>2 DEF Aged
  <1>5. q.life = Elapsed \/ q.life = p.life + 1
    BY Zenon DEF Aged
  <1>6. Elapsed = p.life => q.life = Elapsed
    BY Zenon DEF Aged
  <1>7. p.mem = "held" /\ p.retries # 0 => p.life = Elapsed \/ p.life >= n + p.age
    BY Zenon, <1>3 DEF Long
  <1>8. p.mem = "held" /\ p.retries # 0 => q.life = Elapsed \/ q.life >= n + q.age
    BY <1>2, <1>3, <1>4, <1>5, <1>6, <1>7
  <1> QED BY Zenon, <1>3, <1>8 DEF Long

\* The loops of ns_mgr_poll().
LEMMA LastedLoops ==
  ASSUME Inv, NEW r \in Req, Handles(r) \/ Sweeps(r)
  PROVE  Typed' /\ Lasted'
  <1>1. \A j \in Req : rq[j] \in Request /\ Long(rq[j])
    BY DEF Inv, Shape, Lasted
  <1>2. Typed'
    BY Zenon DEF Handles, Sweeps, Runs, Over
  <1>3. \A j \in Req : rq'[j] \in Request
    BY <1>2 DEF Typed
  <1>4. ASSUME NEW j \in Req
        PROVE  Long(rq[j])'
    <2>1. CASE Kept(rq[j], rq'[j]) /\ Asked(rq[j], rq'[j])
      BY Zenon, <1>1, <1>3, <2>1, LongAsked
    <2>2. CASE rq'[j].mem # "held"
      BY Zenon, <2>2 DEF Long
    <2>3. CASE rq'[j] = rq[j]
      BY Zenon, <1>1, <2>3
    <2>4. rq'[j] = rq[j] \/ rq'[j].mem # "held" \/ (Kept(rq[j], rq'[j]) /\ Asked(rq[j], rq'[j]))
      <3>1. CASE j = r
        BY Zenon, <3>1, FreshFields DEF Handles, Sweeps, Runs
      <3>2. CASE j # r
        BY Zenon, <3>2 DEF Handles, Sweeps, Runs, Over
      <3> QED BY <3>1, <3>2
    <2> QED BY Zenon, <2>1, <2>2, <2>3, <2>4
  <1> QED BY Zenon, <1>2, <1>4 DEF Lasted

\* New lookups, in blocks R, have sent nothing.
LEMMA LastedNew ==
  ASSUME Inv, NEW R, Started(R)
  PROVE  Lasted'
  <1>1. ASSUME NEW j \in Req
        PROVE  Long(rq[j])'
    <2>1. CASE j \in R
      BY Zenon, <2>1 DEF Started, Long
    <2>2. CASE j \notin R
      BY Zenon, <2>2 DEF Started, Inv, Lasted
    <2> QED BY <2>1, <2>2
  <1> QED BY Zenon, <1>1 DEF Lasted

\* Steps that change neither how many queries were sent nor the time.
LEMMA LastedSame ==
  ASSUME Inv, \A j \in Req : /\ rq'[j].mem = rq[j].mem /\ rq'[j].retries = rq[j].retries
                             /\ rq'[j].age = rq[j].age /\ rq'[j].life = rq[j].life
  PROVE  Lasted'
  BY Zenon DEF Inv, Lasted, Long

-----------------------------------------------------------------------------

\* The type of the variables of the loop.
LEMMA LoopTyped ==
  ASSUME Inv, Typed', UNCHANGED loop
  PROVE  Shape'
  BY Zenon DEF Inv, Shape, Typed, loop

\* The loops of ns_mgr_poll().
LEMMA InvLoops ==
  ASSUME Inv, NEW r \in Req, handle(r) \/ sweep(r)
  PROVE  Inv'
  <1>1. Handles(r) \/ Sweeps(r)
    BY Zenon, HandleStep, SweepStep DEF Inv
  <1>2. Typed' /\ Lasted'
    BY Zenon, <1>1, LastedLoops
  <1>3. phase' = phase /\ ready' = ready /\ last' = last /\ epoll' = epoll /\ todo' = todo \ {r}
    BY Zenon DEF handle, sweep
  <1>4. Shape'
    BY Zenon, <1>2, <1>3 DEF Inv, Shape, Typed
  <1>5. Visits'
    BY Zenon, VisitsHandle, VisitsSweep
  <1>6. Pairs'
    BY Zenon, PairsLoops
  <1> QED BY Zenon, <1>2, <1>4, <1>5, <1>6 DEF Inv

\* The steps between them.
LEMMA InvBetween ==
  ASSUME Inv, poll(TRUE) \/ poll(FALSE) \/ events_done \/ sweep_done
  PROVE  Inv'
  <1>1. Visits'
    BY Zenon, VisitsLoop
  <1>2. Pairs'
    BY Zenon, PairsRest
  <1>3. Listed \subseteq Req /\ Shape
    BY Zenon DEF Listed, Inv
  <1>4. CASE poll(TRUE) \/ poll(FALSE)
    <2>1. /\ phase' = "events" /\ rq' = rq /\ cc' = cc /\ epoll' = epoll /\ last' \in BOOLEAN
          /\ ready' = {r \in Req : rq[r].nc = "connecting" \/ (rq[r].nc = "open" /\ rq[r].inq # <<>>)}
          /\ todo' = IF epoll THEN ready' ELSE Listed
      BY Zenon, <1>4 DEF poll
    <2>2. ready' \in SUBSET Req
      BY Zenon, <2>1
    <2>3. todo' \in SUBSET Req
      BY Zenon, <1>3, <2>1, <2>2
    <2>4. Shape'
      BY Zenon, <1>3, <2>1, <2>2, <2>3 DEF Shape
    <2>5. Lasted'
      BY Zenon, <2>1, LastedSame
    <2> QED BY Zenon, <1>1, <1>2, <2>4, <2>5 DEF Inv
  <1>5. CASE events_done
    <2>1. phase' = "sweep" /\ rq' = rq /\ cc' = cc /\ epoll' = epoll /\ last' = last /\ ready' = {} /\ todo' = Listed
      BY Zenon, <1>5 DEF events_done
    <2>2. Shape'
      BY Zenon, <1>3, <2>1 DEF Shape
    <2>3. Lasted'
      BY Zenon, <2>1, LastedSame
    <2> QED BY Zenon, <1>1, <1>2, <2>2, <2>3 DEF Inv
  <1>6. CASE sweep_done
    <2>1. phase' \in {"freed", "idle"} /\ epoll' = epoll /\ last' = last /\ ready' = ready /\ todo' = todo
      BY Zenon, <1>6 DEF sweep_done
    <2>2. Typed' /\ \A j \in Req : /\ rq'[j].mem = rq[j].mem /\ rq'[j].retries = rq[j].retries
                                   /\ rq'[j].age = rq[j].age /\ rq'[j].life = rq[j].life
      BY Zenon, <1>3, <1>6, DoneEffect DEF Kept
    <2>3. Shape'
      BY Zenon, <1>3, <2>1, <2>2 DEF Shape, Typed
    <2>4. Lasted'
      BY Zenon, <2>2, LastedSame
    <2> QED BY Zenon, <1>1, <1>2, <2>3, <2>4 DEF Inv
  <1> QED BY Zenon, <1>4, <1>5, <1>6

\* Time, the network, and the end of a connection.
LEMMA InvOutside ==
  ASSUME Inv, \/ tick \/ \E r \in Req, d \in Reply : reply_arrives(r, d)
              \/ \E c \in Client : connection_ends(c)
  PROVE  Inv'
  <1>1. Pairs' /\ Shape /\ \A j \in Req : rq[j] \in Request /\ Long(rq[j])
    BY Zenon, PairsRest DEF Inv, Shape, Lasted
  <1>2. ASSUME Typed', UNCHANGED loop, \A j \in Req : Same(j), Lasted'
        PROVE  Inv'
    BY Zenon, <1>1, <1>2, LoopTyped, VisitsSame DEF Inv
  <1>3. CASE tick
    <2>1. /\ Typed' /\ cc' = cc
          /\ \A j \in Req : Same(j) /\ (rq[j].mem = "held" => Aged(rq[j], rq'[j]))
      BY Zenon, <1>1, <1>3, TickEffect
    <2>2. ASSUME NEW j \in Req
          PROVE  Long(rq[j])'
      <3>1. rq'[j] \in Request
        BY <2>1 DEF Typed
      <3>2. rq'[j].mem = rq[j].mem /\ rq'[j].retries = rq[j].retries
        BY Zenon, <2>1 DEF Same
      <3>3. CASE rq[j].mem = "held"
        BY Zenon, <1>1, <2>1, <3>1, <3>2, <3>3, LongAged
      <3>4. CASE rq[j].mem # "held"
        BY Zenon, <3>2, <3>4 DEF Long
      <3> QED BY <3>3, <3>4
    <2>3. Lasted'
      BY Zenon, <2>2 DEF Lasted
    <2> QED BY Zenon, <1>2, <1>3, <2>1, <2>3 DEF tick
  <1>4. ASSUME NEW r \in Req, NEW d \in Reply, reply_arrives(r, d)
        PROVE  Inv'
    <2>1. /\ Typed' /\ cc' = cc
          /\ \A j \in Req : Same(j) /\ rq'[j].age = rq[j].age /\ rq'[j].life = rq[j].life
      BY Zenon, <1>1, <1>4, ReplyEffect
    <2>2. Lasted'
      BY Zenon, <2>1, LastedSame DEF Same
    <2> QED BY Zenon, <1>2, <1>4, <2>1, <2>2 DEF reply_arrives
  <1>5. ASSUME NEW c \in Client, connection_ends(c)
        PROVE  Inv'
    <2>1. rq' = rq /\ cc' = [cc EXCEPT ![c] = "none"] /\ UNCHANGED loop
      BY Zenon, <1>5 DEF connection_ends
    <2>2. Typed'
      BY <1>1, <2>1 DEF Typed, Shape
    <2>3. Lasted' /\ \A j \in Req : Same(j)
      BY Zenon, <2>1, LastedSame DEF Same
    <2> QED BY Zenon, <1>2, <2>1, <2>2, <2>3
  <1> QED BY Zenon, <1>3, <1>4, <1>5

\* The application's calls.
LEMMA InvCalls ==
  ASSUME Inv, NEW r \in Req, \/ ns_resolve_async(r) \/ \E i \in Req : ns_resolve_async_opt(r, i)
                             \/ \E c \in Client : ns_connect(c, r)
  PROVE  Inv'
  <1>1. Shape
    BY Zenon DEF Inv
  <1>2. CASE ns_resolve_async(r)
    <2>1. /\ rq' = [rq EXCEPT ![r] = lookup(App)] /\ unused(r) /\ UNCHANGED loop
          /\ cc' \in [Client -> {"none", "resolving", "connecting"}]
      BY Zenon, <1>1, <1>2 DEF ns_resolve_async, Shape
    <2>2. Begun(r, App)
      BY Zenon, <1>1, <2>1, StartEffect
    <2>3. Started({r})
      BY Zenon, <2>1, <2>2 DEF Begun, Started
    <2>4. Visits' /\ Lasted'
      BY Zenon, <2>1, <2>3, VisitsNew, LastedNew
    <2>5. Shape' /\ Pairs'
      BY Zenon, <1>2, <2>1, <2>2, LoopTyped, PairsAsync DEF Begun
    <2> QED BY Zenon, <2>4, <2>5 DEF Inv
  <1>3. ASSUME NEW i \in Req, ns_resolve_async_opt(r, i)
        PROVE  Inv'
    <2>1. unused(r) /\ unused(i) /\ UNCHANGED loop
      BY Zenon, <1>3 DEF ns_resolve_async_opt
    <2>2. Chained(r, i)
      BY Zenon, <1>1, <1>3, NamedEffect
    <2>3. Started({r, i})
      BY Zenon, <2>1, <2>2 DEF Chained, Started
    <2>4. Visits' /\ Lasted'
      BY Zenon, <2>1, <2>3, VisitsNew, LastedNew
    <2>5. Shape' /\ Pairs'
      BY Zenon, <1>3, <2>1, <2>2, LoopTyped, PairsNamed DEF Chained
    <2> QED BY Zenon, <2>4, <2>5 DEF Inv
  <1>4. ASSUME NEW c \in Client, ns_connect(c, r)
        PROVE  Inv'
    <2>1. rq' = [rq EXCEPT ![r] = lookup(c)] /\ unused(r) /\ UNCHANGED loop /\ cc' = [cc EXCEPT ![c] = "resolving"]
      BY Zenon, <1>4 DEF ns_connect
    <2>2. cc' \in [Client -> {"none", "resolving", "connecting"}]
      BY <1>1, <2>1 DEF Shape
    <2>3. Begun(r, c)
      BY Zenon, <1>1, <2>1, <2>2, StartEffect
    <2>4. Started({r})
      BY Zenon, <2>1, <2>3 DEF Begun, Started
    <2>5. Visits' /\ Lasted'
      BY Zenon, <2>1, <2>4, VisitsNew, LastedNew
    <2>6. Shape' /\ Pairs'
      BY Zenon, <1>4, <2>1, <2>3, LoopTyped, PairsConnect DEF Begun
    <2> QED BY Zenon, <2>5, <2>6 DEF Inv
  <1> QED BY Zenon, <1>2, <1>3, <1>4

\* Every step keeps the invariant.
LEMMA InvNext ==
  ASSUME Inv, [Next]_vars
  PROVE  Inv'
  <1>1. CASE UNCHANGED vars
    <2>1. rq' = rq /\ cc' = cc /\ phase' = phase /\ todo' = todo /\ ready' = ready /\ last' = last /\ epoll' = epoll
      BY Zenon, <1>1 DEF vars
    <2>2. Shape' /\ Lasted'
      BY Zenon, <2>1 DEF Inv, Shape, Lasted
    <2>3. Visits'
      BY Zenon, <2>1 DEF Inv, Visits, Visit
    <2>4. Pairs'
      BY Zenon, <2>1 DEF Inv, Pairs, For, Waiting
    <2> QED BY Zenon, <2>2, <2>3, <2>4 DEF Inv
  <1>2. CASE Loop \/ poll(TRUE)
    BY Zenon, <1>2, InvLoops, InvBetween DEF Loop
  <1>3. CASE tick \/ (\E r \in Req, d \in Reply : reply_arrives(r, d)) \/ \E c \in Client : connection_ends(c)
    BY Zenon, <1>3, InvOutside
  <1>4. CASE \E r \in Req : \/ ns_resolve_async(r) \/ \E i \in Req : ns_resolve_async_opt(r, i)
                            \/ \E c \in Client : ns_connect(c, r)
    BY Zenon, <1>4, InvCalls
  <1> QED BY Zenon, <1>1, <1>2, <1>3, <1>4 DEF Next

\* The lookups, the visits of the loops and the pairing of lookups with what
\* waits for them, in every reachable state.
THEOREM ResolverInvariance == Spec => []Inv
  <1>1. Init => Inv
    <2> SUFFICES ASSUME Init
                 PROVE  Inv
      OBVIOUS
    <2>1. rq = [r \in Req |-> Fresh] /\ cc = [c \in Client |-> "none"] /\ phase = "idle" /\ todo = {}
          /\ ready = {} /\ last = FALSE /\ epoll \in Builds
      BY Zenon DEF Init
    <2>2. epoll \in BOOLEAN /\ last \in BOOLEAN
      BY Zenon, <2>1, ResolverAssumption
    <2>3. rq \in [Req -> Request] /\ cc \in [Client -> {"none", "resolving", "connecting"}]
      BY <2>1, FreshTyped
    <2>4. Shape
      BY Zenon, <2>1, <2>2, <2>3 DEF Shape
    <2>5. \A r \in Req : rq[r] = Fresh
      BY Zenon, <2>1
    <2>6. Visits
      BY Zenon, <2>1, <2>5, FreshFields DEF Visits, Visit
    <2>7. \A c \in Client : cc[c] = "none"
      BY Zenon, <2>1
    <2>8. Pairs
      BY Zenon, <2>5, <2>7, FreshFields DEF Pairs, For, Waiting
    <2>9. Lasted
      BY Zenon, <2>5, FreshFields DEF Lasted, Long
    <2> QED BY Zenon, <2>4, <2>6, <2>8, <2>9 DEF Inv
  <1>2. Inv /\ [Next]_vars => Inv'
    BY InvNext
  <1> QED BY <1>1, <1>2, PTL DEF Spec

\* resolv.c:155 and 173.  In either build, no event makes the handler look at
\* a request it has freed.
THEOREM NoStaleAlways == Spec => []NoStaleRequest
  <1>1. Inv => NoStaleRequest
    <2>1. SUFFICES ASSUME Inv, NEW r \in todo
                   PROVE  /\ phase = "events" => rq[r].mem = "held"
                          /\ phase = "sweep" /\ epoll /\ ~rq[r].nopoll => rq[r].mem = "held"
      BY Zenon DEF NoStaleRequest
    <2>2. r \in Req
      BY Zenon, <2>1 DEF Inv, Shape
    <2> QED BY Zenon, <2>1, <2>2 DEF Inv, Visits, Visit
  <1> QED BY <1>1, ResolverInvariance, PTL

\* net.c:1259.  What waits for an address has exactly one lookup, and the
\* connection resolve_cb() gets is there and still waits.
THEOREM PairedAlways == Spec => []Paired
  <1>1. Inv => TypeOK
    <2> SUFFICES ASSUME Inv
                 PROVE  TypeOK
      OBVIOUS
    <2>1. \A r \in Req : rq[r] \in Request
      BY DEF Inv, Shape
    <2> QED BY Zenon, <2>1 DEF Inv, Shape, Request, TypeOK
  <1>2. ASSUME Inv, NEW k \in Client \cup Req
        PROVE  Cardinality({r \in Req : Awaits(r, k)}) = IF Waiting(k) THEN 1 ELSE 0
    <2>1. k # App /\ Pairs
      BY Zenon, <1>2, ResolverAssumption DEF Inv
    <2>2. \A r \in Req : Awaits(r, k) <=> For(r, k)
      BY Zenon, <2>1 DEF Awaits, For, Pairs
    <2>3. CASE Waiting(k)
      <3>1. PICK r \in Req : For(r, k)
        BY Zenon, <2>1, <2>3 DEF Pairs
      <3>2. \A i \in Req : For(i, k) => i = r
        BY Zenon, <2>1, <3>1 DEF Pairs
      <3>3. {i \in Req : Awaits(i, k)} = {r}
        BY Zenon, <2>2, <3>1, <3>2
      <3> QED BY Zenon, <2>3, <3>3, FS_Singleton
    <2>4. CASE ~Waiting(k)
      <3>1. \A r \in Req : ~For(r, k)
        BY Zenon, <2>1, <2>4 DEF Pairs
      <3>2. {r \in Req : Awaits(r, k)} = {}
        BY Zenon, <2>2, <3>1
      <3> QED BY <2>4, <3>2, FS_EmptySet
    <2> QED BY <2>3, <2>4
  <1>3. Inv => Paired
    BY Zenon, <1>1, <1>2 DEF Paired, Waiting
  <1> QED BY <1>3, ResolverInvariance, PTL

\* A lookup that has sent all its queries has lasted as long as they take.
LEMMA LongEnough ==
  ASSUME NEW p \in Request, Long(p), p.mem = "held", p.retries > MaxRetries
  PROVE  p.life = Elapsed
  <1>1. p.age \in 0 .. (Timeout + 1) /\ p.retries \in 0 .. (MaxRetries + 1) /\ p.life \in 0 .. Elapsed
    BY Zenon DEF Request
  <1>2. p.retries = MaxRetries + 1 /\ p.retries # 0 /\ Elapsed \in Nat /\ p.age \in Nat
    BY <1>1, ResolverAssumption DEF Elapsed
  <1>3. p.retries - 1 = MaxRetries
    BY <1>2, ResolverAssumption
  <1>4. p.life = Elapsed \/ p.life >= Elapsed + p.age
    BY Zenon, <1>2, <1>3 DEF Long, Elapsed
  <1> QED BY <1>1, <1>2, <1>4

\* Only the loops of ns_mgr_poll() free a request.
LEMMA OthersKeepMemory ==
  ASSUME Inv, [Next]_vars, NEW r \in Req, \A i \in Req : ~handle(i) /\ ~sweep(i), rq[r].mem = "held"
  PROVE  rq'[r].mem = "held"
  <1>1. Shape /\ ~unused(r)
    BY Zenon, FreshFields DEF Inv, unused
  <1>2. CASE UNCHANGED vars \/ poll(TRUE) \/ poll(FALSE) \/ events_done \/ \E c \in Client : connection_ends(c)
    <2>1. rq' = rq
      BY Zenon, <1>2 DEF vars, poll, events_done, connection_ends
    <2> QED BY Zenon, <2>1
  <1>3. CASE sweep_done
    BY Zenon, <1>1, <1>3, DoneEffect DEF Kept
  <1>4. CASE tick
    BY Zenon, <1>1, <1>4, TickEffect DEF Same
  <1>5. ASSUME NEW i \in Req, NEW d \in Reply, reply_arrives(i, d)
        PROVE  rq'[r].mem = "held"
    BY Zenon, <1>1, <1>5, ReplyEffect DEF Same
  <1>6. ASSUME NEW i \in Req, ns_resolve_async(i) \/ \E c \in Client : ns_connect(c, i)
        PROVE  rq'[r].mem = "held"
    <2>1. PICK x : rq' = [rq EXCEPT ![i] = x] /\ unused(i)
      BY Zenon, <1>6 DEF ns_resolve_async, ns_connect
    <2>2. i # r
      BY Zenon, <1>1, <2>1
    <2> QED BY <1>1, <2>1, <2>2 DEF Shape
  <1>7. ASSUME NEW i \in Req, NEW h \in Req, ns_resolve_async_opt(i, h)
        PROVE  rq'[r].mem = "held"
    <2>1. i # r /\ h # r
      BY Zenon, <1>1, <1>7 DEF ns_resolve_async_opt
    <2>2. Chained(i, h)
      BY Zenon, <1>1, <1>7, NamedEffect
    <2> QED BY Zenon, <2>1, <2>2 DEF Chained
  <1> QED BY Zenon, <1>2, <1>3, <1>4, <1>5, <1>6, <1>7 DEF Next, Loop

\* resolv.c:153-163.  Nobody is told that a lookup has timed out before
\* MaxRetries queries have each had their timeout, whatever the order of
\* polls, replies and seconds.
THEOREM TimeoutAlways == Spec => TimeoutTotal
  <1>1. ASSUME Inv, [Next]_vars, NEW r \in Req, TimesOut(r)
        PROVE  rq[r].life = Elapsed
    <2>1. rq[r].mem = "held" /\ rq'[r].mem # "held" /\ ~(phase = "events" /\ r \in ready)
      BY Zenon, <1>1 DEF TimesOut
    <2>2. PICK i \in Req : handle(i) \/ sweep(i)
      BY Zenon, <1>1, <2>1, OthersKeepMemory
    <2>3. handle(i) => Handles(i) /\ phase = "events"
      BY Zenon, <1>1, HandleStep DEF Inv, handle
    <2>4. sweep(i) => Sweeps(i)
      BY Zenon, <1>1, SweepStep DEF Inv
    <2>5. i = r
      <3>1. \A j \in Req \ {i} : rq'[j] = rq[j] \/ rq'[j].mem = rq[j].mem
        BY Zenon, <2>2, <2>3, <2>4 DEF Handles, Sweeps, Runs, Over, Kept
      <3> QED BY Zenon, <2>1, <3>1
    <2>6. rq[r].nc # "closing"
      BY Zenon, <1>1, <2>1 DEF Inv, Visits, Visit
    <2>7. rq[r].retries > MaxRetries
      <3>1. CASE handle(i)
        BY Zenon, <2>1, <2>3, <2>5, <3>1 DEF Handles, Runs, Kept
      <3>2. CASE sweep(i)
        BY Zenon, <2>1, <2>4, <2>5, <2>6, <3>2 DEF Sweeps, Runs, Kept
      <3> QED BY <2>2, <3>1, <3>2
    <2>8. rq[r] \in Request /\ Long(rq[r])
      BY <1>1 DEF Inv, Shape, Lasted
    <2> QED BY Zenon, <2>1, <2>7, <2>8, LongEnough
  <1>2. Inv /\ [Next]_vars => [\A r \in Req : TimesOut(r) => rq[r].life = Elapsed]_vars
    BY Zenon, <1>1
  <1> QED BY <1>2, ResolverInvariance, PTL DEF Spec, TimeoutTotal

=============================================================================
