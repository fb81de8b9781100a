------------------------- MODULE LoadBalancerProofs -------------------------
(***************************************************************************)
(* Proofs about LoadBalancer, for any number of clients and of connections *)
(* to the backend, any size of the pool and any number of requests.        *)
(***************************************************************************)
EXTENDS LoadBalancer, TLAPS

Flag == {"CLOSE_IMMEDIATELY", "SEND_AND_CLOSE"}
NcType == [st : {"free", "connecting", "open"}, flags : SUBSET Flag, handler : {"ev", "idle"},
           ud : Client \cup {NULL}, part : BOOLEAN]
ConnType == [mem : BOOLEAN, client : BOOLEAN, backend : Back \cup {NULL}, be_conn : Back \cup {NULL},
             keep_alive : BOOLEAN, headers : BOOLEAN, body_len : {-1, 0}]
BecType == [mem : BOOLEAN, nc : BOOLEAN, idle : BOOLEAN]
Said == {"no", "keep", "close"}
Ncs == [Nc -> NcType]
Conns == [Client -> ConnType]
Becs == [Back -> BecType]
Owes == [Back -> Client \cup {NULL}]
Tolds == [Client -> Said]
Lists == Seq(Nc)
Pools == Seq(Back)

\* The memory of the program.
Mem == [nc : Ncs, conn : Conns, bec : Becs, pool : Pools, num_conns : Int, list : Lists,
        owed : Owes, told : Tolds, crashed : BOOLEAN]

-----------------------------------------------------------------------------
(* The inductive invariant                                                 *)

\* A connection b to the backend works for client c.  Only the close of the
\* client marks it while it is connecting.
Serves(s, b, c) ==
    /\ s.nc[b].handler = "ev" /\ s.nc[b].ud = c /\ s.owed[b] = c
    /\ s.conn[c].mem /\ s.conn[c].backend = b /\ s.conn[c].be_conn = b
    /\ s.bec[b].mem /\ s.bec[b].nc
    /\ s.nc[b].st = "connecting" /\ s.nc[b].flags # {} => ~s.conn[c].client

\* It is idle, in the pool or about to be closed.
Rests(s, b) == s.nc[b].handler = "idle" /\ s.nc[b].st = "open" /\ s.owed[b] = NULL /\ s.bec[b].mem /\ s.bec[b].nc

\* It could not be connected: nothing leads to it any more.
Failed(s, b) ==
    /\ s.nc[b].st = "connecting" /\ "CLOSE_IMMEDIATELY" \in s.nc[b].flags
    /\ s.nc[b].handler = "ev" /\ s.owed[b] = s.nc[b].ud

\* D is the set of those that could not be connected.
Backs(s, D, b) ==
    IF b \in D THEN Failed(s, b)
    ELSE IF s.nc[b].st = "free" THEN s.nc[b] = NoNc /\ s.owed[b] = NULL
    ELSE Rests(s, b) \/ \E c \in Client : Serves(s, b, c)

\* A client that is there has its conn_data, and a backend connection that
\* works for it if conn_data names one.
Clients(s, D, c) ==
    IF s.nc[c].st = "free" THEN s.nc[c] = NoNc /\ ~s.conn[c].client
    ELSE /\ s.nc[c].st = "open" /\ s.nc[c].handler = "ev" /\ s.conn[c].client /\ s.conn[c].mem
         /\ s.conn[c].backend # NULL =>
               LET b == s.conn[c].backend IN
               b \notin D /\ s.nc[b].st # "free" /\ s.nc[b].handler = "ev" /\ s.nc[b].ud = c

\* The pool.
InPool(s, b) == s.bec[b].mem /\ s.bec[b].idle /\ s.nc[b].handler = "idle" /\ s.nc[b].st = "open"
Distinct(p) == \A i, j \in 1 .. Len(p) : p[i] = p[j] => i = j
Pool(s) ==
    /\ Range1(s.pool) = {b \in Back : InPool(s, b)} /\ Distinct(s.pool)
    /\ Len(s.pool) <= s.num_conns

Listed(s) == \A y \in Nc : s.nc[y].st # "free" => y \in Range1(s.list)

\* What holds of the memory whenever no handler runs; x is a connection that is
\* just being closed, or NULL.
Sane(s, D, x) ==
    /\ \A b \in Back \ {x} : Backs(s, D, b)
    /\ \A c \in Client \ {x} : Clients(s, D, c)
    /\ Pool(s) /\ Listed(s)

-----------------------------------------------------------------------------
(* The pool and the list as sequences                                      *)

\* Two lists, one behind the other.
LEMMA Joined ==
    ASSUME NEW S, NEW a \in Seq(S), NEW b \in Seq(S)
    PROVE  /\ a \o b \in Seq(S) /\ Len(a \o b) = Len(a) + Len(b)
           /\ \A i \in 1 .. Len(a) : (a \o b)[i] = a[i]
           /\ \A i \in 1 .. Len(b) : (a \o b)[Len(a) + i] = b[i]
<1>1. a \o b \in Seq(S) /\ Len(a \o b) = Len(a) + Len(b) BY SMT
<1>2. ASSUME NEW i \in 1 .. Len(a) PROVE (a \o b)[i] = a[i] BY SMT
<1>3. ASSUME NEW i \in 1 .. Len(b) PROVE (a \o b)[Len(a) + i] = b[i] BY SMT
<1>4. QED BY Zenon, <1>1, <1>2, <1>3

\* A connection at the end of a list.
LEMMA AtEnd ==
    ASSUME NEW S, NEW p \in Seq(S), NEW b \in S
    PROVE  /\ Append(p, b) \in Seq(S) /\ Len(Append(p, b)) = Len(p) + 1
           /\ Range1(Append(p, b)) = Range1(p) \cup {b}
           /\ Distinct(p) /\ b \notin Range1(p) => Distinct(Append(p, b))
<1>q. PICK q : q = Append(p, b) BY Zenon
<1>1. /\ q \in Seq(S) /\ Len(q) = Len(p) + 1 /\ Len(p) \in Nat /\ q[Len(p) + 1] = b
      /\ \A i \in 1 .. Len(p) : q[i] = p[i]
  BY SMT, <1>q
<1>2. 1 .. Len(q) = 1 .. Len(p) \cup {Len(p) + 1} BY SMT, <1>1
<1>3. Range1(q) = Range1(p) \cup {b} BY Zenon, <1>1, <1>2 DEF Range1
<1>4. ASSUME Distinct(p), b \notin Range1(p) PROVE Distinct(q)
  BY Zenon, <1>1, <1>2, <1>4 DEF Distinct, Range1
<1>5. QED BY Zenon, <1>q, <1>1, <1>3, <1>4

\* A connection in front of a list.
LEMMA InFront ==
    ASSUME NEW S, NEW p \in Seq(S), NEW b \in S
    PROVE  <<b>> \o p \in Seq(S) /\ Range1(<<b>> \o p) = {b} \cup Range1(p)
<1>q. PICK q : q = <<b>> \o p BY Zenon
<1>1. /\ q \in Seq(S) /\ Len(q) = Len(p) + 1 /\ Len(p) \in Nat /\ q[1] = b
      /\ \A i \in 1 .. Len(p) : q[i + 1] = p[i]
  BY SMT, <1>q
<1>2. ASSUME NEW i \in 1 .. Len(q) PROVE i = 1 \/ (i - 1 \in 1 .. Len(p) /\ (i - 1) + 1 = i) BY SMT, <1>1
<1>3. ASSUME NEW i \in 1 .. Len(p) PROVE i + 1 \in 1 .. Len(q) BY SMT, <1>1
<1>4. 1 \in 1 .. Len(q) BY SMT, <1>1
<1>5. ASSUME NEW i \in 1 .. Len(q) PROVE q[i] \in {b} \cup Range1(p)
  <2>1. CASE i = 1 BY Zenon, <1>1, <2>1
  <2>2. CASE i - 1 \in 1 .. Len(p) /\ (i - 1) + 1 = i
    <3>1. q[(i - 1) + 1] = p[i - 1] BY Zenon, <1>1, <2>2
    <3>2. QED BY Zenon, <2>2, <3>1 DEF Range1
  <2>3. QED BY Zenon, <1>2, <2>1, <2>2
<1>6. Range1(q) \subseteq {b} \cup Range1(p) BY Zenon, <1>5 DEF Range1
<1>7. {b} \cup Range1(p) \subseteq Range1(q) BY Zenon, <1>1, <1>3, <1>4 DEF Range1
<1>8. QED BY Zenon, <1>q, <1>1, <1>6, <1>7

\* The first of a list, and the list without it.
LEMMA FirstOff ==
    ASSUME NEW S, NEW p \in Seq(S), p # <<>>
    PROVE  /\ Head(p) \in S /\ Head(p) \in Range1(p) /\ Tail(p) \in Seq(S) /\ Len(Tail(p)) = Len(p) - 1
           /\ Distinct(p) => Distinct(Tail(p)) /\ Range1(Tail(p)) = Range1(p) \ {Head(p)}
<1>q. PICK q : q = Tail(p) BY Zenon
<1>h. PICK h : h = Head(p) BY Zenon
<1>1. /\ q \in Seq(S) /\ Len(q) = Len(p) - 1 /\ Len(p) \in Nat /\ Len(p) > 0 /\ p[1] = h /\ h \in S
      /\ \A i \in 1 .. Len(q) : q[i] = p[i + 1]
  BY SMT, <1>q, <1>h
<1>2. 1 \in 1 .. Len(p) BY SMT, <1>1
<1>3. h \in Range1(p) BY Zenon, <1>1, <1>2 DEF Range1
<1>4. ASSUME NEW i \in 1 .. Len(q) PROVE i + 1 \in 1 .. Len(p) /\ i + 1 # 1 BY SMT, <1>1
<1>5. ASSUME NEW i \in 1 .. Len(p), i # 1 PROVE i - 1 \in 1 .. Len(q) /\ (i - 1) + 1 = i BY SMT, <1>1, <1>5
<1>6. ASSUME Distinct(p) PROVE Distinct(q) /\ Range1(q) = Range1(p) \ {h}
  <2>1. ASSUME NEW i \in 1 .. Len(q), NEW j \in 1 .. Len(q), q[i] = q[j] PROVE i = j
    <3>1. i + 1 = j + 1 BY Zenon, <1>1, <1>4, <1>6, <2>1 DEF Distinct
    <3>2. QED BY SMT, <3>1
  <2>2. ASSUME NEW i \in 1 .. Len(q) PROVE q[i] \in Range1(p) \ {h}
    BY Zenon, <1>1, <1>2, <1>4, <1>6 DEF Distinct, Range1
  <2>3. ASSUME NEW i \in 1 .. Len(p), p[i] # h PROVE p[i] \in Range1(q)
    <3>1. i # 1 BY Zenon, <1>1, <2>3
    <3>2. i - 1 \in 1 .. Len(q) /\ (i - 1) + 1 = i BY Zenon, <1>5, <3>1
    <3>3. q[i - 1] = p[(i - 1) + 1] BY Zenon, <1>1, <3>2
    <3>4. QED BY Zenon, <3>2, <3>3 DEF Range1
  <2>4. Distinct(q) BY Zenon, <2>1 DEF Distinct
  <2>5. Range1(q) \subseteq Range1(p) \ {h} BY Zenon, <2>2 DEF Range1
  <2>6. Range1(p) \ {h} \subseteq Range1(q) BY Zenon, <2>3 DEF Range1
  <2>7. QED BY Zenon, <2>4, <2>5, <2>6
<1>7. QED BY Zenon, <1>q, <1>h, <1>1, <1>3, <1>6

\* A list without one of its connections.
LEMMA Without ==
    ASSUME NEW S, NEW p \in Seq(S), NEW x
    PROVE  /\ without(p, x) \in Seq(S) /\ Len(without(p, x)) <= Len(p)
           /\ Range1(p) \ {x} \subseteq Range1(without(p, x))
           /\ Distinct(p) => Distinct(without(p, x)) /\ Range1(without(p, x)) = Range1(p) \ {x}
<1>1. CASE x \notin Range1(p)
  <2>1. without(p, x) = p BY Zenon, <1>1 DEF without
  <2>2. Len(p) <= Len(p) BY SMT
  <2>3. QED BY Zenon, <1>1, <2>1, <2>2
<1>2. CASE x \in Range1(p)
  <2>k. PICK k : k = CHOOSE i \in 1 .. Len(p) : p[i] = x BY Zenon
  <2>1. k \in 1 .. Len(p) /\ p[k] = x BY Zenon, <1>2, <2>k DEF Range1
  <2>q. PICK q : q = SubSeq(p, 1, k - 1) \o SubSeq(p, k + 1, Len(p)) BY Zenon
  <2>2. without(p, x) = q BY Zenon, <1>2, <2>k, <2>q DEF without
  <2>3. /\ q \in Seq(S) /\ Len(q) = Len(p) - 1 /\ Len(p) \in Nat /\ k \in Nat
        /\ \A i \in 1 .. Len(q) : q[i] = IF i < k THEN p[i] ELSE p[i + 1]
    <3>a. PICK a : a = SubSeq(p, 1, k - 1) BY Zenon
    <3>b. PICK b : b = SubSeq(p, k + 1, Len(p)) BY Zenon
    <3>1. Len(p) \in Nat /\ k \in Nat /\ 1 <= k /\ k <= Len(p) BY SMT, <2>1
    <3>2. a \in Seq(S) /\ Len(a) = k - 1 /\ \A i \in 1 .. k - 1 : a[i] = p[i] BY SMT, <3>1, <3>a
    <3>3. b \in Seq(S) /\ Len(b) = Len(p) - k /\ \A i \in 1 .. Len(p) - k : b[i] = p[k + i] BY SMT, <3>1, <3>b
    <3>c. q = a \o b BY Zenon, <2>q, <3>a, <3>b
    <3>d. /\ q \in Seq(S) /\ Len(q) = Len(a) + Len(b) /\ \A i \in 1 .. Len(a) : q[i] = a[i]
          /\ \A i \in 1 .. Len(b) : q[Len(a) + i] = b[i]
      <4>1. a \in Seq(S) /\ b \in Seq(S) BY Zenon, <3>2, <3>3
      <4>2. /\ a \o b \in Seq(S) /\ Len(a \o b) = Len(a) + Len(b) /\ \A i \in 1 .. Len(a) : (a \o b)[i] = a[i]
            /\ \A i \in 1 .. Len(b) : (a \o b)[Len(a) + i] = b[i]
        BY SMT, <4>1, Joined
      <4>3. QED BY Zenon, <3>c, <4>2
    <3>4. Len(q) = Len(p) - 1 BY SMT, <3>d, <3>1, <3>2, <3>3
    <3>5. ASSUME NEW i \in 1 .. Len(q) PROVE q[i] = IF i < k THEN p[i] ELSE p[i + 1]
      <4>1. CASE i < k
        <5>1. i \in 1 .. Len(a) /\ i \in 1 .. k - 1 BY SMT, <3>1, <3>2, <3>4, <4>1
        <5>2. q[i] = a[i] BY Zenon, <3>d, <5>1
        <5>3. QED BY Zenon, <3>2, <4>1, <5>1, <5>2
      <4>2. CASE ~(i < k)
        <5>j. PICK j \in 1 .. Len(b) : Len(a) + j = i /\ k + j = i + 1
          <6>1. i - (k - 1) \in 1 .. Len(b) /\ Len(a) + (i - (k - 1)) = i /\ k + (i - (k - 1)) = i + 1
            BY SMT, <3>1, <3>2, <3>3, <3>4, <4>2
          <6>2. QED BY Zenon, <6>1
        <5>1. q[Len(a) + j] = b[j] BY Zenon, <3>d
        <5>2. j \in 1 .. Len(p) - k BY Zenon, <3>3
        <5>3. b[j] = p[k + j] BY Zenon, <3>3, <5>2
        <5>4. QED BY Zenon, <4>2, <5>j, <5>1, <5>3
      <4>3. QED BY Zenon, <4>1, <4>2
    <3>6. QED BY Zenon, <3>1, <3>d, <3>4, <3>5
  <2>4. Len(q) <= Len(p) BY SMT, <2>3
  <2>5. ASSUME NEW i \in 1 .. Len(p), p[i] # x PROVE p[i] \in Range1(q)
    <3>1. CASE i < k
      <4>1. i \in 1 .. Len(q) BY SMT, <2>1, <2>3, <3>1
      <4>2. q[i] = p[i] BY Zenon, <2>3, <3>1, <4>1
      <4>3. QED BY Zenon, <4>1, <4>2 DEF Range1
    <3>2. CASE ~(i < k)
      <4>1. i # k BY Zenon, <2>1, <2>5
      <4>2. i - 1 \in 1 .. Len(q) /\ ~(i - 1 < k) /\ (i - 1) + 1 = i BY SMT, <2>1, <2>3, <3>2, <4>1
      <4>3. q[i - 1] = p[(i - 1) + 1] BY Zenon, <2>3, <4>2
      <4>4. QED BY Zenon, <4>2, <4>3 DEF Range1
    <3>3. QED BY Zenon, <3>1, <3>2
  <2>6. Range1(p) \ {x} \subseteq Range1(q) BY Zenon, <2>5 DEF Range1
  <2>7. ASSUME Distinct(p) PROVE Distinct(q) /\ Range1(q) \subseteq Range1(p) \ {x}
    <3>1. ASSUME NEW i \in 1 .. Len(q)
          PROVE  \E j \in 1 .. Len(p) : q[i] = p[j] /\ j # k /\ j = IF i < k THEN i ELSE i + 1
      <4>1. i \in 1 .. Len(p) /\ i + 1 \in 1 .. Len(p) /\ (i < k => i # k) /\ (~(i < k) => i + 1 # k)
        BY SMT, <2>1, <2>3
      <4>2. QED BY Zenon, <2>3, <4>1
    <3>2. ASSUME NEW i \in 1 .. Len(q), NEW j \in 1 .. Len(q), q[i] = q[j] PROVE i = j
      <4>1. PICK a \in 1 .. Len(p) : q[i] = p[a] /\ a = IF i < k THEN i ELSE i + 1 BY Zenon, <3>1
      <4>2. PICK b \in 1 .. Len(p) : q[j] = p[b] /\ b = IF j < k THEN j ELSE j + 1 BY Zenon, <3>1
      <4>3. a = b BY Zenon, <2>7, <3>2, <4>1, <4>2 DEF Distinct
      <4>4. QED BY SMT, <2>1, <2>3, <4>1, <4>2, <4>3
    <3>3. ASSUME NEW i \in 1 .. Len(q) PROVE q[i] \in Range1(p) \ {x}
      BY Zenon, <2>1, <2>7, <3>1 DEF Distinct, Range1
    <3>4. Range1(q) \subseteq Range1(p) \ {x} BY Zenon, <3>3 DEF Range1
    <3>5. QED BY Zenon, <3>2, <3>4 DEF Distinct
  <2>8. QED BY Zenon, <2>2, <2>3, <2>4, <2>6, <2>7
<1>3. QED BY Zenon, <1>1, <1>2

-----------------------------------------------------------------------------
(* Assignments to parts of the memory                                      *)

\* The parts of t.
Parts(t, N, Q, B, P, n, L, O, T, C) ==
    /\ t \in Mem /\ t.nc = N /\ t.conn = Q /\ t.bec = B /\ t.pool = P /\ t.num_conns = n
    /\ t.list = L /\ t.owed = O /\ t.told = T /\ t.crashed = C

\* The entries of the tables have their types.
LEMMA Entries ==
    ASSUME NEW s \in Mem
    PROVE  /\ s.nc \in Ncs /\ s.conn \in Conns /\ s.told \in Tolds /\ s.bec \in Becs /\ s.owed \in Owes
           /\ \A x \in Nc : s.nc[x] \in NcType
           /\ \A c \in Client : s.conn[c] \in ConnType /\ s.told[c] \in Said
           /\ \A b \in Back : s.bec[b] \in BecType /\ s.owed[b] \in Client \cup {NULL}
           /\ s.pool \in Seq(Back) /\ s.list \in Seq(Nc) /\ s.num_conns \in Int
<1>1. /\ s.nc \in Ncs /\ s.conn \in Conns /\ s.told \in Tolds /\ s.bec \in Becs /\ s.owed \in Owes
      /\ s.pool \in Pools /\ s.list \in Lists /\ s.num_conns \in Int
  BY Zenon DEF Mem
<1>2. QED BY Zenon, <1>1 DEF Ncs, Conns, Tolds, Becs, Owes, Pools, Lists

\* What of an entry stays.
SameNc(n, k) == k.st = n.st /\ k.handler = n.handler /\ k.ud = n.ud /\ k.part = n.part
SameConn(q, r) ==
    r.mem = q.mem /\ r.client = q.client /\ r.backend = q.backend /\ r.be_conn = q.be_conn /\ r.body_len = q.body_len
SameRest(s, t) == t.pool = s.pool /\ t.num_conns = s.num_conns /\ t.list = s.list /\ t.crashed = s.crashed

\* The flags of one connection have changed.
Marked(s, t, x) ==
    /\ t \in Mem /\ t.conn = s.conn /\ t.bec = s.bec /\ t.owed = s.owed /\ t.told = s.told /\ SameRest(s, t)
    /\ \A y \in Nc \ {x} : t.nc[y] = s.nc[y]
    /\ SameNc(s.nc[x], t.nc[x])

\* flag() does no more, and sets the flag.
LEMMA FlagSet ==
    ASSUME NEW s \in Mem, NEW x \in Nc, NEW f \in Flag
    PROVE  Marked(s, flag(s, x, f), x) /\ flag(s, x, f).nc[x].flags = s.nc[x].flags \cup {f}
<1>1. s.nc \in Ncs /\ s.nc[x] \in NcType BY Zenon, Entries
<1>2. s.nc[x].flags \cup {f} \in SUBSET Flag
  <2>1. s.nc[x].flags \in SUBSET Flag BY Zenon, <1>1 DEF NcType
  <2>2. QED BY SMT, <2>1
<1>r. PICK r : r = [s.nc[x] EXCEPT !.flags = s.nc[x].flags \cup {f}] BY Zenon
<1>3. r \in NcType /\ r.flags = s.nc[x].flags \cup {f} /\ SameNc(s.nc[x], r)
  BY Zenon, <1>1, <1>2, <1>r DEF NcType, SameNc
<1>n. PICK N : N = [s.nc EXCEPT ![x] = r] BY Zenon
<1>4. N \in Ncs /\ N[x] = r /\ \A y \in Nc \ {x} : N[y] = s.nc[y] BY SMT, <1>1, <1>3, <1>n DEF Ncs
<1>5. flag(s, x, f) = [s EXCEPT !.nc = N] BY Zenon, <1>r, <1>n DEF flag
<1>6. Parts([s EXCEPT !.nc = N], N, s.conn, s.bec, s.pool, s.num_conns, s.list, s.owed, s.told, s.crashed)
  BY Zenon, <1>4 DEF Parts, Mem
<1>7. QED BY Zenon, <1>3, <1>4, <1>5, <1>6 DEF Parts, Marked, SameRest

\* respond_with_error(): a client that has not been sent headers is told; a
\* client that is there is marked to be closed.
Errs(s, t, c) ==
    /\ t \in Mem /\ t.bec = s.bec /\ t.owed = s.owed /\ SameRest(s, t)
    /\ \A y \in Nc \ {c} : t.nc[y] = s.nc[y]
    /\ \A d \in Client \ {c} : t.conn[d] = s.conn[d] /\ t.told[d] = s.told[d]
    /\ SameNc(s.nc[c], t.nc[c]) /\ SameConn(s.conn[c], t.conn[c]) /\ t.conn[c].keep_alive = s.conn[c].keep_alive
    /\ IF s.conn[c].client /\ ~s.conn[c].headers THEN t.told[c] = "close"
       ELSE t.told[c] = s.told[c] /\ t.conn[c].headers = s.conn[c].headers
    /\ ~s.conn[c].client => t.nc[c] = s.nc[c] /\ t.conn[c] = s.conn[c]

\* respond_with_error() marks the client, and tells it unless something was sent.
LEMMA Responds ==
    ASSUME NEW s \in Mem, NEW c \in Client
    PROVE  Errs(s, respond_with_error(s, c), c)
<1>0. c \in Nc /\ "SEND_AND_CLOSE" \in Flag BY Zenon DEF Nc, Flag
<1>1. CASE ~s.conn[c].client
  <2>1. respond_with_error(s, c) = s BY Zenon, <1>1 DEF respond_with_error
  <2>2. QED BY Zenon, <1>1, <2>1 DEF Errs, SameRest, SameNc, SameConn
<1>2. CASE s.conn[c].client /\ s.conn[c].headers
  <2>1. respond_with_error(s, c) = flag(s, c, "SEND_AND_CLOSE") BY Zenon, <1>2 DEF respond_with_error
  <2>2. Marked(s, flag(s, c, "SEND_AND_CLOSE"), c) BY Zenon, <1>0, FlagSet
  <2>3. QED BY Zenon, <1>2, <2>1, <2>2 DEF Marked, Errs, SameConn
<1>3. CASE s.conn[c].client /\ ~s.conn[c].headers
  <2>1. s.conn \in Conns /\ s.told \in Tolds /\ s.conn[c] \in ConnType /\ "close" \in Said BY Zenon, Entries DEF Said
  <2>r. PICK r : r = [s.conn[c] EXCEPT !.headers = TRUE] BY Zenon
  <2>2. r \in ConnType /\ SameConn(s.conn[c], r) /\ r.keep_alive = s.conn[c].keep_alive
    BY Zenon, <2>1, <2>r DEF ConnType, SameConn
  <2>q. PICK Q : Q = [s.conn EXCEPT ![c] = r] BY Zenon
  <2>3. Q \in Conns /\ Q[c] = r /\ \A d \in Client \ {c} : Q[d] = s.conn[d] BY SMT, <2>1, <2>2, <2>q DEF Conns
  <2>w. PICK T : T = [s.told EXCEPT ![c] = "close"] BY Zenon
  <2>4. T \in Tolds /\ T[c] = "close" /\ \A d \in Client \ {c} : T[d] = s.told[d] BY SMT, <2>1, <2>w DEF Tolds
  <2>u. PICK u : u = [s EXCEPT !.told = T, !.conn = Q] BY Zenon
  <2>5. Parts([s EXCEPT !.told = T, !.conn = Q], s.nc, Q, s.bec, s.pool, s.num_conns, s.list, s.owed, T, s.crashed)
    BY Zenon, <2>3, <2>4 DEF Parts, Mem
  <2>6. Parts(u, s.nc, Q, s.bec, s.pool, s.num_conns, s.list, s.owed, T, s.crashed) BY Zenon, <2>u, <2>5
  <2>7. respond_with_error(s, c) = flag(u, c, "SEND_AND_CLOSE")
    BY Zenon, <1>3, <2>r, <2>q, <2>w, <2>u DEF respond_with_error
  <2>t. PICK t : t = flag(u, c, "SEND_AND_CLOSE") BY Zenon
  <2>8. Marked(u, t, c) BY Zenon, <1>0, <2>6, <2>t, FlagSet DEF Parts
  <2>9. u.nc = s.nc /\ u.conn = Q /\ u.told = T /\ u.bec = s.bec /\ u.owed = s.owed /\ SameRest(s, u)
    BY Zenon, <2>6 DEF Parts, SameRest
  <2>10. t \in Mem /\ t.conn = Q /\ t.told = T /\ t.bec = s.bec /\ t.owed = s.owed /\ SameRest(s, t)
         /\ SameNc(s.nc[c], t.nc[c]) /\ \A y \in Nc \ {c} : t.nc[y] = s.nc[y]
    BY Zenon, <2>8, <2>9 DEF Marked, SameRest
  <2>11. QED BY Zenon, <1>3, <2>2, <2>3, <2>4, <2>7, <2>t, <2>10 DEF Errs
<1>4. QED BY Zenon, <1>1, <1>2, <1>3


-----------------------------------------------------------------------------
(* What a step that touches one client and one backend connection keeps     *)

\* The step touches only client c and backend connection b (or none, NULL).
Apart(s, t, c, b) ==
    /\ \A y \in Nc \ {c, b} : t.nc[y] = s.nc[y]
    /\ \A d \in Client \ {c} : t.conn[d] = s.conn[d] /\ t.told[d] = s.told[d]
    /\ \A d \in Back \ {b} : t.bec[d] = s.bec[d] /\ t.owed[d] = s.owed[d]

\* b is not the connection of a client other than c.
NoOthers(s, c, b) == s.nc[b].st = "free" \/ s.nc[b].handler = "idle" \/ s.nc[b].ud = c

\* The other backend connections.
LEMMA BackKept ==
    ASSUME NEW s, NEW t, NEW c \in Client \cup {NULL}, NEW b, NEW d \in Back \ {b}, NEW D, NEW E,
           Apart(s, t, c, b), d \in D <=> d \in E,
           c \in Client /\ Serves(s, d, c) => Serves(t, d, c), Backs(s, D, d)
    PROVE  Backs(t, E, d)
<1>1. d \in Nc \ {c, b} /\ d \in Back \ {b} BY Zenon, LBAssumption DEF Nc
<1>2. t.nc[d] = s.nc[d] /\ t.bec[d] = s.bec[d] /\ t.owed[d] = s.owed[d] BY Zenon, <1>1 DEF Apart
<1>3. CASE d \in D BY Zenon, <1>2, <1>3 DEF Backs, Failed
<1>4. CASE d \notin D /\ s.nc[d].st = "free" BY Zenon, <1>2, <1>4 DEF Backs
<1>5. CASE d \notin D /\ s.nc[d].st # "free" /\ Rests(s, d) BY Zenon, <1>2, <1>5 DEF Backs, Rests
<1>6. CASE d \notin D /\ s.nc[d].st # "free" /\ \E e \in Client : Serves(s, d, e)
  <2>1. PICK e \in Client : Serves(s, d, e) BY Zenon, <1>6
  <2>2. CASE e = c BY Zenon, <1>2, <1>6, <2>1, <2>2 DEF Backs
  <2>3. CASE e # c
    <3>1. t.conn[e] = s.conn[e] BY Zenon, <2>3 DEF Apart
    <3>2. Serves(t, d, e) BY Zenon, <1>2, <2>1, <3>1 DEF Serves
    <3>3. QED BY Zenon, <1>2, <1>6, <3>2 DEF Backs
  <2>4. QED BY Zenon, <2>2, <2>3
<1>7. QED BY Zenon, <1>3, <1>4, <1>5, <1>6 DEF Backs

\* The other clients.
LEMMA ClientKept ==
    ASSUME NEW s \in Mem, NEW t, NEW c \in Client \cup {NULL}, NEW b \in Back \cup {NULL}, NEW e \in Client \ {c}, NEW D, NEW E,
           Apart(s, t, c, b), \A d \in Back : d # b => (d \in D <=> d \in E),
           b \in Back => NoOthers(s, c, b), Clients(s, D, e)
    PROVE  Clients(t, E, e)
<1>1. e \in Nc \ {c, b} BY Zenon, LBAssumption DEF Nc
<1>2. t.nc[e] = s.nc[e] /\ t.conn[e] = s.conn[e] BY Zenon, <1>1 DEF Apart
<1>3. CASE s.nc[e].st = "free" BY Zenon, <1>2, <1>3 DEF Clients
<1>4. CASE s.nc[e].st # "free"
  <2>1. SUFFICES ASSUME s.conn[e].backend # NULL
                 PROVE  LET d == s.conn[e].backend IN
                        d \notin E /\ t.nc[d].st # "free" /\ t.nc[d].handler = "ev" /\ t.nc[d].ud = e
    BY Zenon, <1>2, <1>4 DEF Clients
  <2>d. PICK d : d = s.conn[e].backend BY Zenon
  <2>2. d \in Back
    <3>1. s.conn[e] \in ConnType BY Zenon, Entries
    <3>2. QED BY Zenon, <2>1, <2>d, <3>1 DEF ConnType
  <2>3. d \notin D /\ s.nc[d].st # "free" /\ s.nc[d].handler = "ev" /\ s.nc[d].ud = e
    BY Zenon, <1>4, <2>1, <2>d DEF Clients
  <2>4. d # b BY Zenon, <2>2, <2>3 DEF NoOthers
  <2>5. t.nc[d] = s.nc[d] BY Zenon, <2>2, <2>4, LBAssumption DEF Apart, Nc
  <2>6. QED BY Zenon, <2>2, <2>3, <2>4, <2>5, <2>d
<1>5. QED BY Zenon, <1>3, <1>4

\* A client and its backend connection.
LEMMA ClientHas ==
    ASSUME NEW t, NEW D, NEW c, NEW b, t.nc[c].st = "open", t.nc[c].handler = "ev", t.conn[c].client, t.conn[c].mem,
           t.conn[c].backend = b, b \notin D, t.nc[b].st # "free", t.nc[b].handler = "ev", t.nc[b].ud = c
    PROVE  Clients(t, D, c)
BY SMT DEF Clients

\* The pool, when the same connections are idle.
LEMMA PoolKept ==
    ASSUME NEW s, NEW t, Pool(s), t.pool = s.pool, t.num_conns = s.num_conns,
           \A d \in Back : InPool(t, d) <=> InPool(s, d)
    PROVE  Pool(t)
<1>1. {d \in Back : InPool(t, d)} = {d \in Back : InPool(s, d)} BY Zenon
<1>2. QED BY Zenon, <1>1 DEF Pool


\* Of client c only what does not tie it to its backend connection changes.
Soft(s, t, c) ==
    /\ t \in Mem /\ t.bec = s.bec /\ t.owed = s.owed /\ SameRest(s, t)
    /\ \A y \in Nc \ {c} : t.nc[y] = s.nc[y]
    /\ \A d \in Client \ {c} : t.conn[d] = s.conn[d] /\ t.told[d] = s.told[d]
    /\ t.nc[c].st = s.nc[c].st /\ t.nc[c].handler = s.nc[c].handler /\ t.nc[c].ud = s.nc[c].ud
    /\ SameConn(s.conn[c], t.conn[c])
    /\ ~s.conn[c].client => t.nc[c] = s.nc[c] /\ t.conn[c] = s.conn[c]

\* Such a step keeps everything sane.
LEMMA SoftSane ==
    ASSUME NEW s \in Mem, NEW t, NEW c \in Client, NEW D, NEW x, Soft(s, t, c), Sane(s, D, x)
    PROVE  Sane(t, D, x)
<1>1. Apart(s, t, c, NULL) BY Zenon DEF Soft, Apart
<1>2. \A d \in Back : t.nc[d] = s.nc[d] /\ t.bec[d] = s.bec[d] /\ t.owed[d] = s.owed[d]
  BY Zenon, LBAssumption DEF Soft, Nc
<1>3. /\ t.nc[c].st = s.nc[c].st /\ t.nc[c].handler = s.nc[c].handler /\ t.nc[c].ud = s.nc[c].ud
      /\ SameConn(s.conn[c], t.conn[c])
  BY Zenon DEF Soft
<1>4. ASSUME NEW d \in Back \ {x} PROVE Backs(t, D, d)
  <2>1. Serves(s, d, c) => Serves(t, d, c) BY Zenon, <1>2, <1>3 DEF Serves, SameConn
  <2>2. d \in Back \ {NULL} BY Zenon, LBAssumption
  <2>3. Backs(s, D, d) BY Zenon DEF Sane
  <2>4. QED BY Zenon, <1>1, <2>1, <2>2, <2>3, BackKept
<1>5. ASSUME NEW e \in Client \ {x} PROVE Clients(t, D, e)
  <2>0. Clients(s, D, e) BY Zenon DEF Sane
  <2>1. CASE e # c
    <3>1. NULL \in Back \cup {NULL} /\ (NULL \in Back => NoOthers(s, c, NULL)) BY Zenon, LBAssumption
    <3>2. QED BY Zenon, <1>1, <2>0, <2>1, <3>1, ClientKept
  <2>2. CASE e = c
    <3>1. CASE s.nc[c].st = "free"
      <4>1. ~s.conn[c].client BY Zenon, <2>0, <2>2, <3>1 DEF Clients
      <4>2. t.nc[c] = s.nc[c] /\ t.conn[c] = s.conn[c] BY Zenon, <4>1 DEF Soft
      <4>3. QED BY Zenon, <2>0, <2>2, <3>1, <4>2 DEF Clients
    <3>2. CASE s.nc[c].st # "free"
      <4>1. s.conn[c].backend # NULL => s.conn[c].backend \in Back
        <5>1. s.conn[c] \in ConnType BY Zenon, Entries
        <5>2. QED BY Zenon, <5>1 DEF ConnType
      <4>2. QED BY SMT, <1>2, <1>3, <2>0, <2>2, <3>2, <4>1 DEF Clients, SameConn
    <3>3. QED BY Zenon, <3>1, <3>2
  <2>3. QED BY Zenon, <2>1, <2>2
<1>6. Pool(t)
  <2>1. \A d \in Back : InPool(t, d) <=> InPool(s, d) BY Zenon, <1>2 DEF InPool
  <2>2. t.pool = s.pool /\ t.num_conns = s.num_conns BY Zenon DEF Soft, SameRest
  <2>3. Pool(s) BY Zenon DEF Sane
  <2>4. QED BY Zenon, <2>1, <2>2, <2>3, PoolKept
<1>7. Listed(t)
  <2>1. \A y \in Nc : t.nc[y].st = s.nc[y].st BY Zenon DEF Soft
  <2>2. t.list = s.list BY Zenon DEF Soft, SameRest
  <2>3. QED BY Zenon, <2>1, <2>2 DEF Sane, Listed
<1>8. QED BY Zenon, <1>4, <1>5, <1>6, <1>7 DEF Sane

\* A connection is marked to be closed, or has read a part of a message; a
\* backend connection that is still connecting is marked only once its client
\* has gone.
Alike(n, k) == k.st = n.st /\ k.handler = n.handler /\ k.ud = n.ud

Nudged(s, t, x) ==
    /\ t \in Mem /\ t.conn = s.conn /\ t.bec = s.bec /\ t.owed = s.owed /\ t.told = s.told /\ SameRest(s, t)
    /\ \A y \in Nc \ {x} : t.nc[y] = s.nc[y]
    /\ Alike(s.nc[x], t.nc[x]) /\ s.nc[x].flags \subseteq t.nc[x].flags

\* A flag or a part of a message changes nothing in the structure, unless it marks a
\* connecting connection whose client is there.
LEMMA NudgeSane ==
    ASSUME NEW s \in Mem, NEW t, NEW x \in Nc, NEW D, NEW z, Sane(s, D, z), x # z,
           s.nc[x].st # "free", Nudged(s, t, x),
           x \in Back => x \in D \/ s.nc[x].st = "open" \/ ~s.conn[s.nc[x].ud].client
    PROVE  Sane(t, D, z)
<1>1. s.nc[x].flags \subseteq t.nc[x].flags BY Zenon DEF Nudged
<1>2. /\ \A y \in Nc : Alike(s.nc[y], t.nc[y])
      /\ \A y \in Nc \ {x} : t.nc[y] = s.nc[y]
      /\ t.conn = s.conn /\ t.bec = s.bec /\ t.owed = s.owed
  BY Zenon DEF Nudged, Alike
<1>3. \A d \in Back : d \in Nc BY Zenon DEF Nc
<1>4. ASSUME NEW d \in Back \ {z} PROVE Backs(t, D, d)
  <2>0. Backs(s, D, d) /\ Alike(s.nc[d], t.nc[d]) BY Zenon, <1>2, <1>3 DEF Sane
  <2>1. CASE d # x
    <3>1. t.nc[d] = s.nc[d] BY Zenon, <1>2, <1>3, <2>1
    <3>2. QED BY Zenon, <1>2, <2>0, <3>1 DEF Backs, Failed, Rests, Serves
  <2>2. CASE d = x /\ d \in D BY Zenon, <1>1, <1>2, <2>0, <2>2 DEF Backs, Failed, Alike
  <2>3. CASE d = x /\ d \notin D
    <3>1. CASE Rests(s, d) BY Zenon, <1>2, <2>0, <2>3, <3>1 DEF Backs, Rests, Alike
    <3>2. ASSUME NEW e \in Client, Serves(s, d, e) PROVE Backs(t, D, d)
      <4>1. t.nc[d].st = "connecting" => ~s.conn[e].client BY Zenon, <2>0, <2>3, <3>2 DEF Serves, Alike
      <4>2. Serves(t, d, e) BY Zenon, <1>2, <2>0, <3>2, <4>1 DEF Serves, Alike
      <4>3. QED BY Zenon, <2>0, <2>3, <4>2 DEF Backs, Alike
    <3>3. QED BY Zenon, <2>0, <2>3, <3>1, <3>2 DEF Backs
  <2>4. QED BY Zenon, <2>1, <2>2, <2>3
<1>5. ASSUME NEW e \in Client \ {z} PROVE Clients(t, D, e)
  <2>0. Clients(s, D, e) /\ Alike(s.nc[e], t.nc[e]) /\ e \in Nc BY Zenon, <1>2 DEF Sane, Nc
  <2>1. CASE s.nc[e].st = "free"
    <3>1. t.nc[e] = s.nc[e] BY Zenon, <1>2, <2>0, <2>1
    <3>2. QED BY Zenon, <1>2, <2>0, <2>1, <3>1 DEF Clients
  <2>2. CASE s.nc[e].st # "free"
    <3>1. s.conn[e].backend # NULL => s.conn[e].backend \in Back
      <4>1. s.conn[e] \in ConnType BY Zenon, Entries
      <4>2. QED BY Zenon, <4>1 DEF ConnType
    <3>2. \A d \in Back : Alike(s.nc[d], t.nc[d]) BY Zenon, <1>2, <1>3
    <3>3. QED BY SMT, <1>2, <2>0, <2>2, <3>1, <3>2 DEF Clients, Alike
  <2>3. QED BY Zenon, <2>1, <2>2
<1>6. Pool(t)
  <2>1. \A d \in Back : InPool(t, d) <=> InPool(s, d) BY Zenon, <1>2, <1>3 DEF InPool, Alike
  <2>2. t.pool = s.pool /\ t.num_conns = s.num_conns BY Zenon DEF Nudged, SameRest
  <2>3. Pool(s) BY Zenon DEF Sane
  <2>4. QED BY Zenon, <2>1, <2>2, <2>3, PoolKept
<1>7. Listed(t)
  <2>1. \A y \in Nc : t.nc[y].st = s.nc[y].st BY Zenon, <1>2 DEF Alike
  <2>2. t.list = s.list BY Zenon DEF Nudged, SameRest
  <2>3. QED BY Zenon, <2>1, <2>2 DEF Sane, Listed
<1>8. QED BY Zenon, <1>4, <1>5, <1>6, <1>7 DEF Sane

\* The same of flag().
LEMMA FlagSane ==
    ASSUME NEW s \in Mem, NEW x \in Nc, NEW f \in Flag, NEW D, NEW z, Sane(s, D, z), x # z,
           s.nc[x].st # "free",
           x \in Back => x \in D \/ s.nc[x].st = "open" \/ ~s.conn[s.nc[x].ud].client
    PROVE  Sane(flag(s, x, f), D, z)
<1>1. Marked(s, flag(s, x, f), x) /\ flag(s, x, f).nc[x].flags = s.nc[x].flags \cup {f} BY Zenon, FlagSet
<1>2. Nudged(s, flag(s, x, f), x) BY Zenon, <1>1 DEF Marked, Nudged, SameNc, Alike
<1>3. QED BY Zenon, <1>2, NudgeSane

\* The step touches only c and b, and b is not the connection of another client;
\* D and E differ at most in b.
Only(s, t, c, b, D, E) ==
    /\ Apart(s, t, c, b) /\ (b \in Back => NoOthers(s, c, b))
    /\ \A d \in Back : d # b => (d \in D <=> d \in E)
    /\ \A d \in Back \ {b} : c \in Client /\ Serves(s, d, c) => Serves(t, d, c)

\* What is left to show of it.
Settled(t, c, b, E, z) ==
    /\ b \in Back \ {z} => Backs(t, E, b)
    /\ c \in Client \ {z} => Clients(t, E, c)
    /\ Pool(t) /\ Listed(t)

\* What a step leaves alone stays sane.
LEMMA Touch ==
    ASSUME NEW s \in Mem, NEW t, NEW c \in Client \cup {NULL}, NEW b \in Back \cup {NULL}, NEW D, NEW E,
           NEW x, NEW z, x \in {NULL, z, b, c},
           Only(s, t, c, b, D, E), Sane(s, D, x), Settled(t, c, b, E, z)
    PROVE  Sane(t, E, z)
<1>0. /\ Apart(s, t, c, b) /\ (b \in Back => NoOthers(s, c, b))
      /\ \A d \in Back : d # b => (d \in D <=> d \in E)
      /\ \A d \in Back \ {b} : c \in Client /\ Serves(s, d, c) => Serves(t, d, c)
  BY Zenon DEF Only
<1>1. ASSUME NEW d \in Back \ {z} PROVE Backs(t, E, d)
  <2>1. CASE d = b BY Zenon, <2>1 DEF Settled
  <2>2. CASE d # b
    <3>1. d # x BY Zenon, <2>2, LBAssumption
    <3>2. Backs(s, D, d) BY Zenon, <3>1 DEF Sane
    <3>3. QED BY Zenon, <1>0, <2>2, <3>2, BackKept
  <2>3. QED BY Zenon, <2>1, <2>2
<1>2. ASSUME NEW e \in Client \ {z} PROVE Clients(t, E, e)
  <2>1. CASE e = c BY Zenon, <2>1 DEF Settled
  <2>2. CASE e # c
    <3>1. e # x BY Zenon, <2>2, LBAssumption
    <3>2. Clients(s, D, e) BY Zenon, <3>1 DEF Sane
    <3>3. QED BY Zenon, <1>0, <2>2, <3>2, ClientKept
  <2>3. QED BY Zenon, <2>1, <2>2
<1>3. QED BY Zenon, <1>1, <1>2 DEF Sane, Settled

\* The step leaves all clients alone.
Calm(s, t) ==
    /\ t.conn = s.conn /\ t.told = s.told /\ t.crashed = s.crashed /\ t.list = s.list
    /\ \A c \in Client : t.nc[c] = s.nc[c]
    /\ \A y \in Nc : SameNc(s.nc[y], t.nc[y])

\* evict() takes the oldest connection out of a pool that has grown too large.
LEMMA EvictSane ==
    ASSUME NEW s \in Mem, NEW D, Sane(s, D, NULL), s.pool # <<>>, s.num_conns <= MaxIdle + 1
    PROVE  /\ evict(s) \in Mem /\ Sane(evict(s), D, NULL) /\ Calm(s, evict(s))
           /\ evict(s).num_conns <= MaxIdle
<1>0. s.num_conns \in Int /\ MaxIdle \in Nat /\ s.pool \in Seq(Back) BY Zenon, Entries, LBAssumption
<1>1. CASE s.num_conns <= MaxIdle
  <2>1. evict(s) = s BY Zenon, <1>1 DEF evict
  <2>2. QED BY Zenon, <1>1, <2>1 DEF Calm, SameNc
<1>2. CASE ~(s.num_conns <= MaxIdle)
  <2>p. PICK P : P = Tail(s.pool) BY Zenon
  <2>b. PICK b : b = Head(s.pool) BY Zenon
  <2>1. Pool(s) /\ Distinct(s.pool) BY Zenon DEF Sane, Pool
  <2>2. /\ b \in Back /\ b \in Range1(s.pool) /\ P \in Seq(Back) /\ Len(P) = Len(s.pool) - 1
        /\ Distinct(P) /\ Range1(P) = Range1(s.pool) \ {b}
    BY SMT, <1>0, <2>1, <2>p, <2>b, FirstOff
  <2>3. InPool(s, b) BY Zenon, <2>1, <2>2 DEF Pool
  <2>4. b \in Nc /\ b \notin Client /\ b # NULL BY Zenon, <2>2, LBAssumption DEF Nc
  <2>5. s.nc \in Ncs /\ s.nc[b] \in NcType /\ s.bec \in Becs /\ s.bec[b] \in BecType BY Zenon, <2>2, <2>4, Entries
  <2>r. PICK r : r = [s.nc[b] EXCEPT !.flags = {"CLOSE_IMMEDIATELY"}] BY Zenon
  <2>6. r \in NcType /\ SameNc(s.nc[b], r) BY Zenon, <2>5, <2>r DEF NcType, SameNc, Flag
  <2>k. PICK k : k = [s.bec[b] EXCEPT !.idle = FALSE] BY Zenon
  <2>7. k \in BecType /\ k.mem = s.bec[b].mem /\ k.nc = s.bec[b].nc /\ ~k.idle BY Zenon, <2>5, <2>k DEF BecType
  <2>n. PICK N : N = [s.nc EXCEPT ![b] = r] BY Zenon
  <2>8. N \in Ncs /\ N[b] = r /\ \A y \in Nc \ {b} : N[y] = s.nc[y] BY SMT, <2>4, <2>5, <2>6, <2>n DEF Ncs
  <2>q. PICK B : B = [s.bec EXCEPT ![b] = k] BY Zenon
  <2>9. B \in Becs /\ B[b] = k /\ \A d \in Back \ {b} : B[d] = s.bec[d] BY SMT, <2>2, <2>5, <2>7, <2>q DEF Becs
  <2>w. PICK n : n = s.num_conns - 1 BY Zenon
  <2>10. n \in Int /\ n <= MaxIdle /\ Len(P) <= n
    <3>1. Len(s.pool) <= s.num_conns /\ Len(s.pool) \in Nat BY SMT, <1>0, <2>1 DEF Pool
    <3>2. QED BY SMT, <1>0, <2>2, <2>w, <3>1
  <2>t. PICK t : t = [s EXCEPT !.pool = P, !.num_conns = n, !.bec = B, !.nc = N] BY Zenon
  <2>11. evict(s) = t BY Zenon, <1>2, <2>p, <2>b, <2>r, <2>k, <2>n, <2>q, <2>w, <2>t DEF evict
  <2>12. Parts([s EXCEPT !.pool = P, !.num_conns = n, !.bec = B, !.nc = N],
               N, s.conn, B, P, n, s.list, s.owed, s.told, s.crashed)
    BY Zenon, <2>2, <2>8, <2>9, <2>10 DEF Parts, Mem, Pools
  <2>13. Parts(t, N, s.conn, B, P, n, s.list, s.owed, s.told, s.crashed) BY Zenon, <2>t, <2>12
  <2>14. /\ t \in Mem /\ t.nc = N /\ t.conn = s.conn /\ t.bec = B /\ t.pool = P /\ t.num_conns = n
         /\ t.list = s.list /\ t.owed = s.owed /\ t.told = s.told /\ t.crashed = s.crashed
    BY Zenon, <2>13 DEF Parts
  <2>15. \A y \in Nc : SameNc(s.nc[y], t.nc[y]) BY Zenon, <2>6, <2>8, <2>14 DEF SameNc
  <2>16. Calm(s, t) BY Zenon, <2>4, <2>8, <2>14, <2>15 DEF Calm, Nc
  <2>17. Apart(s, t, NULL, b) BY Zenon, <2>8, <2>9, <2>14 DEF Apart
  <2>18. NoOthers(s, NULL, b) BY Zenon, <2>3 DEF NoOthers, InPool
  <2>19. Backs(t, D, b)
    <3>1. Backs(s, D, b) BY Zenon, <2>2, <2>4 DEF Sane
    <3>2. b \notin D /\ Rests(s, b) BY Zenon, <2>3, <3>1 DEF Backs, InPool, Failed, Rests, Serves
    <3>3. Rests(t, b) BY Zenon, <2>4, <2>7, <2>9, <2>14, <2>15, <3>2 DEF Rests, SameNc
    <3>4. QED BY Zenon, <3>2, <3>3 DEF Backs, Rests
  <2>20. Pool(t)
    <3>1. ASSUME NEW d \in Back PROVE InPool(t, d) <=> InPool(s, d) /\ d # b
      BY Zenon, <2>7, <2>8, <2>9, <2>14 DEF InPool, Nc
    <3>2. {d \in Back : InPool(t, d)} = {d \in Back : InPool(s, d)} \ {b} BY Zenon, <3>1
    <3>3. QED BY Zenon, <2>1, <2>2, <2>10, <2>14, <3>2 DEF Pool
  <2>21. Listed(t) BY Zenon, <2>14, <2>15 DEF Listed, Sane, SameNc
  <2>a. Only(s, t, NULL, b, D, D) BY Zenon, <2>17, <2>18, LBAssumption DEF Only
  <2>b1. Settled(t, NULL, b, D, NULL) BY Zenon, <2>19, <2>20, <2>21, LBAssumption DEF Settled
  <2>22. Sane(t, D, NULL) BY Zenon, <2>2, <2>a, <2>b1, Touch
  <2>23. QED BY Zenon, <2>10, <2>11, <2>14, <2>16, <2>22
<1>3. QED BY Zenon, <1>1, <1>2


-----------------------------------------------------------------------------
(* NS_HTTP_REQUEST                                                         *)

\* Client c is tied to connection b: what use() of connect_backend() does.
Tied(s, t, c, b) ==
    /\ t \in Mem /\ t.bec = s.bec /\ t.told = s.told /\ SameRest(s, t)
    /\ \A y \in Nc \ {b} : t.nc[y] = s.nc[y]
    /\ t.nc[b].st = s.nc[b].st /\ t.nc[b].flags = s.nc[b].flags
    /\ t.nc[b].ud = c /\ t.nc[b].handler = "ev"
    /\ \A d \in Client \ {c} : t.conn[d] = s.conn[d]
    /\ t.conn[c].mem = s.conn[c].mem /\ t.conn[c].client = s.conn[c].client
    /\ t.conn[c].body_len = s.conn[c].body_len /\ t.conn[c].headers = s.conn[c].headers
    /\ t.conn[c].backend = b /\ t.conn[c].be_conn = b
    /\ t.owed[b] = c /\ \A d \in Back \ {b} : t.owed[d] = s.owed[d]

\* The assignments of connect_backend() do that.
LEMMA Uses ==
    ASSUME NEW s \in Mem, NEW c \in Client, NEW b \in Back, NEW t,
           t = [s EXCEPT !.conn[c] = [@ EXCEPT !.be_conn = b, !.backend = b],
                         !.nc[b] = [@ EXCEPT !.ud = c, !.handler = "ev"], !.owed[b] = c]
    PROVE  Tied(s, t, c, b)
<1>0. b \in Nc BY Zenon DEF Nc
<1>1. /\ s.nc \in Ncs /\ s.nc[b] \in NcType /\ s.conn \in Conns /\ s.conn[c] \in ConnType /\ s.owed \in Owes
  BY Zenon, <1>0, Entries
<1>r. PICK r : r = [s.nc[b] EXCEPT !.ud = c, !.handler = "ev"] BY Zenon
<1>2. /\ r \in NcType /\ r.st = s.nc[b].st /\ r.flags = s.nc[b].flags /\ r.ud = c /\ r.handler = "ev"
  BY Zenon, <1>1, <1>r DEF NcType
<1>k. PICK k : k = [s.conn[c] EXCEPT !.be_conn = b, !.backend = b] BY Zenon
<1>3. /\ k \in ConnType /\ k.mem = s.conn[c].mem /\ k.client = s.conn[c].client /\ k.body_len = s.conn[c].body_len
      /\ k.headers = s.conn[c].headers /\ k.backend = b /\ k.be_conn = b
  BY Zenon, <1>1, <1>k DEF ConnType
<1>n. PICK N : N = [s.nc EXCEPT ![b] = r] BY Zenon
<1>4. N \in Ncs /\ N[b] = r /\ \A y \in Nc \ {b} : N[y] = s.nc[y] BY SMT, <1>0, <1>1, <1>2, <1>n DEF Ncs
<1>q. PICK Q : Q = [s.conn EXCEPT ![c] = k] BY Zenon
<1>5. Q \in Conns /\ Q[c] = k /\ \A d \in Client \ {c} : Q[d] = s.conn[d] BY SMT, <1>1, <1>3, <1>q DEF Conns
<1>w. PICK O : O = [s.owed EXCEPT ![b] = c] BY Zenon
<1>6. O \in Owes /\ O[b] = c /\ \A d \in Back \ {b} : O[d] = s.owed[d] BY SMT, <1>1, <1>w DEF Owes
<1>7. Parts([s EXCEPT !.conn = Q, !.nc = N, !.owed = O],
            N, Q, s.bec, s.pool, s.num_conns, s.list, O, s.told, s.crashed)
  BY Zenon, <1>4, <1>5, <1>6 DEF Parts, Mem
<1>8. t = [s EXCEPT !.conn = Q, !.nc = N, !.owed = O] BY Zenon, <1>r, <1>k, <1>n, <1>q, <1>w
<1>9. /\ t \in Mem /\ t.nc = N /\ t.conn = Q /\ t.owed = O /\ t.bec = s.bec /\ t.told = s.told /\ SameRest(s, t)
  BY Zenon, <1>7, <1>8 DEF Parts, SameRest
<1>10. QED BY Zenon, <1>2, <1>3, <1>4, <1>5, <1>6, <1>9 DEF Tied

\* A connection b nobody uses has been taken from the pool, or made.
Taken(s, u, b) ==
    /\ Apart(s, u, NULL, b) /\ u.conn = s.conn /\ u.told = s.told
    /\ u.nc[b].st # "free" /\ (u.nc[b].st = "connecting" => u.nc[b].flags = {})
    /\ u.bec[b].mem /\ u.bec[b].nc /\ Len(u.pool) <= u.num_conns /\ Distinct(u.pool)
    /\ Range1(u.pool) = Range1(s.pool) \ {b} /\ Range1(s.list) \cup {b} \subseteq Range1(u.list)

\* A client without a backend connection gets it.
LEMMA TiedSane ==
    ASSUME NEW s \in Mem, NEW u, NEW t, NEW c \in Client, NEW b \in Back, NEW D, Sane(s, D, NULL),
           s.nc[c].st = "open", s.conn[c].be_conn = NULL, b \notin D, NoOthers(s, c, b),
           Taken(s, u, b), Tied(u, t, c, b)
    PROVE  Sane(t, D, NULL)
<1>0. b \in Nc /\ c \in Nc /\ b # NULL /\ c # NULL /\ b # c BY Zenon, LBAssumption DEF Nc
<1>a. \A y \in Nc \ {b} : t.nc[y] = s.nc[y]
  <2>1. ASSUME NEW y \in Nc \ {b} PROVE t.nc[y] = s.nc[y]
    <3>1. y \in Nc \ {NULL, b} BY Zenon, LBAssumption DEF Nc
    <3>2. u.nc[y] = s.nc[y] BY Zenon, <3>1 DEF Apart, Taken
    <3>3. QED BY Zenon, <3>2 DEF Tied
  <2>2. QED BY Zenon, <2>1
<1>1. Apart(s, t, c, b)
  <2>0. u.conn = s.conn /\ u.told = s.told BY Zenon DEF Taken
  <2>1. \A d \in Client \ {c} : t.conn[d] = s.conn[d] /\ t.told[d] = s.told[d] BY Zenon, <2>0 DEF Tied
  <2>a. \A d \in Back \ {b} : u.bec[d] = s.bec[d] /\ u.owed[d] = s.owed[d] BY Zenon DEF Taken, Apart
  <2>2. \A d \in Back \ {b} : t.bec[d] = s.bec[d] /\ t.owed[d] = s.owed[d] BY Zenon, <2>a DEF Tied
  <2>3. QED BY Zenon, <1>a, <2>1, <2>2 DEF Apart
<1>2. \A d \in Back : ~Serves(s, d, c) BY Zenon, LBAssumption DEF Serves
<1>3. Serves(t, b, c)
  <2>1. s.conn[c].mem BY Zenon, <1>0 DEF Sane, Clients
  <2>2. QED BY Zenon, <2>1 DEF Tied, Serves, Taken
<1>4. t.nc[b].st # "free" BY Zenon DEF Tied, Taken
<1>5. Backs(t, D, b) BY Zenon, <1>3, <1>4 DEF Backs
<1>6. Clients(t, D, c)
  <2>1. t.nc[c] = s.nc[c] BY Zenon, <1>0, <1>a
  <2>2. s.nc[c].handler = "ev" /\ s.conn[c].client /\ s.conn[c].mem BY Zenon, <1>0 DEF Sane, Clients
  <2>3. t.conn[c].client /\ t.conn[c].mem /\ t.conn[c].backend = b BY Zenon, <2>2 DEF Tied, Taken
  <2>4. t.nc[b].handler = "ev" /\ t.nc[b].ud = c BY Zenon DEF Tied
  <2>5. QED BY SMT, <1>4, <2>1, <2>2, <2>3, <2>4, ClientHas
<1>7. Pool(t)
  <2>1. ASSUME NEW d \in Back PROVE InPool(t, d) <=> InPool(s, d) /\ d # b
    <3>1. CASE d = b BY Zenon, <3>1 DEF Tied, InPool
    <3>2. CASE d # b
      <4>1. d \in Nc \ {c, b} /\ d \in Back \ {b} BY Zenon, <3>2, LBAssumption DEF Nc
      <4>2. t.nc[d] = s.nc[d] /\ t.bec[d] = s.bec[d] BY Zenon, <1>1, <4>1 DEF Apart
      <4>3. QED BY Zenon, <3>2, <4>2 DEF InPool
    <3>3. QED BY Zenon, <3>1, <3>2
  <2>2. {d \in Back : InPool(t, d)} = {d \in Back : InPool(s, d)} \ {b} BY Zenon, <2>1
  <2>3. t.pool = u.pool /\ t.num_conns = u.num_conns BY Zenon DEF Tied, SameRest
  <2>4. Range1(s.pool) = {d \in Back : InPool(s, d)} BY Zenon DEF Sane, Pool
  <2>5. QED BY Zenon, <2>2, <2>3, <2>4 DEF Pool, Taken
<1>8. Listed(t)
  <2>1. ASSUME NEW y \in Nc, t.nc[y].st # "free" PROVE y \in Range1(u.list)
    <3>0. Range1(s.list) \cup {b} \subseteq Range1(u.list) BY Zenon DEF Taken
    <3>1. CASE y = b BY Zenon, <3>0, <3>1
    <3>2. CASE y # b
      <4>1. t.nc[y] = s.nc[y] BY Zenon, <3>2, <1>a
      <4>2. y \in Range1(s.list) BY Zenon, <2>1, <4>1 DEF Sane, Listed
      <4>3. QED BY Zenon, <3>0, <4>2
    <3>3. QED BY Zenon, <3>1, <3>2
  <2>2. t.list = u.list BY Zenon DEF Tied, SameRest
  <2>3. QED BY Zenon, <2>1, <2>2 DEF Listed
<1>9. Only(s, t, c, b, D, D) BY Zenon, <1>1, <1>2 DEF Only
<1>10. Settled(t, c, b, D, NULL) BY Zenon, <1>5, <1>6, <1>7, <1>8 DEF Settled
<1>11. QED BY SMT, <1>9, <1>10, Touch


\* The other clients, and who is there.
Others(s, t, c) ==
    /\ \A d \in Client \ {c} : t.nc[d] = s.nc[d] /\ t.conn[d] = s.conn[d] /\ t.told[d] = s.told[d]
    /\ \A y \in Nc : s.nc[y].st # "free" => t.nc[y].st # "free"
    /\ t.crashed = s.crashed

\* What a request comes to: it is handed on, or the client is told.
Asked(s, t, c) ==
    /\ t.nc[c].st = s.nc[c].st /\ ~t.nc[c].part
    /\ t.conn[c].body_len = s.conn[c].body_len
    /\ \/ t.conn[c].backend # NULL /\ t.told[c] = s.told[c] /\ t.conn[c].headers = s.conn[c].headers
       \/ t.conn[c].be_conn = NULL /\ t.told[c] = "close"
       \/ t.conn[c].be_conn = NULL /\ t.told[c] = s.told[c] /\ s.conn[c].headers

\* What holds of the memory between two steps.
Good(s, D, x) == s \in Mem /\ Sane(s, D, x) /\ s.num_conns <= MaxIdle

\* The two assignments before connect_backend().
asks(s, c, k) == [s EXCEPT !.conn[c].keep_alive = k, !.nc[c].part = FALSE]

\* They change nothing but those two fields.
LEMMA Prelude ==
    ASSUME NEW s \in Mem, NEW c \in Client, NEW k \in BOOLEAN, NEW D, Good(s, D, NULL), s.nc[c].st = "open"
    PROVE  /\ Soft(s, asks(s, c, k), c) /\ ~asks(s, c, k).nc[c].part
           /\ asks(s, c, k).told = s.told /\ asks(s, c, k).conn[c].headers = s.conn[c].headers
<1>u. PICK u : u = asks(s, c, k) BY Zenon
<1>0. c \in Nc /\ c # NULL BY Zenon, LBAssumption DEF Nc
<1>1. s.nc \in Ncs /\ s.nc[c] \in NcType /\ s.conn \in Conns /\ s.conn[c] \in ConnType BY Zenon, <1>0, Entries
<1>2. s.conn[c].client BY Zenon, <1>0 DEF Good, Sane, Clients
<1>r. PICK r : r = [s.nc[c] EXCEPT !.part = FALSE] BY Zenon
<1>3. r \in NcType /\ r.st = s.nc[c].st /\ r.handler = s.nc[c].handler /\ r.ud = s.nc[c].ud /\ ~r.part
  BY Zenon, <1>1, <1>r DEF NcType
<1>k. PICK q : q = [s.conn[c] EXCEPT !.keep_alive = k] BY Zenon
<1>4. q \in ConnType /\ SameConn(s.conn[c], q) /\ q.headers = s.conn[c].headers
  BY Zenon, <1>1, <1>k DEF ConnType, SameConn
<1>n. PICK N : N = [s.nc EXCEPT ![c] = r] BY Zenon
<1>5. N \in Ncs /\ N[c] = r /\ \A y \in Nc \ {c} : N[y] = s.nc[y] BY SMT, <1>0, <1>1, <1>3, <1>n DEF Ncs
<1>q. PICK Q : Q = [s.conn EXCEPT ![c] = q] BY Zenon
<1>6. Q \in Conns /\ Q[c] = q /\ \A d \in Client \ {c} : Q[d] = s.conn[d] BY SMT, <1>1, <1>4, <1>q DEF Conns
<1>7. Parts([s EXCEPT !.conn = Q, !.nc = N], N, Q, s.bec, s.pool, s.num_conns, s.list, s.owed, s.told, s.crashed)
  BY Zenon, <1>5, <1>6 DEF Parts, Mem
<1>8. u = [s EXCEPT !.conn = Q, !.nc = N] BY Zenon, <1>u, <1>r, <1>k, <1>n, <1>q DEF asks
<1>9. /\ u \in Mem /\ u.nc = N /\ u.conn = Q /\ u.owed = s.owed /\ u.bec = s.bec /\ u.told = s.told /\ SameRest(s, u)
  BY Zenon, <1>7, <1>8 DEF Parts, SameRest
<1>10. QED BY Zenon, <1>u, <1>2, <1>3, <1>4, <1>5, <1>6, <1>9 DEF Soft

\* The redirection.
LEMMA Redirects ==
    ASSUME NEW s \in Mem, NEW c \in Client, NEW t, t = flag([s EXCEPT !.told[c] = "close"], c, "SEND_AND_CLOSE"),
           s.conn[c].client
    PROVE  Soft(s, t, c) /\ t.told[c] = "close" /\ t.conn = s.conn /\ t.nc[c].part = s.nc[c].part
<1>0. c \in Nc /\ "SEND_AND_CLOSE" \in Flag /\ s.told \in Tolds BY Zenon, Entries DEF Nc, Flag
<1>w. PICK T : T = [s.told EXCEPT ![c] = "close"] BY Zenon
<1>1. T \in Tolds /\ T[c] = "close" /\ \A d \in Client \ {c} : T[d] = s.told[d] BY SMT, <1>0, <1>w DEF Tolds, Said
<1>u. PICK u : u = [s EXCEPT !.told = T] BY Zenon
<1>2. Parts([s EXCEPT !.told = T], s.nc, s.conn, s.bec, s.pool, s.num_conns, s.list, s.owed, T, s.crashed)
  BY Zenon, <1>1 DEF Parts, Mem
<1>3. /\ u \in Mem /\ u.nc = s.nc /\ u.conn = s.conn /\ u.owed = s.owed /\ u.bec = s.bec /\ u.told = T /\ SameRest(s, u)
  BY Zenon, <1>u, <1>2 DEF Parts, SameRest
<1>4. Marked(u, t, c) BY Zenon, <1>0, <1>w, <1>u, <1>3, FlagSet
<1>5. /\ t \in Mem /\ t.conn = s.conn /\ t.owed = s.owed /\ t.bec = s.bec /\ t.told = T /\ SameRest(s, t)
      /\ SameNc(s.nc[c], t.nc[c]) /\ \A y \in Nc \ {c} : t.nc[y] = s.nc[y]
  BY Zenon, <1>3, <1>4 DEF Marked, SameRest
<1>6. QED BY Zenon, <1>1, <1>5 DEF Soft, SameNc, SameConn


\* get_conn() takes a connection that is idle.
LEMMA Gets ==
    ASSUME NEW s \in Mem, NEW D, Good(s, D, NULL), s.pool # <<>>, NEW b, b = Head(s.pool)
    PROVE  /\ b \in Back /\ b \notin D /\ get_conn(s) \in Mem /\ Taken(s, get_conn(s), b)
           /\ s.nc[b].handler = "idle" /\ get_conn(s).num_conns <= MaxIdle
           /\ get_conn(s).nc = s.nc /\ get_conn(s).crashed = s.crashed
<1>0. s.num_conns \in Int /\ MaxIdle \in Nat /\ s.pool \in Seq(Back) BY Zenon, Entries, LBAssumption
<1>p. PICK P : P = Tail(s.pool) BY Zenon
<1>1. Pool(s) /\ Distinct(s.pool) /\ s.num_conns <= MaxIdle BY Zenon DEF Good, Sane, Pool
<1>2. /\ b \in Back /\ b \in Range1(s.pool) /\ P \in Seq(Back) /\ Len(P) = Len(s.pool) - 1
      /\ Distinct(P) /\ Range1(P) = Range1(s.pool) \ {b}
  BY SMT, <1>0, <1>1, <1>p, FirstOff
<1>3. InPool(s, b) BY Zenon, <1>1, <1>2 DEF Pool
<1>4. b \notin D /\ Rests(s, b)
  <2>1. Backs(s, D, b) BY Zenon, <1>2, LBAssumption DEF Good, Sane
  <2>2. QED BY Zenon, <1>3, <2>1 DEF Backs, InPool, Failed, Rests, Serves
<1>w. PICK n : n = s.num_conns - 1 BY Zenon
<1>5. n \in Int /\ n <= MaxIdle /\ Len(P) <= n
  <2>1. Len(s.pool) <= s.num_conns /\ Len(s.pool) \in Nat BY SMT, <1>0, <1>1 DEF Pool
  <2>2. QED BY SMT, <1>0, <1>1, <1>2, <1>w, <2>1
<1>t. PICK t : t = [s EXCEPT !.pool = P, !.num_conns = n] BY Zenon
<1>6. get_conn(s) = t BY Zenon, <1>p, <1>w, <1>t DEF get_conn
<1>7. Parts([s EXCEPT !.pool = P, !.num_conns = n], s.nc, s.conn, s.bec, P, n, s.list, s.owed, s.told, s.crashed)
  BY Zenon, <1>2, <1>5 DEF Parts, Mem, Pools
<1>8. /\ t \in Mem /\ t.nc = s.nc /\ t.conn = s.conn /\ t.bec = s.bec /\ t.pool = P /\ t.num_conns = n
      /\ t.list = s.list /\ t.owed = s.owed /\ t.told = s.told /\ t.crashed = s.crashed
  BY Zenon, <1>t, <1>7 DEF Parts
<1>9. Range1(s.list) \cup {b} \subseteq Range1(s.list)
  <2>1. b \in Range1(s.list) BY Zenon, <1>2, <1>4 DEF Good, Sane, Listed, Rests, Nc
  <2>2. QED BY Zenon, <2>1
<1>10. Apart(s, t, NULL, b) BY Zenon, <1>8 DEF Apart
<1>11. t.nc[b].st = "open" /\ t.bec[b].mem /\ t.bec[b].nc BY Zenon, <1>4, <1>8 DEF Rests
<1>12. Taken(s, t, b) BY Zenon, <1>2, <1>5, <1>8, <1>9, <1>10, <1>11 DEF Taken
<1>13. QED BY Zenon, <1>2, <1>4, <1>5, <1>6, <1>8, <1>12 DEF Rests

\* ns_connect() makes a connection; there is none in the pool.
makes(s, b) == [s EXCEPT !.nc[b] = [NoNc EXCEPT !.st = "connecting"], !.list = <<b>> \o @,
                         !.bec[b] = [mem |-> TRUE, nc |-> TRUE, idle |-> FALSE]]

Made(s, u, b) ==
    /\ u \in Mem /\ Taken(s, u, b) /\ u.num_conns = s.num_conns /\ u.crashed = s.crashed
    /\ \A y \in Nc \ {b} : u.nc[y] = s.nc[y]

\* A new connection is not known to anybody yet.
LEMMA Fresh ==
    ASSUME NEW s \in Mem, NEW D, Good(s, D, NULL), s.pool = <<>>, NEW b \in Back, s.nc[b].st = "free"
    PROVE  Made(s, makes(s, b), b) /\ b \notin D
<1>u. PICK u : u = makes(s, b) BY Zenon
<1>0. b \in Nc /\ b # NULL BY Zenon, LBAssumption DEF Nc
<1>1. s.nc \in Ncs /\ s.bec \in Becs /\ s.list \in Seq(Nc) /\ s.num_conns \in Int BY Zenon, Entries
<1>2. Backs(s, D, b) /\ Pool(s) BY Zenon, <1>0 DEF Good, Sane
<1>3. b \notin D BY Zenon, <1>2 DEF Backs, Failed
<1>r. PICK r : r = [NoNc EXCEPT !.st = "connecting"] BY Zenon
<1>4. r \in NcType /\ r.st = "connecting" /\ r.flags = {}
  <2>1. NoNc \in NcType /\ NoNc.flags = {} BY SMT DEF NoNc, NcType
  <2>2. QED BY Zenon, <1>r, <2>1 DEF NcType
<1>k. PICK k : k = [mem |-> TRUE, nc |-> TRUE, idle |-> FALSE] BY Zenon
<1>5. k \in BecType /\ k.mem /\ k.nc BY SMT, <1>k DEF BecType
<1>n. PICK N : N = [s.nc EXCEPT ![b] = r] BY Zenon
<1>6. N \in Ncs /\ N[b] = r /\ \A y \in Nc \ {b} : N[y] = s.nc[y] BY SMT, <1>0, <1>1, <1>4, <1>n DEF Ncs
<1>q. PICK B : B = [s.bec EXCEPT ![b] = k] BY Zenon
<1>7. B \in Becs /\ B[b] = k /\ \A d \in Back \ {b} : B[d] = s.bec[d] BY SMT, <1>1, <1>5, <1>q DEF Becs
<1>l. PICK L : L = <<b>> \o s.list BY Zenon
<1>8. L \in Seq(Nc) /\ Range1(L) = {b} \cup Range1(s.list) BY SMT, <1>0, <1>1, <1>l, InFront
<1>9. Parts([s EXCEPT !.nc = N, !.list = L, !.bec = B],
            N, s.conn, B, s.pool, s.num_conns, L, s.owed, s.told, s.crashed)
  BY Zenon, <1>6, <1>7, <1>8 DEF Parts, Mem, Lists
<1>10. u = [s EXCEPT !.nc = N, !.list = L, !.bec = B] BY Zenon, <1>u, <1>r, <1>k, <1>n, <1>q, <1>l DEF makes
<1>11. /\ u \in Mem /\ u.nc = N /\ u.conn = s.conn /\ u.bec = B /\ u.pool = s.pool /\ u.num_conns = s.num_conns
       /\ u.list = L /\ u.owed = s.owed /\ u.told = s.told /\ u.crashed = s.crashed
  BY Zenon, <1>9, <1>10 DEF Parts
<1>12. Apart(s, u, NULL, b) BY Zenon, <1>6, <1>7, <1>11 DEF Apart
<1>13. Range1(s.pool) = Range1(s.pool) \ {b}
  <2>1. Range1(<<>>) = {} BY SMT DEF Range1
  <2>2. QED BY Zenon, <2>1
<1>14. Len(u.pool) <= u.num_conns /\ Distinct(u.pool) BY Zenon, <1>2, <1>11 DEF Pool
<1>15. Range1(s.list) \cup {b} \subseteq Range1(u.list) BY Zenon, <1>8, <1>11
<1>16. u.nc[b].st # "free" /\ u.nc[b].flags = {} /\ u.bec[b].mem /\ u.bec[b].nc BY Zenon, <1>4, <1>5, <1>6, <1>7, <1>11
<1>17. Taken(s, u, b) BY Zenon, <1>11, <1>12, <1>13, <1>14, <1>15, <1>16 DEF Taken
<1>18. QED BY Zenon, <1>u, <1>3, <1>6, <1>11, <1>17 DEF Made


\* The request handler, with any choice of what becomes of the request.
LEMMA RequestGood ==
    ASSUME NEW s \in Mem, NEW c \in Client, NEW D, Good(s, D, NULL), s.nc[c].st = "open",
           s.conn[c].be_conn = NULL, NEW t \in on_request(s, c)
    PROVE  Good(t, D, NULL) /\ Others(s, t, c) /\ Asked(s, t, c)
<1>0. c \in Nc /\ c # NULL BY Zenon, LBAssumption DEF Nc
<1>k. PICK k \in BOOLEAN : t \in connect_backend(asks(s, c, k), c) BY Zenon DEF on_request, asks
<1>u. PICK u : u = asks(s, c, k) BY Zenon
<1>1. /\ Soft(s, u, c) /\ ~u.nc[c].part /\ u.told = s.told /\ u.conn[c].headers = s.conn[c].headers
  BY Zenon, <1>u, Prelude
<1>2. Good(u, D, NULL) /\ u \in Mem
  <2>1. Sane(s, D, NULL) /\ s.num_conns <= MaxIdle BY Zenon DEF Good
  <2>2. u \in Mem /\ u.num_conns = s.num_conns BY Zenon, <1>1 DEF Soft, SameRest
  <2>3. Sane(u, D, NULL) BY Zenon, <1>1, <2>1, SoftSane
  <2>4. QED BY Zenon, <2>1, <2>2, <2>3 DEF Good
<1>3. /\ u.nc[c].st = "open" /\ u.conn[c].be_conn = NULL /\ u.conn[c].body_len = s.conn[c].body_len
      /\ u.crashed = s.crashed
      /\ \A y \in Nc \ {c} : u.nc[y] = s.nc[y]
      /\ \A d \in Client \ {c} : u.conn[d] = s.conn[d]
  BY Zenon, <1>1 DEF Soft, SameConn, SameRest
<1>4. u.conn[c].client BY Zenon, <1>0, <1>2, <1>3 DEF Good, Sane, Clients
<1>5. ASSUME Soft(u, t, c), ~t.nc[c].part,
             t.told[c] = "close" \/ (t.told[c] = s.told[c] /\ s.conn[c].headers)
      PROVE  Good(t, D, NULL) /\ Others(s, t, c) /\ Asked(s, t, c)
  <2>1. Sane(u, D, NULL) /\ u.num_conns <= MaxIdle BY Zenon, <1>2 DEF Good
  <2>2. t \in Mem /\ t.num_conns = u.num_conns /\ t.crashed = u.crashed BY Zenon, <1>5 DEF Soft, SameRest
  <2>3. Sane(t, D, NULL) BY Zenon, <1>2, <1>5, <2>1, SoftSane
  <2>4. t.nc[c].st = "open" /\ t.conn[c].be_conn = NULL /\ t.conn[c].body_len = s.conn[c].body_len
    BY Zenon, <1>3, <1>5 DEF Soft, SameConn
  <2>5. /\ \A y \in Nc \ {c} : t.nc[y] = s.nc[y]
        /\ \A d \in Client \ {c} : t.conn[d] = s.conn[d] /\ t.told[d] = s.told[d]
    BY Zenon, <1>1, <1>3, <1>5 DEF Soft
  <2>6. Others(s, t, c) BY Zenon, <1>0, <1>3, <2>2, <2>4, <2>5, LBAssumption DEF Others, Nc
  <2>7. Asked(s, t, c) BY Zenon, <1>5, <2>4 DEF Asked
  <2>8. QED BY Zenon, <2>1, <2>2, <2>3, <2>6, <2>7 DEF Good
<1>6. CASE t = flag([u EXCEPT !.told[c] = "close"], c, "SEND_AND_CLOSE")
  <2>1. Soft(u, t, c) /\ t.told[c] = "close" /\ t.nc[c].part = u.nc[c].part BY SMT, <1>2, <1>4, <1>6, Redirects
  <2>2. QED BY Zenon, <1>1, <1>5, <2>1
<1>7. CASE t = respond_with_error(u, c)
  <2>1. Errs(u, t, c) BY Zenon, <1>2, <1>7, Responds
  <2>2. Soft(u, t, c) /\ t.nc[c].part = u.nc[c].part BY Zenon, <2>1 DEF Errs, Soft, SameNc
  <2>3. t.told[c] = "close" \/ (t.told[c] = s.told[c] /\ s.conn[c].headers) BY Zenon, <1>1, <1>4, <2>1 DEF Errs
  <2>4. QED BY Zenon, <1>1, <1>5, <2>2, <2>3
<1>8. ASSUME NEW b \in Back, NEW v \in Mem, b \notin D, NoOthers(u, c, b), Taken(u, v, b), Tied(v, t, c, b),
             v.num_conns <= MaxIdle, v.crashed = u.crashed, \A y \in Nc \ {b} : v.nc[y] = u.nc[y]
      PROVE  Good(t, D, NULL) /\ Others(s, t, c) /\ Asked(s, t, c)
  <2>0. c # b /\ b # NULL /\ Sane(u, D, NULL) BY Zenon, <1>2, LBAssumption DEF Good
  <2>1. Sane(t, D, NULL) BY SMT, <1>2, <1>3, <1>8, <2>0, TiedSane
  <2>2. t \in Mem /\ t.num_conns = v.num_conns /\ t.crashed = v.crashed BY Zenon, <1>8 DEF Tied, SameRest
  <2>3. v.conn = u.conn /\ v.told = u.told /\ v.nc[b].st # "free" BY Zenon, <1>8 DEF Taken
  <2>4. /\ \A y \in Nc \ {b} : t.nc[y] = u.nc[y]
        /\ t.nc[b].st # "free" /\ t.told = u.told
        /\ \A d \in Client \ {c} : t.conn[d] = u.conn[d]
        /\ t.conn[c].body_len = u.conn[c].body_len /\ t.conn[c].headers = u.conn[c].headers
        /\ t.conn[c].backend = b
    BY Zenon, <1>8, <2>3 DEF Tied
  <2>5. Others(s, t, c)
    <3>1. \A d \in Client \ {c} : d \in Nc \ {c} /\ d \in Nc \ {b} BY Zenon, LBAssumption DEF Nc
    <3>2. \A d \in Client \ {c} : t.nc[d] = s.nc[d] BY Zenon, <1>3, <2>4, <3>1
    <3>3. ASSUME NEW y \in Nc, s.nc[y].st # "free" PROVE t.nc[y].st # "free"
      <4>1. CASE y = b BY Zenon, <2>4, <4>1
      <4>2. CASE y = c BY Zenon, <1>3, <2>0, <2>4, <4>2
      <4>3. CASE y # b /\ y # c BY Zenon, <1>3, <2>4, <3>3, <4>3
      <4>4. QED BY Zenon, <4>1, <4>2, <4>3
    <3>4. QED BY Zenon, <1>1, <1>3, <1>8, <2>2, <2>4, <3>2, <3>3 DEF Others
  <2>6. Asked(s, t, c)
    <3>1. t.nc[c] = u.nc[c] BY Zenon, <1>0, <2>0, <2>4
    <3>2. QED BY Zenon, <1>1, <1>3, <2>0, <2>4, <3>1 DEF Asked
  <2>7. QED BY Zenon, <1>8, <2>1, <2>2, <2>5, <2>6 DEF Good
<1>9. ASSUME u.pool # <<>>,
             t = [get_conn(u) EXCEPT !.conn[c] = [@ EXCEPT !.be_conn = Head(u.pool), !.backend = Head(u.pool)],
                                     !.nc[Head(u.pool)] = [@ EXCEPT !.ud = c, !.handler = "ev"],
                                     !.owed[Head(u.pool)] = c]
      PROVE  Good(t, D, NULL) /\ Others(s, t, c) /\ Asked(s, t, c)
  <2>b. PICK b : b = Head(u.pool) BY Zenon
  <2>v. PICK v : v = get_conn(u) BY Zenon
  <2>1. /\ b \in Back /\ b \notin D /\ v \in Mem /\ Taken(u, v, b)
        /\ u.nc[b].handler = "idle" /\ v.num_conns <= MaxIdle /\ v.nc = u.nc /\ v.crashed = u.crashed
    BY Zenon, <1>2, <1>9, <2>b, <2>v, Gets
  <2>2. t = [v EXCEPT !.conn[c] = [@ EXCEPT !.be_conn = b, !.backend = b],
                      !.nc[b] = [@ EXCEPT !.ud = c, !.handler = "ev"], !.owed[b] = c]
    BY Zenon, <1>9, <2>b, <2>v
  <2>3. Tied(v, t, c, b) BY Zenon, <2>1, <2>2, Uses
  <2>4. NoOthers(u, c, b) BY Zenon, <2>1 DEF NoOthers
  <2>5. QED BY Zenon, <1>8, <2>1, <2>3, <2>4
<1>10. ASSUME u.pool = <<>>, NEW b \in Back, u.nc[b].st = "free", NEW v, v = makes(u, b),
              t = [v EXCEPT !.conn[c] = [@ EXCEPT !.be_conn = b, !.backend = b],
                            !.nc[b] = [@ EXCEPT !.ud = c, !.handler = "ev"], !.owed[b] = c]
       PROVE  Good(t, D, NULL) /\ Others(s, t, c) /\ Asked(s, t, c)
  <2>0. Made(u, v, b) /\ b \notin D BY Zenon, <1>2, <1>10, Fresh
  <2>1. /\ b \notin D /\ v \in Mem /\ Taken(u, v, b) /\ v.num_conns = u.num_conns /\ v.crashed = u.crashed
        /\ \A y \in Nc \ {b} : v.nc[y] = u.nc[y]
    BY Zenon, <2>0 DEF Made
  <2>2. Tied(v, t, c, b) BY Zenon, <1>10, <2>1, Uses
  <2>3. NoOthers(u, c, b) /\ v.num_conns <= MaxIdle BY Zenon, <1>2, <1>10, <2>1 DEF NoOthers, Good
  <2>4. QED BY Zenon, <1>8, <2>1, <2>2, <2>3
<1>11. t \in connect_backend(u, c) BY Zenon, <1>k, <1>u
<1>12. CASE u.pool # <<>> BY Zenon, <1>6, <1>9, <1>11, <1>12 DEF connect_backend
<1>13. CASE u.pool = <<>> BY Zenon, <1>6, <1>7, <1>10, <1>11, <1>13 DEF connect_backend, makes
<1>14. QED BY Zenon, <1>12, <1>13


-----------------------------------------------------------------------------
(* NS_HTTP_REPLY                                                           *)

\* Before release_backend(): the reply is forwarded.
answers(s, c, b) ==
    [s EXCEPT !.conn[c].headers = TRUE, !.nc[b].part = FALSE, !.owed[b] = NULL,
              !.told[c] = IF s.conn[c].keep_alive THEN "keep" ELSE "close"]

Answered(s, t, c, b) ==
    /\ t \in Mem /\ t.bec = s.bec /\ SameRest(s, t)
    /\ \A y \in Nc \ {b} : t.nc[y] = s.nc[y]
    /\ t.nc[b].st = s.nc[b].st
    /\ \A d \in Client \ {c} : t.conn[d] = s.conn[d] /\ t.told[d] = s.told[d]
    /\ SameConn(s.conn[c], t.conn[c]) /\ t.told[c] \in {"keep", "close"}
    /\ t.owed[b] = NULL /\ \A d \in Back \ {b} : t.owed[d] = s.owed[d]

\* Forwarding a reply does that.
LEMMA Answers ==
    ASSUME NEW s \in Mem, NEW c \in Client, NEW b \in Back
    PROVE  Answered(s, answers(s, c, b), c, b)
<1>0. b \in Nc BY Zenon DEF Nc
<1>t. PICK t : t = answers(s, c, b) BY Zenon
<1>1. /\ s.nc \in Ncs /\ s.nc[b] \in NcType /\ s.conn \in Conns /\ s.conn[c] \in ConnType /\ s.owed \in Owes
      /\ s.told \in Tolds
  BY Zenon, <1>0, Entries
<1>r. PICK r : r = [s.nc[b] EXCEPT !.part = FALSE] BY Zenon
<1>2. r \in NcType /\ r.st = s.nc[b].st BY Zenon, <1>1, <1>r DEF NcType
<1>k. PICK k : k = [s.conn[c] EXCEPT !.headers = TRUE] BY Zenon
<1>3. k \in ConnType /\ SameConn(s.conn[c], k) BY Zenon, <1>1, <1>k DEF ConnType, SameConn
<1>n. PICK N : N = [s.nc EXCEPT ![b] = r] BY Zenon
<1>4. N \in Ncs /\ N[b] = r /\ \A y \in Nc \ {b} : N[y] = s.nc[y] BY SMT, <1>0, <1>1, <1>2, <1>n DEF Ncs
<1>q. PICK Q : Q = [s.conn EXCEPT ![c] = k] BY Zenon
<1>5. Q \in Conns /\ Q[c] = k /\ \A d \in Client \ {c} : Q[d] = s.conn[d] BY SMT, <1>1, <1>3, <1>q DEF Conns
<1>w. PICK O : O = [s.owed EXCEPT ![b] = NULL] BY Zenon
<1>6. O \in Owes /\ O[b] = NULL /\ \A d \in Back \ {b} : O[d] = s.owed[d] BY SMT, <1>1, <1>w DEF Owes
<1>a. PICK a : a = IF s.conn[c].keep_alive THEN "keep" ELSE "close" BY Zenon
<1>7. a \in {"keep", "close"} BY Zenon, <1>a
<1>v. PICK T : T = [s.told EXCEPT ![c] = a] BY Zenon
<1>8. T \in Tolds /\ T[c] = a /\ \A d \in Client \ {c} : T[d] = s.told[d] BY SMT, <1>1, <1>7, <1>v DEF Tolds, Said
<1>9. Parts([s EXCEPT !.conn = Q, !.nc = N, !.owed = O, !.told = T],
            N, Q, s.bec, s.pool, s.num_conns, s.list, O, T, s.crashed)
  BY Zenon, <1>4, <1>5, <1>6, <1>8 DEF Parts, Mem
<1>10. t = [s EXCEPT !.conn = Q, !.nc = N, !.owed = O, !.told = T]
  BY Zenon, <1>t, <1>r, <1>k, <1>n, <1>q, <1>w, <1>a, <1>v DEF answers
<1>11. /\ t \in Mem /\ t.nc = N /\ t.conn = Q /\ t.owed = O /\ t.bec = s.bec /\ t.told = T /\ SameRest(s, t)
  BY Zenon, <1>9, <1>10 DEF Parts, SameRest
<1>12. Answered(s, t, c, b) BY Zenon, <1>2, <1>3, <1>4, <1>5, <1>6, <1>7, <1>8, <1>11 DEF Answered
<1>13. QED BY Zenon, <1>t, <1>12

\* release_backend() of a connection that is still there, up to where it goes
\* into the pool or is marked.
loosens(s, c, b, keep) ==
    [detach(s, c) EXCEPT !.nc[b] = [@ EXCEPT !.ud = NULL, !.handler = "idle"], !.bec[b].idle = keep]

Loose(s, t, c, b, keep) ==
    /\ t \in Mem /\ t.owed = s.owed /\ t.told = s.told /\ SameRest(s, t)
    /\ \A y \in Nc \ {b} : t.nc[y] = s.nc[y]
    /\ t.nc[b].st = s.nc[b].st /\ t.nc[b].handler = "idle"
    /\ \A d \in Back \ {b} : t.bec[d] = s.bec[d]
    /\ t.bec[b].mem = s.bec[b].mem /\ t.bec[b].nc = s.bec[b].nc /\ t.bec[b].idle = keep
    /\ \A d \in Client \ {c} : t.conn[d] = s.conn[d]
    /\ t.conn[c].mem = s.conn[c].mem /\ t.conn[c].client = s.conn[c].client /\ t.conn[c].body_len = 0
    /\ t.conn[c].backend = NULL /\ t.conn[c].be_conn = NULL

\* detach() does what it says.
LEMMA Detaches ==
    ASSUME NEW s \in Mem, NEW c \in Client
    PROVE  /\ detach(s, c) \in Mem /\ detach(s, c).nc = s.nc /\ detach(s, c).bec = s.bec
           /\ detach(s, c).owed = s.owed /\ detach(s, c).told = s.told /\ SameRest(s, detach(s, c))
           /\ \A d \in Client \ {c} : detach(s, c).conn[d] = s.conn[d]
           /\ detach(s, c).conn[c].mem = s.conn[c].mem /\ detach(s, c).conn[c].client = s.conn[c].client
           /\ detach(s, c).conn[c].headers = s.conn[c].headers
           /\ detach(s, c).conn[c].body_len = 0 /\ detach(s, c).conn[c].backend = NULL
           /\ detach(s, c).conn[c].be_conn = NULL
<1>t. PICK t : t = detach(s, c) BY Zenon
<1>1. s.conn \in Conns /\ s.conn[c] \in ConnType BY Zenon, Entries
<1>k. PICK k : k = [s.conn[c] EXCEPT !.be_conn = NULL, !.backend = NULL, !.body_len = 0] BY Zenon
<1>2. /\ k \in ConnType /\ k.mem = s.conn[c].mem /\ k.client = s.conn[c].client /\ k.headers = s.conn[c].headers
      /\ k.body_len = 0 /\ k.backend = NULL /\ k.be_conn = NULL
  BY Zenon, <1>1, <1>k DEF ConnType
<1>q. PICK Q : Q = [s.conn EXCEPT ![c] = k] BY Zenon
<1>3. Q \in Conns /\ Q[c] = k /\ \A d \in Client \ {c} : Q[d] = s.conn[d] BY SMT, <1>1, <1>2, <1>q DEF Conns
<1>4. Parts([s EXCEPT !.conn = Q], s.nc, Q, s.bec, s.pool, s.num_conns, s.list, s.owed, s.told, s.crashed)
  BY Zenon, <1>3 DEF Parts, Mem
<1>5. t = [s EXCEPT !.conn = Q] BY Zenon, <1>t, <1>k, <1>q DEF detach
<1>6. /\ t \in Mem /\ t.nc = s.nc /\ t.conn = Q /\ t.owed = s.owed /\ t.bec = s.bec /\ t.told = s.told /\ SameRest(s, t)
  BY Zenon, <1>4, <1>5 DEF Parts, SameRest
<1>7. QED BY Zenon, <1>t, <1>2, <1>3, <1>6


\* The assignments of release_backend() do that.
LEMMA Loosens ==
    ASSUME NEW s \in Mem, NEW c \in Client, NEW b \in Back, NEW keep \in BOOLEAN
    PROVE  Loose(s, loosens(s, c, b, keep), c, b, keep)
<1>0. b \in Nc BY Zenon DEF Nc
<1>t. PICK t : t = loosens(s, c, b, keep) BY Zenon
<1>u. PICK u : u = detach(s, c) BY Zenon
<1>1. /\ u \in Mem /\ u.nc = s.nc /\ u.bec = s.bec /\ u.owed = s.owed /\ u.told = s.told /\ SameRest(s, u)
      /\ \A d \in Client \ {c} : u.conn[d] = s.conn[d]
      /\ u.conn[c].mem = s.conn[c].mem /\ u.conn[c].client = s.conn[c].client
      /\ u.conn[c].body_len = 0 /\ u.conn[c].backend = NULL /\ u.conn[c].be_conn = NULL
  BY Zenon, <1>u, Detaches
<1>2. /\ u.nc \in Ncs /\ u.nc[b] \in NcType /\ u.bec \in Becs /\ u.bec[b] \in BecType BY Zenon, <1>0, <1>1, Entries
<1>r. PICK r : r = [u.nc[b] EXCEPT !.ud = NULL, !.handler = "idle"] BY Zenon
<1>3. r \in NcType /\ r.st = u.nc[b].st /\ r.handler = "idle" BY Zenon, <1>2, <1>r DEF NcType
<1>k. PICK k : k = [u.bec[b] EXCEPT !.idle = keep] BY Zenon
<1>4. k \in BecType /\ k.mem = u.bec[b].mem /\ k.nc = u.bec[b].nc /\ k.idle = keep BY Zenon, <1>2, <1>k DEF BecType
<1>n. PICK N : N = [u.nc EXCEPT ![b] = r] BY Zenon
<1>5. N \in Ncs /\ N[b] = r /\ \A y \in Nc \ {b} : N[y] = u.nc[y] BY SMT, <1>0, <1>2, <1>3, <1>n DEF Ncs
<1>q. PICK B : B = [u.bec EXCEPT ![b] = k] BY Zenon
<1>6. B \in Becs /\ B[b] = k /\ \A d \in Back \ {b} : B[d] = u.bec[d] BY SMT, <1>2, <1>4, <1>q DEF Becs
<1>7. Parts([u EXCEPT !.nc = N, !.bec = B], N, u.conn, B, u.pool, u.num_conns, u.list, u.owed, u.told, u.crashed)
  BY Zenon, <1>1, <1>5, <1>6 DEF Parts, Mem
<1>8. t = [u EXCEPT !.nc = N, !.bec = B] BY Zenon, <1>t, <1>u, <1>r, <1>k, <1>n, <1>q DEF loosens
<1>9. /\ t \in Mem /\ t.nc = N /\ t.bec = B /\ t.conn = u.conn /\ t.owed = s.owed /\ t.told = s.told /\ SameRest(s, t)
  BY Zenon, <1>1, <1>7, <1>8 DEF Parts, SameRest
<1>10. /\ N[b].st = s.nc[b].st /\ N[b].handler = "idle" /\ \A y \in Nc \ {b} : N[y] = s.nc[y]
       /\ B[b].mem = s.bec[b].mem /\ B[b].nc = s.bec[b].nc /\ B[b].idle = keep
       /\ \A d \in Back \ {b} : B[d] = s.bec[d]
  BY Zenon, <1>1, <1>3, <1>4, <1>5, <1>6
<1>11. Loose(s, t, c, b, keep) BY Zenon, <1>1, <1>9, <1>10 DEF Loose
<1>12. QED BY Zenon, <1>t, <1>11

\* A connection has worked for client c and rests, in the pool if it is to be
\* kept.
Rested(s, w, c, b) ==
    /\ Apart(s, w, c, b) /\ w.nc[c] = s.nc[c] /\ Rests(w, b)
    /\ w.conn[c].mem = s.conn[c].mem /\ w.conn[c].client = s.conn[c].client /\ w.conn[c].backend = NULL
    /\ w.list = s.list /\ w.crashed = s.crashed
    /\ IF w.bec[b].idle THEN w.pool = Append(s.pool, b) /\ w.num_conns = s.num_conns + 1
       ELSE w.pool = s.pool /\ w.num_conns = s.num_conns

\* A connection that is given back leaves everything sane; the pool may then be one
\* too long.
LEMMA RestedSane ==
    ASSUME NEW s \in Mem, NEW w, NEW c \in Client, NEW b \in Back, NEW D, Sane(s, D, NULL), b \notin D,
           s.nc[b].st = "open", s.nc[b].handler = "ev", Serves(s, b, c), Rested(s, w, c, b)
    PROVE  Sane(w, D, NULL)
<1>0. b \in Nc /\ c \in Nc /\ b # NULL /\ c # NULL /\ b # c BY Zenon, LBAssumption DEF Nc
<1>1. Apart(s, w, c, b) /\ w.nc[c] = s.nc[c] /\ Rests(w, b) BY Zenon DEF Rested
<1>2. NoOthers(s, c, b) BY Zenon DEF NoOthers, Serves
<1>3. \A d \in Back \ {b} : c \in Client /\ Serves(s, d, c) => Serves(w, d, c) BY Zenon DEF Serves
<1>4. Backs(w, D, b) BY Zenon, <1>1 DEF Backs, Rests
<1>5. Clients(w, D, c)
  <2>1. Clients(s, D, c) BY Zenon, <1>0 DEF Sane
  <2>2. QED BY Zenon, <1>1, <2>1 DEF Clients, Rested
<1>6. Pool(w)
  <2>1. Pool(s) BY Zenon DEF Sane
  <2>2. ~InPool(s, b) BY Zenon DEF InPool
  <2>3. InPool(w, b) <=> w.bec[b].idle BY Zenon, <1>1 DEF InPool, Rests
  <2>4. ASSUME NEW d \in Back \ {b} PROVE InPool(w, d) <=> InPool(s, d)
    <3>1. d \in Nc \ {c, b} BY Zenon, LBAssumption DEF Nc
    <3>2. w.nc[d] = s.nc[d] /\ w.bec[d] = s.bec[d] BY Zenon, <1>1, <3>1 DEF Apart
    <3>3. QED BY Zenon, <3>2 DEF InPool
  <2>5. CASE ~w.bec[b].idle
    <3>1. w.pool = s.pool /\ w.num_conns = s.num_conns BY Zenon, <2>5 DEF Rested
    <3>2. \A d \in Back : InPool(w, d) <=> InPool(s, d) BY Zenon, <2>2, <2>3, <2>4, <2>5
    <3>3. QED BY Zenon, <2>1, <3>1, <3>2, PoolKept
  <2>6. CASE w.bec[b].idle
    <3>0. s.pool \in Seq(Back) /\ s.num_conns \in Int BY Zenon, Entries
    <3>1. w.pool = Append(s.pool, b) /\ w.num_conns = s.num_conns + 1 BY Zenon, <2>6 DEF Rested
    <3>2. Range1(s.pool) = {d \in Back : InPool(s, d)} /\ Distinct(s.pool) /\ Len(s.pool) <= s.num_conns
      BY Zenon, <2>1 DEF Pool
    <3>3. b \notin Range1(s.pool) BY Zenon, <2>2, <3>2
    <3>4. /\ Len(w.pool) = Len(s.pool) + 1 /\ Range1(w.pool) = Range1(s.pool) \cup {b} /\ Distinct(w.pool)
      BY SMT, <3>0, <3>1, <3>2, <3>3, AtEnd
    <3>5. Len(w.pool) <= w.num_conns
      <4>1. Len(s.pool) \in Nat BY SMT, <3>0
      <4>2. QED BY SMT, <3>0, <3>1, <3>2, <3>4, <4>1
    <3>6. {d \in Back : InPool(w, d)} = {d \in Back : InPool(s, d)} \cup {b} BY Zenon, <2>3, <2>4, <2>6
    <3>7. QED BY Zenon, <3>2, <3>4, <3>5, <3>6 DEF Pool
  <2>7. QED BY Zenon, <2>5, <2>6
<1>7. Listed(w)
  <2>1. ASSUME NEW y \in Nc, w.nc[y].st # "free" PROVE s.nc[y].st # "free"
    BY Zenon, <1>1, <2>1 DEF Apart
  <2>2. w.list = s.list BY Zenon DEF Rested
  <2>3. QED BY Zenon, <2>1, <2>2 DEF Sane, Listed
<1>8. Only(s, w, c, b, D, D) BY Zenon, <1>1, <1>2, <1>3 DEF Only
<1>9. Settled(w, c, b, D, NULL) BY Zenon, <1>4, <1>5, <1>6, <1>7 DEF Settled
<1>10. QED BY Zenon, <1>8, <1>9, Touch


\* The connection goes to the end of the pool.
pools(s, b) == [s EXCEPT !.pool = Append(@, b), !.num_conns = @ + 1]

\* What the client of a reply is left with.
Relieved(s, t, c) ==
    /\ t.nc[c].st = s.nc[c].st /\ t.nc[c].part = s.nc[c].part
    /\ t.conn[c].be_conn = NULL /\ t.conn[c].body_len = 0 /\ t.told[c] \in {"keep", "close"}

\* A connection that works for a client, and whose reply has been forwarded, is
\* released.
LEMMA ReleaseGood ==
    ASSUME NEW s \in Mem, NEW u, NEW c \in Client, NEW b \in Back, NEW keep \in BOOLEAN, NEW D, Good(s, D, NULL),
           s.nc[b].st = "open", Serves(s, b, c), b \notin D, Answered(s, u, c, b), NEW t,
           t = release_backend(u, c, keep)
    PROVE  /\ Good(t, D, NULL) /\ Others(s, t, c) /\ Relieved(s, t, c) /\ t.nc[b].handler = "idle"
<1>0. b \in Nc /\ c \in Nc /\ b # c /\ b # NULL /\ "CLOSE_IMMEDIATELY" \in Flag BY Zenon, LBAssumption DEF Nc, Flag
<1>1. u \in Mem /\ u.conn[c].be_conn = b /\ u.bec[b].nc /\ u.bec[b].mem /\ u.owed[b] = NULL
  BY Zenon DEF Answered, Serves, SameConn
<1>w. PICK w : w = loosens(u, c, b, keep) BY Zenon
<1>2. Loose(u, w, c, b, keep) /\ w \in Mem
  <2>1. Loose(u, w, c, b, keep) BY Zenon, <1>1, <1>w, Loosens
  <2>2. QED BY Zenon, <2>1 DEF Loose
<1>3. /\ \A y \in Nc \ {b} : w.nc[y] = s.nc[y]
      /\ \A d \in Client \ {c} : w.conn[d] = s.conn[d] /\ w.told[d] = s.told[d]
      /\ \A d \in Back \ {b} : w.bec[d] = s.bec[d] /\ w.owed[d] = s.owed[d]
      /\ w.told[c] \in {"keep", "close"} /\ SameRest(s, w)
  <2>1. \A y \in Nc \ {b} : w.nc[y] = s.nc[y] BY Zenon, <1>2 DEF Loose, Answered
  <2>2. \A d \in Client \ {c} : w.conn[d] = s.conn[d] /\ w.told[d] = s.told[d] BY Zenon, <1>2 DEF Loose, Answered
  <2>3. \A d \in Back \ {b} : w.bec[d] = s.bec[d] /\ w.owed[d] = s.owed[d] BY Zenon, <1>2 DEF Loose, Answered
  <2>4. w.told[c] \in {"keep", "close"} /\ SameRest(s, w) BY Zenon, <1>2 DEF Loose, Answered, SameRest
  <2>5. QED BY Zenon, <2>1, <2>2, <2>3, <2>4
<1>4. /\ w.conn[c].mem = s.conn[c].mem /\ w.conn[c].client = s.conn[c].client /\ w.conn[c].body_len = 0
      /\ w.conn[c].backend = NULL /\ w.conn[c].be_conn = NULL
  BY Zenon, <1>2 DEF Loose, Answered, SameConn
<1>5. Rests(w, b) /\ w.bec[b].idle = keep
  <2>1. w.nc[b].st = "open" /\ w.nc[b].handler = "idle" /\ w.owed[b] = NULL BY Zenon, <1>1, <1>2 DEF Loose, Answered
  <2>2. w.bec[b].mem /\ w.bec[b].nc /\ w.bec[b].idle = keep BY Zenon, <1>1, <1>2 DEF Loose
  <2>3. QED BY Zenon, <2>1, <2>2 DEF Rests
<1>6. Sane(s, D, NULL) /\ s.num_conns <= MaxIdle /\ s.nc[b].handler = "ev" BY Zenon DEF Good, Serves
<1>7. ASSUME NEW v, Calm(v, t), v.conn = w.conn, v.told = w.told, v.nc = w.nc, v.crashed = w.crashed
      PROVE  Others(s, t, c) /\ Relieved(s, t, c) /\ t.nc[b].handler = "idle"
  <2>1. \A y \in Nc : SameNc(w.nc[y], t.nc[y]) BY Zenon, <1>7 DEF Calm
  <2>2. \A d \in Client : d \in Nc /\ d # b BY Zenon, LBAssumption DEF Nc
  <2>3. ASSUME NEW d \in Client PROVE t.nc[d] = s.nc[d]
    <3>1. t.nc[d] = v.nc[d] BY Zenon, <1>7 DEF Calm
    <3>2. w.nc[d] = s.nc[d] BY Zenon, <1>3, <2>2
    <3>3. QED BY Zenon, <1>7, <3>1, <3>2
  <2>4. ASSUME NEW y \in Nc, s.nc[y].st # "free" PROVE t.nc[y].st # "free"
    <3>1. CASE y = b BY Zenon, <1>5, <2>1, <3>1 DEF Rests, SameNc
    <3>2. CASE y # b BY Zenon, <1>3, <2>1, <2>4, <3>2 DEF SameNc
    <3>3. QED BY Zenon, <3>1, <3>2
  <2>5. t.crashed = s.crashed /\ t.conn = w.conn /\ t.told = w.told BY Zenon, <1>3, <1>7 DEF Calm, SameRest
  <2>6. Others(s, t, c) BY Zenon, <1>3, <2>3, <2>4, <2>5 DEF Others
  <2>7. Relieved(s, t, c) BY Zenon, <1>3, <1>4, <2>3, <2>5 DEF Relieved
  <2>8. t.nc[b].handler = "idle" BY Zenon, <1>0, <1>5, <2>1 DEF Rests, SameNc
  <2>9. QED BY Zenon, <2>6, <2>7, <2>8
<1>8. \A y \in Nc : SameNc(w.nc[y], w.nc[y]) BY Zenon DEF SameNc
<1>9. CASE ~keep
  <2>1. t = flag(w, b, "CLOSE_IMMEDIATELY") BY Zenon, <1>1, <1>9, <1>w DEF release_backend, loosens
  <2>2. Rested(s, w, c, b)
    <3>1. Apart(s, w, c, b) BY Zenon, <1>3 DEF Apart
    <3>2. QED BY Zenon, <1>0, <1>3, <1>4, <1>5, <1>9, <3>1 DEF Rested, SameRest
  <2>3. Sane(w, D, NULL) BY Zenon, <1>6, <2>2, RestedSane
  <2>4. Sane(t, D, NULL) BY Zenon, <1>0, <1>2, <1>5, <2>1, <2>3, FlagSane DEF Rests
  <2>5. Marked(w, t, b) BY SMT, <1>0, <1>2, <2>1, FlagSet
  <2>6. t \in Mem /\ t.num_conns = s.num_conns BY Zenon, <1>3, <2>5 DEF Marked, SameRest
  <2>7. Calm(w, t)
    <3>1. \A d \in Client : d \in Nc \ {b} BY Zenon, LBAssumption DEF Nc
    <3>2. QED BY Zenon, <2>5, <3>1 DEF Marked, Calm, SameRest, SameNc
  <2>8. QED BY Zenon, <1>6, <1>7, <2>4, <2>6, <2>7 DEF Good
<1>10. CASE keep
  <2>v. PICK v : v = pools(w, b) BY Zenon
  <2>1. t = evict(v) BY Zenon, <1>1, <1>10, <1>w, <2>v DEF release_backend, loosens, pools
  <2>2. w.pool \in Seq(Back) /\ w.num_conns \in Int /\ MaxIdle \in Nat BY Zenon, <1>2, Entries, LBAssumption
  <2>p. PICK P : P = Append(w.pool, b) BY Zenon
  <2>3. P \in Seq(Back) /\ P # <<>> BY SMT, <2>2, <2>p
  <2>n. PICK n : n = w.num_conns + 1 BY Zenon
  <2>4. n \in Int /\ n <= MaxIdle + 1
    <3>1. w.num_conns <= MaxIdle BY Zenon, <1>3, <1>6 DEF SameRest
    <3>2. QED BY SMT, <2>2, <2>n, <3>1
  <2>5. Parts([w EXCEPT !.pool = P, !.num_conns = n], w.nc, w.conn, w.bec, P, n, w.list, w.owed, w.told, w.crashed)
    BY Zenon, <1>2, <2>3, <2>4 DEF Parts, Mem, Pools
  <2>6. v = [w EXCEPT !.pool = P, !.num_conns = n] BY Zenon, <2>v, <2>p, <2>n DEF pools
  <2>7. /\ v \in Mem /\ v.nc = w.nc /\ v.conn = w.conn /\ v.bec = w.bec /\ v.owed = w.owed /\ v.told = w.told
        /\ v.pool = P /\ v.num_conns = n /\ v.list = w.list /\ v.crashed = w.crashed
    BY Zenon, <2>5, <2>6 DEF Parts
  <2>8. Rested(s, v, c, b)
    <3>1. Apart(s, v, c, b) BY Zenon, <1>3, <2>7 DEF Apart
    <3>2. Rests(v, b) /\ v.bec[b].idle BY Zenon, <1>5, <1>10, <2>7 DEF Rests
    <3>3. v.pool = Append(s.pool, b) /\ v.num_conns = s.num_conns + 1 BY Zenon, <1>3, <2>7, <2>p, <2>n DEF SameRest
    <3>4. v.nc[c] = s.nc[c] /\ v.list = s.list /\ v.crashed = s.crashed BY Zenon, <1>0, <1>3, <2>7 DEF SameRest
    <3>5. QED BY Zenon, <1>4, <2>7, <3>1, <3>2, <3>3, <3>4 DEF Rested
  <2>9. Sane(v, D, NULL) BY Zenon, <1>6, <2>8, RestedSane
  <2>10. t \in Mem /\ Sane(t, D, NULL) /\ Calm(v, t) /\ t.num_conns <= MaxIdle
    BY Zenon, <2>1, <2>3, <2>4, <2>7, <2>9, EvictSane
  <2>11. QED BY Zenon, <1>7, <2>7, <2>10 DEF Good
<1>11. QED BY Zenon, <1>9, <1>10


\* A backend connection in the hands of ev_handler() works for a client, unless
\* it could not be connected.
LEMMA Working ==
    ASSUME NEW s, NEW D, NEW b \in Back, Sane(s, D, NULL), s.nc[b].st # "free", s.nc[b].handler = "ev", b \notin D
    PROVE  \E c \in Client : Serves(s, b, c)
<1>1. Backs(s, D, b) BY Zenon, LBAssumption DEF Sane
<1>2. QED BY Zenon, <1>1 DEF Backs, Rests

\* An open connection is not one that could not be connected.
LEMMA OpenIsWell ==
    ASSUME NEW s, NEW D, NEW b \in Back, Sane(s, D, NULL), s.nc[b].st = "open"
    PROVE  b \notin D
<1>1. Backs(s, D, b) BY Zenon, LBAssumption DEF Sane
<1>2. QED BY Zenon, <1>1 DEF Backs, Failed

\* A reply to a client that is there.
LEMMA ReplyGood ==
    ASSUME NEW s \in Mem, NEW c \in Client, NEW b \in Back, NEW keep \in BOOLEAN, NEW D, Good(s, D, NULL),
           s.nc[b].st = "open", Serves(s, b, c), s.conn[c].client, NEW t, t = on_reply(s, b, keep)
    PROVE  Good(t, D, NULL) /\ Others(s, t, c) /\ Relieved(s, t, c) /\ t.nc[b].handler = "idle"
<1>0. c \in Nc /\ c # NULL /\ b # c /\ "SEND_AND_CLOSE" \in Flag /\ s.nc[b].ud = c
  BY Zenon, LBAssumption DEF Nc, Flag, Serves
<1>1. b \notin D /\ Clients(s, D, c)
  <2>1. Sane(s, D, NULL) BY Zenon DEF Good
  <2>2. b \notin D BY Zenon, <2>1, OpenIsWell
  <2>3. Clients(s, D, c) BY Zenon, <1>0, <2>1 DEF Sane
  <2>4. QED BY Zenon, <2>2, <2>3
<1>u. PICK u : u = answers(s, c, b) BY Zenon
<1>r. PICK r : r = release_backend(u, c, keep) BY Zenon
<1>2. Answered(s, u, c, b) BY Zenon, <1>u, Answers
<1>3. Good(r, D, NULL) /\ Others(s, r, c) /\ Relieved(s, r, c) /\ r.nc[b].handler = "idle"
  BY SMT, <1>1, <1>2, <1>r, ReleaseGood
<1>4. t = IF s.conn[c].keep_alive THEN r ELSE flag(r, c, "SEND_AND_CLOSE")
  BY SMT, <1>0, <1>u, <1>r DEF on_reply, answers
<1>5. CASE s.conn[c].keep_alive BY Zenon, <1>3, <1>4, <1>5
<1>6. CASE ~s.conn[c].keep_alive
  <2>1. r \in Mem /\ Sane(r, D, NULL) /\ r.num_conns <= MaxIdle BY Zenon, <1>3 DEF Good
  <2>2. r.nc[c].st = s.nc[c].st BY Zenon, <1>3 DEF Relieved
  <2>3. s.nc[c].st # "free" BY Zenon, <1>1 DEF Clients
  <2>4. c \notin Back BY Zenon, LBAssumption
  <2>5. t = flag(r, c, "SEND_AND_CLOSE") BY Zenon, <1>4, <1>6
  <2>6. Sane(t, D, NULL) BY Zenon, <1>0, <2>1, <2>2, <2>3, <2>4, <2>5, FlagSane
  <2>7. Marked(r, t, c) BY SMT, <1>0, <2>1, <2>5, FlagSet
  <2>8. Good(t, D, NULL) BY Zenon, <2>1, <2>6, <2>7 DEF Good, Marked, SameRest
  <2>9. Relieved(s, t, c) BY Zenon, <1>3, <2>7 DEF Marked, Relieved, SameNc
  <2>10. Others(s, t, c)
    <3>1. \A d \in Client \ {c} : d \in Nc \ {c} BY Zenon DEF Nc
    <3>2. t.conn = r.conn /\ t.told = r.told /\ t.crashed = r.crashed BY Zenon, <2>7 DEF Marked, SameRest
    <3>3. \A y \in Nc : t.nc[y].st = r.nc[y].st BY Zenon, <2>7 DEF Marked, SameNc
    <3>4. \A d \in Client \ {c} : t.nc[d] = r.nc[d] BY Zenon, <2>7, <3>1 DEF Marked
    <3>5. QED BY Zenon, <1>3, <3>2, <3>3, <3>4 DEF Others
  <2>11. t.nc[b].handler = "idle" BY Zenon, <1>0, <1>3, <2>7 DEF Marked, SameNc, Nc
  <2>12. QED BY Zenon, <2>8, <2>9, <2>10, <2>11
<1>7. QED BY Zenon, <1>5, <1>6

\* A reply to a client that has gone.
Crash(s, t) ==
    /\ t \in Mem /\ t.crashed /\ t.nc = s.nc /\ t.conn = s.conn /\ t.bec = s.bec /\ t.owed = s.owed /\ t.told = s.told
    /\ t.pool = s.pool /\ t.num_conns = s.num_conns /\ t.list = s.list

\* A reply to a client that has gone stops the program and changes nothing else.
LEMMA ReplyCrash ==
    ASSUME NEW s \in Mem, NEW b \in Back, NEW keep, NEW D, Good(s, D, NULL), ~s.conn[s.nc[b].ud].client, NEW t,
           t = on_reply(s, b, keep)
    PROVE  Crash(s, t) /\ Good(t, D, NULL)
<1>1. Parts([s EXCEPT !.crashed = TRUE], s.nc, s.conn, s.bec, s.pool, s.num_conns, s.list, s.owed, s.told, TRUE)
  BY Zenon DEF Parts, Mem
<1>2. t = [s EXCEPT !.crashed = TRUE] BY Zenon DEF on_reply
<1>3. Crash(s, t) BY Zenon, <1>1, <1>2 DEF Parts, Crash
<1>4. \A d : (Backs(t, D, d) <=> Backs(s, D, d)) /\ (Clients(t, D, d) <=> Clients(s, D, d))
  BY SMT, <1>3 DEF Crash, Backs, Clients, Failed, Rests, Serves
<1>5. Pool(t)
  <2>1. \A d \in Back : InPool(t, d) <=> InPool(s, d) BY Zenon, <1>3 DEF Crash, InPool
  <2>2. Pool(s) BY Zenon DEF Good, Sane
  <2>3. QED BY Zenon, <1>3, <2>1, <2>2, PoolKept DEF Crash
<1>6. Listed(t) BY Zenon, <1>3 DEF Crash, Listed, Good, Sane
<1>7. QED BY Zenon, <1>3, <1>4, <1>5, <1>6 DEF Good, Sane, Crash


-----------------------------------------------------------------------------
(* NS_CONNECT                                                              *)

\* What on_connect() does when the connection is there; the client sees nothing.
opens(s, b) == [s EXCEPT !.nc[b].st = "open"]
Unseen(s, t, c) == t.nc[c] = s.nc[c] /\ t.conn = s.conn /\ t.told = s.told

\* The connection is there.
LEMMA ConnectGood ==
    ASSUME NEW s \in Mem, NEW c \in Client, NEW b \in Back, NEW D, Good(s, D, NULL), s.nc[b].st = "connecting",
           b \notin D, Serves(s, b, c), NEW t, t = opens(s, b)
    PROVE  Good(t, D, NULL) /\ Others(s, t, c) /\ Unseen(s, t, c)
<1>0. b \in Nc /\ c \in Nc /\ b # c /\ c # NULL /\ b # NULL BY Zenon, LBAssumption DEF Nc
<1>1. s.nc \in Ncs /\ s.nc[b] \in NcType BY Zenon, <1>0, Entries
<1>r. PICK r : r = [s.nc[b] EXCEPT !.st = "open"] BY Zenon
<1>2. r \in NcType /\ r.st = "open" /\ r.handler = s.nc[b].handler /\ r.ud = s.nc[b].ud BY Zenon, <1>1, <1>r DEF NcType
<1>n. PICK N : N = [s.nc EXCEPT ![b] = r] BY Zenon
<1>3. N \in Ncs /\ N[b] = r /\ \A y \in Nc \ {b} : N[y] = s.nc[y] BY SMT, <1>0, <1>1, <1>2, <1>n DEF Ncs
<1>4. Parts([s EXCEPT !.nc = N], N, s.conn, s.bec, s.pool, s.num_conns, s.list, s.owed, s.told, s.crashed)
  BY Zenon, <1>3 DEF Parts, Mem
<1>5. t = [s EXCEPT !.nc = N] BY Zenon, <1>r, <1>n DEF opens
<1>6. /\ t \in Mem /\ t.nc = N /\ t.conn = s.conn /\ t.owed = s.owed /\ t.bec = s.bec /\ t.told = s.told /\ SameRest(s, t)
  BY Zenon, <1>4, <1>5 DEF Parts, SameRest
<1>7. Apart(s, t, c, b) BY Zenon, <1>3, <1>6 DEF Apart
<1>8. Serves(t, b, c) /\ t.nc[b].st = "open" BY Zenon, <1>2, <1>3, <1>6 DEF Serves
<1>9. Backs(t, D, b) BY Zenon, <1>8 DEF Backs
<1>10. Clients(t, D, c)
  <2>1. Clients(s, D, c) /\ t.nc[c] = s.nc[c] BY Zenon, <1>0, <1>3, <1>6 DEF Good, Sane
  <2>2. CASE s.nc[c].st = "free" BY Zenon, <1>6, <2>1, <2>2 DEF Clients
  <2>3. CASE s.nc[c].st # "free"
    <3>1. t.conn[c].backend = b BY Zenon, <1>6 DEF Serves
    <3>2. t.nc[b].st = "open" /\ t.nc[b].handler = "ev" /\ t.nc[b].ud = c BY Zenon, <1>8 DEF Serves
    <3>3. /\ t.nc[c].st = "open" /\ t.nc[c].handler = "ev" /\ t.conn[c].client /\ t.conn[c].mem
      BY Zenon, <1>6, <2>1, <2>3 DEF Clients
    <3>4. t.nc[b].st # "free" BY Zenon, <3>2
    <3>5. QED BY Zenon, <3>1, <3>2, <3>3, <3>4, ClientHas
  <2>4. QED BY Zenon, <2>2, <2>3
<1>11. Pool(t)
  <2>1. ASSUME NEW d \in Back PROVE InPool(t, d) <=> InPool(s, d)
    <3>1. CASE d = b BY Zenon, <1>2, <1>3, <1>6, <3>1 DEF InPool, Serves
    <3>2. CASE d # b BY Zenon, <1>3, <1>6, <3>2 DEF InPool, Nc
    <3>3. QED BY Zenon, <3>1, <3>2
  <2>2. Pool(s) BY Zenon DEF Good, Sane
  <2>3. t.pool = s.pool /\ t.num_conns = s.num_conns BY Zenon, <1>6 DEF SameRest
  <2>4. QED BY Zenon, <2>1, <2>2, <2>3, PoolKept
<1>12. \A y \in Nc : s.nc[y].st # "free" <=> t.nc[y].st # "free" BY Zenon, <1>2, <1>3, <1>6
<1>13. Listed(t) BY Zenon, <1>6, <1>12 DEF Good, Sane, Listed, SameRest
<1>14. Only(s, t, c, b, D, D)
  <2>1. \A d \in Back \ {b} : c \in Client /\ Serves(s, d, c) => Serves(t, d, c) BY Zenon DEF Serves
  <2>2. NoOthers(s, c, b) BY Zenon DEF NoOthers, Serves
  <2>3. QED BY Zenon, <1>7, <2>1, <2>2 DEF Only
<1>a. Settled(t, c, b, D, NULL) BY Zenon, <1>9, <1>10, <1>11, <1>13 DEF Settled
<1>15. Sane(t, D, NULL) BY Zenon, <1>14, <1>a, Touch DEF Good
<1>16. Good(t, D, NULL) BY Zenon, <1>6, <1>15 DEF Good, SameRest
<1>17. Others(s, t, c) /\ t.nc[c] = s.nc[c]
  <2>1. \A d \in Client : d \in Nc \ {b} BY Zenon, LBAssumption DEF Nc
  <2>2. QED BY Zenon, <1>3, <1>6, <1>12, <2>1 DEF Others, SameRest
<1>18. QED BY Zenon, <1>6, <1>16, <1>17 DEF Unseen

\* The assignment to the be_conn when the connection could not be made.
unlinks(s, b) == [s EXCEPT !.bec[b].nc = FALSE]
frees(s, b) == [s EXCEPT !.bec[b] = NoBec]

\* Only the be_conn of b changes.
BecOnly(s, t, b) ==
    /\ t \in Mem /\ t.nc = s.nc /\ t.conn = s.conn /\ t.owed = s.owed /\ t.told = s.told /\ SameRest(s, t)
    /\ \A d \in Back \ {b} : t.bec[d] = s.bec[d]

\* Both assignments touch only be_conn.
LEMMA Unlinks ==
    ASSUME NEW s \in Mem, NEW b \in Back
    PROVE  /\ BecOnly(s, unlinks(s, b), b) /\ ~unlinks(s, b).bec[b].nc
           /\ BecOnly(s, frees(s, b), b) /\ frees(s, b).bec[b] = NoBec
<1>1. s.bec \in Becs /\ s.bec[b] \in BecType BY Zenon, Entries
<1>2. ASSUME NEW k \in BecType
      PROVE  BecOnly(s, [s EXCEPT !.bec[b] = k], b) /\ [s EXCEPT !.bec[b] = k].bec[b] = k
  <2>q. PICK B : B = [s.bec EXCEPT ![b] = k] BY Zenon
  <2>1. B \in Becs /\ B[b] = k /\ \A d \in Back \ {b} : B[d] = s.bec[d] BY SMT, <1>1, <2>q DEF Becs
  <2>2. Parts([s EXCEPT !.bec = B], s.nc, s.conn, B, s.pool, s.num_conns, s.list, s.owed, s.told, s.crashed)
    BY Zenon, <2>1 DEF Parts, Mem
  <2>t. PICK t : t = [s EXCEPT !.bec = B] BY Zenon
  <2>3. BecOnly(s, t, b) /\ t.bec[b] = k BY Zenon, <2>1, <2>2, <2>t DEF Parts, BecOnly, SameRest
  <2>4. t = [s EXCEPT !.bec[b] = k] BY Zenon, <2>q, <2>t
  <2>5. QED BY Zenon, <2>3, <2>4
<1>3. NoBec \in BecType BY SMT DEF NoBec, BecType
<1>k. PICK k : k = [s.bec[b] EXCEPT !.nc = FALSE] BY Zenon
<1>4. k \in BecType /\ ~k.nc BY Zenon, <1>1, <1>k DEF BecType
<1>5. unlinks(s, b) = [s EXCEPT !.bec[b] = k] BY Zenon, <1>k DEF unlinks
<1>6. BecOnly(s, unlinks(s, b), b) /\ ~unlinks(s, b).bec[b].nc BY Zenon, <1>2, <1>4, <1>5
<1>7. BecOnly(s, frees(s, b), b) /\ frees(s, b).bec[b] = NoBec BY Zenon, <1>2, <1>3 DEF frees
<1>8. QED BY Zenon, <1>6, <1>7


\* What a client whose backend connection could not be made is left with.
Refused(s, t, c) ==
    /\ t.nc[c].st = s.nc[c].st /\ t.nc[c].part = s.nc[c].part
    /\ t.conn[c].be_conn = NULL /\ t.conn[c].body_len = 0
    /\ t.told[c] \in {s.told[c], "close"}

\* The connection could not be made.
LEMMA ConnectFails ==
    ASSUME NEW s \in Mem, NEW c \in Client, NEW b \in Back, NEW D, Good(s, D, NULL), s.nc[b].st = "connecting",
           b \notin D, Serves(s, b, c), NEW t, t = on_connect(s, b, FALSE)
    PROVE  Good(t, D \cup {b}, NULL) /\ Others(s, t, c) /\ Refused(s, t, c)
<1>0. /\ b \in Nc /\ c \in Nc /\ b # c /\ c # NULL /\ b # NULL /\ "CLOSE_IMMEDIATELY" \in Flag
      /\ s.nc[b].ud = c /\ s.owed[b] = c /\ s.nc[b].handler = "ev" /\ s.conn[c].be_conn = b
  BY Zenon, LBAssumption DEF Nc, Flag, Serves
<1>v. PICK v : v = respond_with_error(s, c) BY Zenon
<1>1. Errs(s, v, c) /\ v \in Mem
  <2>1. Errs(s, v, c) BY Zenon, <1>v, Responds
  <2>2. QED BY Zenon, <2>1 DEF Errs
<1>w. PICK w : w = unlinks(v, b) BY Zenon
<1>2. BecOnly(v, w, b) /\ ~w.bec[b].nc /\ w \in Mem /\ w.conn[c].be_conn = b
  <2>1. BecOnly(v, w, b) /\ ~w.bec[b].nc BY Zenon, <1>1, <1>w, Unlinks
  <2>2. w \in Mem /\ w.conn = v.conn BY Zenon, <2>1 DEF BecOnly
  <2>3. v.conn[c].be_conn = b BY Zenon, <1>0, <1>1 DEF Errs, SameConn
  <2>4. QED BY Zenon, <2>1, <2>2, <2>3
<1>e. PICK e : e = detach(w, c) BY Zenon
<1>3. /\ e \in Mem /\ e.nc = w.nc /\ e.bec = w.bec /\ e.owed = w.owed /\ e.told = w.told /\ SameRest(w, e)
      /\ \A d \in Client \ {c} : e.conn[d] = w.conn[d]
      /\ e.conn[c].client = w.conn[c].client /\ e.conn[c].mem = w.conn[c].mem
      /\ e.conn[c].body_len = 0 /\ e.conn[c].backend = NULL /\ e.conn[c].be_conn = NULL
  BY Zenon, <1>2, <1>e, Detaches
<1>r. PICK r : r = frees(e, b) BY Zenon
<1>4. BecOnly(e, r, b) /\ r.bec[b] = NoBec /\ r \in Mem
  <2>1. BecOnly(e, r, b) /\ r.bec[b] = NoBec BY Zenon, <1>3, <1>r, Unlinks
  <2>2. QED BY Zenon, <2>1 DEF BecOnly
<1>5. t = flag(r, b, "CLOSE_IMMEDIATELY")
  <2>1. r = release_backend(w, c, FALSE) BY Zenon, <1>2, <1>e, <1>r DEF release_backend, frees
  <2>2. QED BY Zenon, <1>0, <1>v, <1>w, <2>1 DEF on_connect, unlinks
<1>6. Marked(r, t, b) /\ t.nc[b].flags = r.nc[b].flags \cup {"CLOSE_IMMEDIATELY"}
  <2>1. ASSUME NEW f \in Flag PROVE Marked(r, flag(r, b, f), b) /\ flag(r, b, f).nc[b].flags = r.nc[b].flags \cup {f}
    BY Zenon, <1>0, <1>4, FlagSet
  <2>2. QED BY Zenon, <1>0, <1>5, <2>1
<1>7. r.nc = v.nc /\ r.told = v.told /\ r.owed = s.owed /\ r.conn = e.conn /\ SameRest(s, r)
  <2>1. r.nc = v.nc /\ r.told = v.told /\ r.conn = e.conn BY Zenon, <1>2, <1>3, <1>4 DEF BecOnly
  <2>2. r.owed = s.owed BY Zenon, <1>1, <1>2, <1>3, <1>4 DEF BecOnly, Errs
  <2>3. SameRest(s, r) BY Zenon, <1>1, <1>2, <1>3, <1>4 DEF BecOnly, Errs, SameRest
  <2>4. QED BY Zenon, <2>1, <2>2, <2>3
<1>8. /\ t \in Mem /\ t.told = v.told /\ t.owed = s.owed /\ t.conn = e.conn /\ t.bec = r.bec /\ SameRest(s, t)
      /\ \A y \in Nc \ {b} : t.nc[y] = v.nc[y]
      /\ SameNc(v.nc[b], t.nc[b])
  <2>1. t.told = r.told /\ t.owed = r.owed /\ t.conn = r.conn /\ t.bec = r.bec /\ t \in Mem BY Zenon, <1>6 DEF Marked
  <2>2. (\A y \in Nc \ {b} : t.nc[y] = r.nc[y]) /\ SameNc(r.nc[b], t.nc[b]) BY Zenon, <1>6 DEF Marked
  <2>3. SameRest(s, t) BY Zenon, <1>6, <1>7 DEF Marked, SameRest
  <2>4. QED BY Zenon, <1>7, <2>1, <2>2, <2>3
<1>9. /\ \A y \in Nc \ {c} : v.nc[y] = s.nc[y]
      /\ \A d \in Client \ {c} : v.conn[d] = s.conn[d] /\ v.told[d] = s.told[d]
      /\ SameNc(s.nc[c], v.nc[c]) /\ SameConn(s.conn[c], v.conn[c]) /\ v.bec = s.bec
      /\ v.told[c] \in {s.told[c], "close"}
      /\ ~s.conn[c].client => v.nc[c] = s.nc[c]
  BY Zenon, <1>1 DEF Errs
<1>a. w.conn = v.conn BY Zenon, <1>2 DEF BecOnly
<1>b. \A d \in Back \ {b} : t.bec[d] = s.bec[d]
  <2>1. \A d \in Back \ {b} : w.bec[d] = v.bec[d] BY Zenon, <1>2 DEF BecOnly
  <2>2. \A d \in Back \ {b} : r.bec[d] = e.bec[d] BY Zenon, <1>4 DEF BecOnly
  <2>3. t.bec = r.bec /\ e.bec = w.bec /\ v.bec = s.bec BY Zenon, <1>3, <1>8, <1>9
  <2>4. QED BY Zenon, <2>1, <2>2, <2>3
<1>10. \A y \in Nc : SameNc(s.nc[y], t.nc[y])
  <2>1. ASSUME NEW y \in Nc PROVE SameNc(s.nc[y], t.nc[y])
    <3>1. CASE y = b BY Zenon, <1>0, <1>8, <1>9, <3>1
    <3>2. CASE y = c BY Zenon, <1>0, <1>8, <1>9, <3>2
    <3>3. CASE y # b /\ y # c BY Zenon, <1>8, <1>9, <3>3 DEF SameNc
    <3>4. QED BY Zenon, <3>1, <3>2, <3>3
  <2>2. QED BY Zenon, <2>1
<1>11. t.conn[c].client = s.conn[c].client /\ t.conn[c].mem = s.conn[c].mem
  BY Zenon, <1>3, <1>8, <1>9, <1>a DEF SameConn
<1>12. Apart(s, t, c, b)
  <2>1. \A y \in Nc \ {c, b} : t.nc[y] = s.nc[y] BY Zenon, <1>8, <1>9
  <2>a. \A d \in Client \ {c} : e.conn[d] = v.conn[d] BY Zenon, <1>3, <1>a
  <2>2. \A d \in Client \ {c} : t.conn[d] = s.conn[d] BY Zenon, <1>8, <1>9, <2>a
  <2>4. QED BY Zenon, <1>8, <1>9, <1>b, <2>1, <2>2 DEF Apart
<1>13. Backs(t, D \cup {b}, b)
  <2>1. t.nc[b].st = "connecting" /\ t.nc[b].handler = "ev" /\ t.nc[b].ud = c BY Zenon, <1>0, <1>10 DEF SameNc
  <2>2. t.owed[b] = c /\ "CLOSE_IMMEDIATELY" \in t.nc[b].flags BY Zenon, <1>0, <1>6, <1>8
  <2>3. Failed(t, b) BY Zenon, <2>1, <2>2 DEF Failed
  <2>4. QED BY Zenon, <2>3 DEF Backs
<1>14. Clients(t, D \cup {b}, c)
  <2>0. Clients(s, D, c) /\ SameNc(s.nc[c], t.nc[c]) BY Zenon, <1>0, <1>10 DEF Good, Sane
  <2>1. CASE s.nc[c].st = "free"
    <3>1. t.nc[c] = s.nc[c] BY Zenon, <1>0, <1>8, <1>9, <2>0, <2>1 DEF Clients
    <3>2. QED BY Zenon, <1>11, <2>0, <2>1, <3>1 DEF Clients
  <2>2. CASE s.nc[c].st # "free"
    <3>1. t.conn[c].backend = NULL BY Zenon, <1>3, <1>8
    <3>2. QED BY Zenon, <1>11, <2>0, <2>2, <3>1 DEF Clients, SameNc
  <2>3. QED BY Zenon, <2>1, <2>2
<1>15. Pool(t)
  <2>1. ASSUME NEW d \in Back PROVE InPool(t, d) <=> InPool(s, d)
    <3>1. CASE d = b BY Zenon, <1>0, <1>10, <3>1 DEF InPool, SameNc
    <3>2. CASE d # b
      <4>1. d \in Nc \ {c, b} BY Zenon, <3>2, LBAssumption DEF Nc
      <4>2. t.nc[d] = s.nc[d] /\ t.bec[d] = s.bec[d] BY Zenon, <1>12, <3>2, <4>1 DEF Apart
      <4>3. QED BY Zenon, <4>2 DEF InPool
    <3>3. QED BY Zenon, <3>1, <3>2
  <2>2. Pool(s) BY Zenon DEF Good, Sane
  <2>3. t.pool = s.pool /\ t.num_conns = s.num_conns BY Zenon, <1>8 DEF SameRest
  <2>4. QED BY Zenon, <2>1, <2>2, <2>3, PoolKept
<1>16. Listed(t) BY Zenon, <1>8, <1>10 DEF Good, Sane, Listed, SameRest, SameNc
<1>17. Only(s, t, c, b, D, D \cup {b})
  <2>1. \A d \in Back \ {b} : c \in Client /\ Serves(s, d, c) => Serves(t, d, c) BY Zenon DEF Serves
  <2>2. NoOthers(s, c, b) BY Zenon DEF NoOthers, Serves
  <2>3. \A d \in Back : d # b => (d \in D <=> d \in D \cup {b}) BY Zenon
  <2>4. QED BY Zenon, <1>12, <2>1, <2>2, <2>3 DEF Only
<1>c. Settled(t, c, b, D \cup {b}, NULL) BY Zenon, <1>13, <1>14, <1>15, <1>16 DEF Settled
<1>18. Sane(t, D \cup {b}, NULL) BY Zenon, <1>17, <1>c, Touch DEF Good
<1>19. Good(t, D \cup {b}, NULL) BY Zenon, <1>8, <1>18 DEF Good, SameRest
<1>20. Others(s, t, c)
  <2>1. \A d \in Client \ {c} : d \in Nc \ {c, b} BY Zenon, LBAssumption DEF Nc
  <2>2. \A d \in Client \ {c} : t.nc[d] = s.nc[d] BY Zenon, <1>12, <2>1 DEF Apart
  <2>3. \A y \in Nc : s.nc[y].st # "free" => t.nc[y].st # "free" BY Zenon, <1>10 DEF SameNc
  <2>4. QED BY Zenon, <1>8, <1>12, <2>2, <2>3 DEF Others, Apart, SameRest
<1>21. Refused(s, t, c) BY Zenon, <1>0, <1>3, <1>8, <1>9, <1>10 DEF Refused, SameNc
<1>22. QED BY Zenon, <1>19, <1>20, <1>21


-----------------------------------------------------------------------------
(* NS_CLOSE and the end of a connection                                    *)

\* free_conn(): conn_data goes when neither side is left.
Freed(s, t, c) ==
    /\ t \in Mem /\ t.nc = s.nc /\ t.bec = s.bec /\ t.owed = s.owed /\ t.told = s.told /\ SameRest(s, t)
    /\ \A d \in Client \ {c} : t.conn[d] = s.conn[d]
    /\ s.conn[c].client \/ s.conn[c].backend # NULL => t.conn[c] = s.conn[c]
    /\ ~s.conn[c].client /\ s.conn[c].backend = NULL => t.conn[c] = NoConn

\* free_conn() does that.
LEMMA Frees ==
    ASSUME NEW s \in Mem, NEW c \in Client
    PROVE  Freed(s, free_conn(s, c), c)
<1>t. PICK t : t = free_conn(s, c) BY Zenon
<1>1. CASE s.conn[c].client \/ s.conn[c].backend # NULL
  <2>1. t = s BY Zenon, <1>t, <1>1 DEF free_conn
  <2>2. QED BY Zenon, <1>t, <1>1, <2>1 DEF SameRest, Freed
<1>2. CASE ~(s.conn[c].client \/ s.conn[c].backend # NULL)
  <2>0. s.conn \in Conns BY Zenon, Entries
  <2>1. NoConn \in ConnType BY SMT DEF NoConn, ConnType
  <2>q. PICK Q : Q = [s.conn EXCEPT ![c] = NoConn] BY Zenon
  <2>2. Q \in Conns /\ Q[c] = NoConn /\ \A d \in Client \ {c} : Q[d] = s.conn[d] BY SMT, <2>0, <2>1, <2>q DEF Conns
  <2>3. Parts([s EXCEPT !.conn = Q], s.nc, Q, s.bec, s.pool, s.num_conns, s.list, s.owed, s.told, s.crashed)
    BY Zenon, <2>2 DEF Parts, Mem
  <2>4. t = [s EXCEPT !.conn = Q] BY Zenon, <1>t, <1>2, <2>q DEF free_conn
  <2>5. /\ t \in Mem /\ t.nc = s.nc /\ t.conn = Q /\ t.bec = s.bec /\ t.owed = s.owed /\ t.told = s.told /\ SameRest(s, t)
    BY Zenon, <2>3, <2>4 DEF Parts, SameRest
  <2>6. QED BY Zenon, <1>t, <1>2, <2>2, <2>5 DEF Freed
<1>3. QED BY Zenon, <1>1, <1>2

\* The two sides of conn_data.
leaves(s, c) == [s EXCEPT !.conn[c].client = FALSE]
cuts(s, c) == [s EXCEPT !.conn[c].backend = NULL]

\* Only conn_data of c changes, and that by k.
ConnOnly(s, t, c, k) ==
    /\ t \in Mem /\ t.nc = s.nc /\ t.bec = s.bec /\ t.owed = s.owed /\ t.told = s.told /\ SameRest(s, t)
    /\ \A d \in Client \ {c} : t.conn[d] = s.conn[d]
    /\ t.conn[c] = k

\* Both assignments touch only conn_data.
LEMMA Sides ==
    ASSUME NEW s \in Mem, NEW c \in Client
    PROVE  /\ ConnOnly(s, leaves(s, c), c, [s.conn[c] EXCEPT !.client = FALSE])
           /\ ConnOnly(s, cuts(s, c), c, [s.conn[c] EXCEPT !.backend = NULL])
<1>1. s.conn \in Conns /\ s.conn[c] \in ConnType BY Zenon, Entries
<1>2. ASSUME NEW k \in ConnType PROVE ConnOnly(s, [s EXCEPT !.conn[c] = k], c, k)
  <2>q. PICK Q : Q = [s.conn EXCEPT ![c] = k] BY Zenon
  <2>1. Q \in Conns /\ Q[c] = k /\ \A d \in Client \ {c} : Q[d] = s.conn[d] BY SMT, <1>1, <2>q DEF Conns
  <2>2. Parts([s EXCEPT !.conn = Q], s.nc, Q, s.bec, s.pool, s.num_conns, s.list, s.owed, s.told, s.crashed)
    BY Zenon, <2>1 DEF Parts, Mem
  <2>t. PICK t : t = [s EXCEPT !.conn = Q] BY Zenon
  <2>3. ConnOnly(s, t, c, k) BY Zenon, <2>1, <2>2, <2>t DEF Parts, ConnOnly, SameRest
  <2>4. t = [s EXCEPT !.conn[c] = k] BY Zenon, <2>q, <2>t
  <2>5. QED BY Zenon, <2>3, <2>4
<1>3. [s.conn[c] EXCEPT !.client = FALSE] \in ConnType BY Zenon, <1>1 DEF ConnType
<1>4. [s.conn[c] EXCEPT !.backend = NULL] \in ConnType BY Zenon, <1>1 DEF ConnType
<1>5. QED BY Zenon, <1>2, <1>3, <1>4 DEF leaves, cuts


\* The client closes.
LEMMA ClientCloses ==
    ASSUME NEW s \in Mem, NEW c \in Client, NEW D, Good(s, D, NULL), s.nc[c].st = "open", NEW t, t = on_close(s, c)
    PROVE  /\ Good(t, D, c) /\ Others(s, t, c) /\ t.nc[c] = s.nc[c] /\ t.told = s.told /\ ~t.conn[c].client
<1>0. c \in Nc /\ c # NULL /\ c \notin Back /\ NULL \notin Back /\ "CLOSE_IMMEDIATELY" \in Flag
  BY Zenon, LBAssumption DEF Nc, Flag
<1>1. Sane(s, D, NULL) /\ s.num_conns <= MaxIdle /\ s.conn[c] \in ConnType BY Zenon, Entries DEF Good
<1>2. Clients(s, D, c) BY Zenon, <1>0, <1>1 DEF Sane
<1>k. PICK k : k = [s.conn[c] EXCEPT !.client = FALSE] BY Zenon
<1>3. ~k.client /\ k.mem = s.conn[c].mem /\ k.backend = s.conn[c].backend /\ k.be_conn = s.conn[c].be_conn
  BY Zenon, <1>1, <1>k DEF ConnType
<1>u. PICK u : u = leaves(s, c) BY Zenon
<1>4. ConnOnly(s, u, c, k) BY Zenon, <1>u, <1>k, Sides
<1>5. /\ u \in Mem /\ u.nc = s.nc /\ u.bec = s.bec /\ u.owed = s.owed /\ u.told = s.told /\ SameRest(s, u)
      /\ u.conn[c] = k /\ \A d \in Client \ {c} : u.conn[d] = s.conn[d]
  BY Zenon, <1>4 DEF ConnOnly
<1>6. t = free_conn(drop_backend(u, c), c) BY Zenon, <1>u DEF on_close, leaves
<1>7. ASSUME NEW b \in Back \cup {NULL}, t \in Mem, Only(s, t, c, b, D, D), b \in Back => Backs(t, D, b),
             \A y \in Nc : SameNc(s.nc[y], t.nc[y]), t.bec = s.bec, SameRest(s, t), t.nc[c] = s.nc[c], t.told = s.told,
             ~t.conn[c].client
      PROVE  /\ Good(t, D, c) /\ Others(s, t, c) /\ t.nc[c] = s.nc[c] /\ t.told = s.told /\ ~t.conn[c].client
  <2>1. Pool(t)
    <3>1. \A d \in Back : InPool(t, d) <=> InPool(s, d) BY Zenon, <1>7 DEF InPool, SameNc, Nc
    <3>2. Pool(s) BY Zenon, <1>1 DEF Sane
    <3>3. QED BY Zenon, <1>7, <3>1, <3>2, PoolKept DEF SameRest
  <2>2. Listed(t) BY Zenon, <1>1, <1>7 DEF Sane, Listed, SameNc, SameRest
  <2>3. Settled(t, c, b, D, c) BY Zenon, <1>7, <2>1, <2>2 DEF Settled
  <2>4. Sane(t, D, c) BY Zenon, <1>1, <1>7, <2>3, Touch
  <2>5. Good(t, D, c) BY Zenon, <1>1, <1>7, <2>4 DEF Good, SameRest
  <2>6. \A d \in Client \ {c} : d \in Nc \ {c, b} BY Zenon, LBAssumption DEF Nc
  <2>7. \A d \in Client \ {c} : t.nc[d] = s.nc[d] /\ t.conn[d] = s.conn[d] /\ t.told[d] = s.told[d]
    BY Zenon, <1>7, <2>6 DEF Only, Apart
  <2>8. Others(s, t, c) BY Zenon, <1>7, <2>7 DEF Others, SameRest, SameNc
  <2>9. QED BY Zenon, <1>7, <2>5, <2>8
<1>8. CASE s.conn[c].backend = NULL
  <2>1. t = free_conn(u, c) BY Zenon, <1>3, <1>5, <1>6, <1>8 DEF drop_backend
  <2>2. /\ t \in Mem /\ t.nc = u.nc /\ t.bec = u.bec /\ t.owed = u.owed /\ t.told = u.told /\ SameRest(u, t)
        /\ \A d \in Client \ {c} : t.conn[d] = u.conn[d]
        /\ ~u.conn[c].client /\ u.conn[c].backend = NULL => t.conn[c] = NoConn
    <3>1. Freed(u, t, c) BY Zenon, <1>5, <2>1, Frees
    <3>2. QED BY Zenon, <3>1 DEF Freed
  <2>3. t.nc = s.nc /\ t.bec = s.bec /\ t.owed = s.owed /\ t.told = s.told /\ SameRest(s, t)
    BY Zenon, <1>5, <2>2 DEF SameRest
  <2>4. ~t.conn[c].client
    <3>1. t.conn[c] = NoConn BY Zenon, <1>3, <1>5, <1>8, <2>2
    <3>2. ~NoConn.client BY SMT DEF NoConn
    <3>3. QED BY Zenon, <3>1, <3>2
  <2>5. Apart(s, t, c, NULL) BY Zenon, <1>5, <2>2, <2>3 DEF Apart
  <2>6. \A d \in Back : ~Serves(s, d, c) BY Zenon, <1>0, <1>8 DEF Serves
  <2>7. Only(s, t, c, NULL, D, D) BY Zenon, <1>0, <2>5, <2>6 DEF Only
  <2>8. \A y \in Nc : SameNc(s.nc[y], t.nc[y]) BY Zenon, <2>3 DEF SameNc
  <2>9. QED BY Zenon, <1>0, <1>7, <2>2, <2>3, <2>4, <2>7, <2>8
<1>9. CASE s.conn[c].backend # NULL
  <2>b. PICK b : b = s.conn[c].backend BY Zenon
  <2>1. b \in Back /\ b \in Nc /\ b # c BY Zenon, <1>0, <1>1, <1>9, <2>b DEF ConnType, Nc
  <2>2. b \notin D /\ s.nc[b].st # "free" /\ s.nc[b].handler = "ev" /\ s.nc[b].ud = c
    BY Zenon, <1>2, <1>9, <2>b DEF Clients
  <2>3. Serves(s, b, c)
    <3>1. PICK e \in Client : Serves(s, b, e) BY Zenon, <1>1, <2>1, <2>2, Working
    <3>2. e = c BY Zenon, <2>2, <3>1 DEF Serves
    <3>3. QED BY Zenon, <3>1, <3>2
  <2>v. PICK v : v = flag(u, b, "CLOSE_IMMEDIATELY") BY Zenon
  <2>4. Marked(u, v, b) BY SMT, <1>0, <1>5, <2>1, <2>v, FlagSet
  <2>5. /\ v \in Mem /\ v.conn = u.conn /\ v.bec = s.bec /\ v.owed = s.owed /\ v.told = s.told /\ SameRest(s, v)
        /\ \A y \in Nc \ {b} : v.nc[y] = s.nc[y]
        /\ SameNc(s.nc[b], v.nc[b])
    <3>1. v \in Mem /\ v.conn = u.conn /\ v.bec = s.bec /\ v.owed = s.owed /\ v.told = s.told
      BY Zenon, <1>5, <2>4 DEF Marked
    <3>2. SameRest(s, v) BY Zenon, <1>5, <2>4 DEF Marked, SameRest
    <3>3. (\A y \in Nc \ {b} : v.nc[y] = u.nc[y]) /\ SameNc(u.nc[b], v.nc[b]) BY Zenon, <2>4 DEF Marked
    <3>4. QED BY Zenon, <1>5, <3>1, <3>2, <3>3
  <2>6. t = v
    <3>1. u.conn[c].backend = b /\ b # NULL BY Zenon, <1>3, <1>5, <1>9, <2>b
    <3>2. v = drop_backend(u, c) BY Zenon, <3>1, <2>v DEF drop_backend
    <3>3. v.conn[c].backend # NULL BY Zenon, <2>5, <3>1
    <3>4. QED BY Zenon, <1>6, <3>2, <3>3 DEF free_conn
  <2>7. Apart(s, v, c, b) BY Zenon, <1>5, <2>5 DEF Apart
  <2>8. Serves(v, b, c) BY Zenon, <1>3, <1>5, <2>3, <2>5 DEF Serves, SameNc
  <2>9. Backs(v, D, b) BY Zenon, <2>2, <2>5, <2>8 DEF Backs, SameNc
  <2>10. \A d \in Back \ {b} : c \in Client /\ Serves(s, d, c) => Serves(v, d, c) BY Zenon, <2>3 DEF Serves
  <2>11. Only(s, v, c, b, D, D) BY Zenon, <2>2, <2>7, <2>10 DEF Only, NoOthers
  <2>12. \A y \in Nc : SameNc(s.nc[y], v.nc[y]) BY Zenon, <2>5 DEF SameNc
  <2>13. v.nc[c] = s.nc[c] /\ ~v.conn[c].client BY Zenon, <1>0, <1>3, <1>5, <2>1, <2>5
  <2>14. QED BY Zenon, <1>7, <2>1, <2>5, <2>6, <2>9, <2>11, <2>12, <2>13
<1>10. QED BY Zenon, <1>8, <1>9


\* What a client whose backend connection has closed is left with.
Lost(s, t, c) ==
    /\ t.nc[c].st = s.nc[c].st /\ t.nc[c].part = s.nc[c].part /\ t.told[c] \in {s.told[c], "close"}
    /\ s.conn[c].client =>
          /\ t.conn[c].be_conn = s.conn[c].be_conn /\ t.conn[c].body_len = s.conn[c].body_len
          /\ s.conn[c].body_len < 0 => s.conn[c].headers \/ t.told[c] = "close"
          /\ t.conn[c].headers => s.conn[c].headers \/ t.told[c] = "close"

\* A backend connection that works for a client closes.
LEMMA BackCloses ==
    ASSUME NEW s \in Mem, NEW c \in Client, NEW b \in Back, NEW D, Good(s, D, NULL), s.nc[b].st = "open",
           Serves(s, b, c), b \notin D, NEW t, t = on_close(s, b)
    PROVE  /\ Good(t, D, b) /\ Others(s, t, c) /\ Lost(s, t, c)
           /\ t.nc[b] = s.nc[b] /\ t.conn[c].backend = NULL
<1>0. /\ c \in Nc /\ b \in Nc /\ c # NULL /\ b # NULL /\ b # c /\ c \notin Back /\ b \notin Client
      /\ s.nc[b].ud = c /\ s.conn[c].be_conn = b /\ s.nc[b].handler = "ev"
  BY Zenon, LBAssumption DEF Nc, Serves
<1>1. Sane(s, D, NULL) /\ s.num_conns <= MaxIdle /\ s.conn[c] \in ConnType BY Zenon, Entries DEF Good
<1>2. Clients(s, D, c) BY Zenon, <1>0, <1>1 DEF Sane
<1>k. PICK k : k = [s.conn[c] EXCEPT !.backend = NULL] BY Zenon
<1>3. /\ k.client = s.conn[c].client /\ k.mem = s.conn[c].mem /\ k.backend = NULL /\ k.be_conn = s.conn[c].be_conn
      /\ k.headers = s.conn[c].headers /\ k.body_len = s.conn[c].body_len
  BY Zenon, <1>1, <1>k DEF ConnType
<1>u. PICK u : u = cuts(s, c) BY Zenon
<1>4. ConnOnly(s, u, c, k) BY Zenon, <1>u, <1>k, Sides
<1>5. /\ u \in Mem /\ u.nc = s.nc /\ u.bec = s.bec /\ u.owed = s.owed /\ u.told = s.told /\ SameRest(s, u)
      /\ u.conn[c] = k /\ \A d \in Client \ {c} : u.conn[d] = s.conn[d]
  BY Zenon, <1>4 DEF ConnOnly
<1>6. Sane(u, D, b)
  <2>1. Apart(s, u, c, b) BY Zenon, <1>5 DEF Apart
  <2>2. \A d \in Back \ {b} : c \in Client /\ Serves(s, d, c) => Serves(u, d, c) BY Zenon DEF Serves
  <2>3. Only(s, u, c, b, D, D) BY Zenon, <1>0, <2>1, <2>2 DEF Only, NoOthers
  <2>4. Clients(u, D, c)
    <3>1. CASE s.nc[c].st = "free" BY Zenon, <1>2, <1>3, <1>5, <3>1 DEF Clients
    <3>2. CASE s.nc[c].st # "free" BY Zenon, <1>2, <1>3, <1>5, <3>2 DEF Clients
    <3>3. QED BY Zenon, <3>1, <3>2
  <2>5. Pool(u)
    <3>1. \A d \in Back : InPool(u, d) <=> InPool(s, d) BY Zenon, <1>5 DEF InPool
    <3>2. Pool(s) BY Zenon, <1>1 DEF Sane
    <3>3. QED BY Zenon, <1>5, <3>1, <3>2, PoolKept DEF SameRest
  <2>6. Listed(u) BY Zenon, <1>1, <1>5 DEF Sane, Listed, SameRest
  <2>7. Settled(u, c, b, D, b) BY Zenon, <2>4, <2>5, <2>6 DEF Settled
  <2>8. QED BY SMT, <1>1, <2>3, <2>7, Touch
<1>v. PICK v : v = IF u.conn[c].client /\ u.conn[c].body_len < 0 THEN respond_with_error(u, c) ELSE u BY Zenon
<1>7. /\ v \in Mem /\ Sane(v, D, b) /\ v.bec = s.bec /\ v.owed = s.owed /\ SameRest(s, v)
      /\ \A y \in Nc \ {c} : v.nc[y] = s.nc[y]
      /\ \A d \in Client \ {c} : v.conn[d] = s.conn[d] /\ v.told[d] = s.told[d]
      /\ SameNc(s.nc[c], v.nc[c]) /\ SameConn(k, v.conn[c]) /\ v.told[c] \in {s.told[c], "close"}
      /\ s.conn[c].client /\ s.conn[c].body_len < 0 => s.conn[c].headers \/ v.told[c] = "close"
      /\ s.conn[c].client /\ v.conn[c].headers => s.conn[c].headers \/ v.told[c] = "close"
  <2>1. CASE u.conn[c].client /\ u.conn[c].body_len < 0
    <3>1. Errs(u, v, c) BY Zenon, <1>5, <1>v, <2>1, Responds
    <3>2. Soft(u, v, c) BY Zenon, <3>1 DEF Errs, Soft, SameNc
    <3>3. Sane(v, D, b) BY Zenon, <1>5, <1>6, <3>2, SoftSane
    <3>4. v \in Mem /\ v.bec = s.bec /\ v.owed = s.owed BY Zenon, <1>5, <3>1 DEF Errs
    <3>5. SameRest(s, v) BY Zenon, <1>5, <3>1 DEF Errs, SameRest
    <3>6. /\ \A y \in Nc \ {c} : v.nc[y] = s.nc[y]
          /\ \A d \in Client \ {c} : v.conn[d] = s.conn[d] /\ v.told[d] = s.told[d]
          /\ SameNc(s.nc[c], v.nc[c]) /\ SameConn(k, v.conn[c])
      BY Zenon, <1>5, <3>1 DEF Errs
    <3>7. \/ v.told[c] = "close"
          \/ u.conn[c].headers /\ v.told[c] = u.told[c] /\ v.conn[c].headers = u.conn[c].headers
      BY Zenon, <2>1, <3>1 DEF Errs
    <3>8. QED BY Zenon, <1>3, <1>5, <3>3, <3>4, <3>5, <3>6, <3>7
  <2>2. CASE ~(u.conn[c].client /\ u.conn[c].body_len < 0)
    <3>1. v = u BY Zenon, <1>v, <2>2
    <3>2. ~(s.conn[c].client /\ s.conn[c].body_len < 0) BY Zenon, <1>3, <1>5, <2>2
    <3>3. SameNc(s.nc[c], v.nc[c]) /\ SameConn(k, v.conn[c]) /\ v.conn[c].headers = s.conn[c].headers
      BY Zenon, <1>3, <1>5, <3>1 DEF SameNc, SameConn
    <3>4. QED BY Zenon, <1>5, <1>6, <3>1, <3>2, <3>3
  <2>3. QED BY Zenon, <2>1, <2>2
<1>8. t = free_conn(v, c) BY Zenon, <1>0, <1>u, <1>v DEF on_close, cuts
<1>9. Freed(v, t, c) BY Zenon, <1>7, <1>8, Frees
<1>10. /\ t \in Mem /\ t.nc = v.nc /\ t.bec = v.bec /\ t.owed = v.owed /\ t.told = v.told /\ SameRest(s, t)
       /\ \A d \in Client \ {c} : t.conn[d] = v.conn[d]
  <2>1. SameRest(v, t) /\ SameRest(s, v) BY Zenon, <1>7, <1>9 DEF Freed
  <2>2. SameRest(s, t) BY Zenon, <2>1 DEF SameRest
  <2>3. QED BY Zenon, <1>9, <2>2 DEF Freed
<1>11. v.conn[c].client = s.conn[c].client /\ v.conn[c].backend = NULL /\ v.conn[c].be_conn = b
  BY Zenon, <1>0, <1>3, <1>7 DEF SameConn
<1>12. Sane(t, D, b) /\ t.conn[c].backend = NULL
  <2>1. CASE s.conn[c].client
    <3>1. t.conn[c] = v.conn[c] BY Zenon, <1>9, <1>11, <2>1 DEF Freed
    <3>2. Apart(v, t, c, NULL) BY Zenon, <1>10 DEF Apart
    <3>3. Soft(v, t, c) BY Zenon, <1>10, <3>1, <1>9 DEF Soft, SameConn, Freed
    <3>4. QED BY Zenon, <1>7, <1>11, <3>1, <3>3, SoftSane
  <2>2. CASE ~s.conn[c].client
    <3>1. t.conn[c] = NoConn BY Zenon, <1>9, <1>11, <2>2 DEF Freed
    <3>2. NoConn.backend = NULL /\ ~NoConn.client BY SMT DEF NoConn
    <3>3. Apart(v, t, c, b) BY Zenon, <1>10 DEF Apart
    <3>4. \A d \in Back \ {b} : c \in Client /\ Serves(v, d, c) => Serves(t, d, c) BY Zenon, <1>11 DEF Serves
    <3>5. v.nc[b].ud = c BY Zenon, <1>0, <1>7
    <3>6. Only(v, t, c, b, D, D) BY Zenon, <3>3, <3>4, <3>5 DEF Only, NoOthers
    <3>7. Clients(t, D, c)
      <4>1. Clients(v, D, c) BY Zenon, <1>0, <1>7 DEF Sane
      <4>2. v.nc[c] = NoNc /\ v.nc[c].st = "free" BY Zenon, <1>11, <2>2, <4>1 DEF Clients
      <4>3. QED BY Zenon, <1>10, <3>1, <3>2, <4>2 DEF Clients
    <3>8. Pool(t)
      <4>1. \A d \in Back : InPool(t, d) <=> InPool(v, d) BY Zenon, <1>10 DEF InPool
      <4>2. Pool(v) BY Zenon, <1>7 DEF Sane
      <4>3. t.pool = v.pool /\ t.num_conns = v.num_conns BY Zenon, <1>9 DEF Freed, SameRest
      <4>4. QED BY Zenon, <4>1, <4>2, <4>3, PoolKept
    <3>9. Listed(t) BY Zenon, <1>7, <1>9 DEF Sane, Listed, Freed, SameRest
    <3>10. Settled(t, c, b, D, b) BY Zenon, <3>7, <3>8, <3>9 DEF Settled
    <3>11. Sane(t, D, b) BY Zenon, <1>7, <3>6, <3>10, Touch
    <3>12. QED BY Zenon, <3>1, <3>2, <3>11
  <2>3. QED BY Zenon, <2>1, <2>2
<1>13. Good(t, D, b) BY Zenon, <1>1, <1>10, <1>12 DEF Good, SameRest
<1>14. Others(s, t, c)
  <2>1. \A d \in Client \ {c} : d \in Nc \ {c} BY Zenon DEF Nc
  <2>2. \A d \in Client \ {c} : t.nc[d] = s.nc[d] /\ t.conn[d] = s.conn[d] /\ t.told[d] = s.told[d]
    BY Zenon, <1>7, <1>10, <2>1
  <2>3. \A y \in Nc : t.nc[y].st = s.nc[y].st BY Zenon, <1>7, <1>10 DEF SameNc
  <2>4. QED BY Zenon, <1>10, <2>2, <2>3 DEF Others, SameRest
<1>15. Lost(s, t, c)
  <2>1. t.nc[c].st = s.nc[c].st /\ t.nc[c].part = s.nc[c].part /\ t.told[c] \in {s.told[c], "close"}
    BY Zenon, <1>7, <1>10 DEF SameNc
  <2>2. ASSUME s.conn[c].client
        PROVE  /\ t.conn[c].be_conn = s.conn[c].be_conn /\ t.conn[c].body_len = s.conn[c].body_len
               /\ s.conn[c].body_len < 0 => s.conn[c].headers \/ t.told[c] = "close"
               /\ t.conn[c].headers => s.conn[c].headers \/ t.told[c] = "close"
    <3>1. t.conn[c] = v.conn[c] BY Zenon, <1>9, <1>11, <2>2 DEF Freed
    <3>2. v.conn[c].be_conn = s.conn[c].be_conn /\ v.conn[c].body_len = s.conn[c].body_len
      BY Zenon, <1>3, <1>7 DEF SameConn
    <3>3. QED BY Zenon, <1>7, <1>10, <2>2, <3>1, <3>2
  <2>3. QED BY Zenon, <2>1, <2>2 DEF Lost
<1>16. QED BY SMT, <1>0, <1>7, <1>10, <1>12, <1>13, <1>14, <1>15


\* An idle connection closes and leaves the pool, if it is in it.
LEMMA IdleCloses ==
    ASSUME NEW s \in Mem, NEW b \in Back, NEW D, Good(s, D, NULL), Rests(s, b), NEW t, t = on_close_idle(s, b)
    PROVE  /\ Good(t, D, b) /\ t.nc = s.nc /\ t.conn = s.conn /\ t.told = s.told /\ t.crashed = s.crashed
           /\ ~InPool(t, b)
<1>0. b # NULL /\ NULL \notin Back BY Zenon, LBAssumption
<1>1. /\ Sane(s, D, NULL) /\ s.num_conns <= MaxIdle /\ s.num_conns \in Int /\ s.bec \in Becs
      /\ s.pool \in Seq(Back) /\ Pool(s)
  BY Zenon, Entries DEF Good, Sane
<1>p. PICK P : P = IF s.bec[b].idle THEN without(s.pool, b) ELSE s.pool BY Zenon
<1>2. /\ P \in Seq(Back) /\ Len(P) <= s.num_conns /\ Distinct(P) /\ Range1(P) = Range1(s.pool) \ {b}
  <2>0. Range1(s.pool) = {d \in Back : InPool(s, d)} /\ Distinct(s.pool) /\ Len(s.pool) <= s.num_conns
    BY Zenon, <1>1 DEF Pool
  <2>1. CASE s.bec[b].idle
    <3>1. P = without(s.pool, b) BY Zenon, <1>p, <2>1
    <3>2. /\ P \in Seq(Back) /\ Len(P) <= Len(s.pool) /\ Distinct(P) /\ Range1(P) = Range1(s.pool) \ {b}
      BY SMT, <1>1, <2>0, <3>1, Without
    <3>3. Len(P) <= s.num_conns
      <4>1. Len(P) \in Nat /\ Len(s.pool) \in Nat BY SMT, <1>1, <3>2
      <4>2. QED BY SMT, <1>1, <2>0, <3>2, <4>1
    <3>4. QED BY Zenon, <3>2, <3>3
  <2>2. CASE ~s.bec[b].idle
    <3>1. P = s.pool BY Zenon, <1>p, <2>2
    <3>2. b \notin Range1(s.pool) BY Zenon, <2>0, <2>2 DEF InPool
    <3>3. QED BY Zenon, <1>1, <2>0, <3>1, <3>2
  <2>3. QED BY Zenon, <2>1, <2>2
<1>3. NoBec \in BecType /\ ~NoBec.mem BY SMT DEF NoBec, BecType
<1>q. PICK B : B = [s.bec EXCEPT ![b] = NoBec] BY Zenon
<1>4. B \in Becs /\ B[b] = NoBec /\ \A d \in Back \ {b} : B[d] = s.bec[d] BY SMT, <1>1, <1>3, <1>q DEF Becs
<1>5. Parts([s EXCEPT !.pool = P, !.bec = B], s.nc, s.conn, B, P, s.num_conns, s.list, s.owed, s.told, s.crashed)
  BY Zenon, <1>2, <1>4 DEF Parts, Mem, Pools
<1>6. t = [s EXCEPT !.pool = P, !.bec = B] BY Zenon, <1>p, <1>q DEF on_close_idle
<1>7. /\ t \in Mem /\ t.nc = s.nc /\ t.conn = s.conn /\ t.bec = B /\ t.pool = P /\ t.num_conns = s.num_conns
      /\ t.list = s.list /\ t.owed = s.owed /\ t.told = s.told /\ t.crashed = s.crashed
  BY Zenon, <1>5, <1>6 DEF Parts
<1>8. ~InPool(t, b) BY Zenon, <1>3, <1>4, <1>7 DEF InPool
<1>9. Only(s, t, NULL, b, D, D)
  <2>1. Apart(s, t, NULL, b) BY Zenon, <1>4, <1>7 DEF Apart
  <2>2. NoOthers(s, NULL, b) BY Zenon DEF NoOthers, Rests
  <2>3. NULL \notin Client BY Zenon, LBAssumption
  <2>4. QED BY Zenon, <2>1, <2>2, <2>3 DEF Only
<1>10. Pool(t)
  <2>1. \A d \in Back \ {b} : InPool(t, d) <=> InPool(s, d) BY Zenon, <1>4, <1>7 DEF InPool
  <2>2. {d \in Back : InPool(t, d)} = {d \in Back : InPool(s, d)} \ {b} BY Zenon, <1>8, <2>1
  <2>3. Range1(s.pool) = {d \in Back : InPool(s, d)} BY Zenon, <1>1 DEF Pool
  <2>4. QED BY Zenon, <1>2, <1>7, <2>2, <2>3 DEF Pool
<1>11. Listed(t) BY Zenon, <1>1, <1>7 DEF Sane, Listed
<1>12. Settled(t, NULL, b, D, b) BY Zenon, <1>10, <1>11, LBAssumption DEF Settled
<1>13. Sane(t, D, b) BY Zenon, <1>1, <1>9, <1>12, Touch
<1>14. QED BY Zenon, <1>1, <1>7, <1>8, <1>13 DEF Good

\* ns_destroy_conn().
Gone(s, t, x) ==
    /\ t.nc[x] = NoNc /\ (\A y \in Nc \ {x} : t.nc[y] = s.nc[y])
    /\ t.conn = s.conn /\ t.told = s.told /\ t.crashed = s.crashed

\* The end of ns_close_conn(): the connection is freed once nothing leads to it.
LEMMA DestroyGood ==
    ASSUME NEW s \in Mem, NEW x \in Nc, NEW D, Good(s, D, x), NEW t, t = destroy(s, x),
           x \in Client => ~s.conn[x].client,
           x \in Back => ~InPool(s, x) /\ \A e \in Client : s.nc[e].st # "free" => s.conn[e].backend # x
    PROVE  Good(t, D \ {x}, NULL) /\ Gone(s, t, x)
<1>1. s.nc \in Ncs /\ s.owed \in Owes /\ s.list \in Seq(Nc) BY Zenon, Entries
<1>2. NoNc \in NcType /\ NoNc.st = "free" BY SMT DEF NoNc, NcType
<1>n. PICK N : N = [s.nc EXCEPT ![x] = NoNc] BY Zenon
<1>3. N \in Ncs /\ N[x] = NoNc /\ \A y \in Nc \ {x} : N[y] = s.nc[y] BY SMT, <1>1, <1>2, <1>n DEF Ncs
<1>o. PICK O : O = [b \in Back |-> IF b = x THEN NULL ELSE s.owed[b]] BY Zenon
<1>4. O \in Owes /\ \A b \in Back : O[b] = IF b = x THEN NULL ELSE s.owed[b] BY SMT, <1>1, <1>o DEF Owes
<1>l. PICK L : L = without(s.list, x) BY Zenon
<1>5. L \in Seq(Nc) /\ Range1(s.list) \ {x} \subseteq Range1(L) BY SMT, <1>1, <1>l, Without
<1>6. Parts([s EXCEPT !.nc = N, !.list = L, !.owed = O],
            N, s.conn, s.bec, s.pool, s.num_conns, L, O, s.told, s.crashed)
  BY Zenon, <1>3, <1>4, <1>5 DEF Parts, Mem, Lists
<1>7. t = [s EXCEPT !.nc = N, !.list = L, !.owed = O] BY Zenon, <1>n, <1>l, <1>o DEF destroy
<1>8. /\ t \in Mem /\ t.nc = N /\ t.conn = s.conn /\ t.bec = s.bec /\ t.pool = s.pool /\ t.num_conns = s.num_conns
      /\ t.list = L /\ t.owed = O /\ t.told = s.told /\ t.crashed = s.crashed
  BY Zenon, <1>6, <1>7 DEF Parts
<1>9. ASSUME NEW d \in Back \ {NULL} PROVE Backs(t, D \ {x}, d)
  <2>1. CASE d = x
    <3>1. t.nc[d] = NoNc /\ t.owed[d] = NULL BY Zenon, <1>3, <1>4, <1>8, <2>1
    <3>2. QED BY Zenon, <1>2, <2>1, <3>1 DEF Backs
  <2>2. CASE d # x
    <3>0. Backs(s, D, d) BY Zenon, <2>2 DEF Good, Sane
    <3>1. t.nc[d] = s.nc[d] /\ t.owed[d] = s.owed[d] BY Zenon, <1>3, <1>4, <1>8, <2>2 DEF Nc
    <3>2. d \in D \ {x} <=> d \in D BY Zenon, <2>2
    <3>3. CASE d \in D BY Zenon, <3>0, <3>1, <3>2, <3>3 DEF Backs, Failed
    <3>4. CASE d \notin D
      <4>1. Rests(s, d) => Rests(t, d) BY Zenon, <1>8, <3>1 DEF Rests
      <4>2. \A c \in Client : Serves(s, d, c) => Serves(t, d, c) BY Zenon, <1>8, <3>1 DEF Serves
      <4>3. QED BY Zenon, <3>0, <3>1, <3>2, <3>4, <4>1, <4>2 DEF Backs
    <3>5. QED BY Zenon, <3>3, <3>4
  <2>3. QED BY Zenon, <2>1, <2>2
<1>10. ASSUME NEW c \in Client \ {NULL} PROVE Clients(t, D \ {x}, c)
  <2>1. CASE c = x BY Zenon, <1>2, <1>3, <1>8, <2>1 DEF Clients
  <2>2. CASE c # x
    <3>0. Clients(s, D, c) /\ s.conn[c] \in ConnType BY Zenon, <2>2, Entries DEF Good, Sane
    <3>1. t.nc[c] = s.nc[c] BY Zenon, <1>3, <1>8, <2>2 DEF Nc
    <3>2. CASE s.nc[c].st = "free" BY Zenon, <1>8, <3>0, <3>1, <3>2 DEF Clients
    <3>3. CASE s.nc[c].st # "free"
      <4>1. CASE s.conn[c].backend = NULL BY Zenon, <1>8, <3>0, <3>1, <3>3, <4>1 DEF Clients
      <4>2. CASE s.conn[c].backend # NULL
        <5>b. PICK b : b = s.conn[c].backend BY Zenon
        <5>1. b \in Back /\ b # x BY Zenon, <3>0, <3>3, <4>2, <5>b, LBAssumption DEF ConnType
        <5>2. b \notin D /\ s.nc[b].st # "free" /\ s.nc[b].handler = "ev" /\ s.nc[b].ud = c
          BY Zenon, <3>0, <3>3, <4>2, <5>b DEF Clients
        <5>3. t.nc[b] = s.nc[b] BY Zenon, <1>3, <1>8, <5>1 DEF Nc
        <5>4. s.nc[c].st = "open" /\ s.nc[c].handler = "ev" /\ s.conn[c].client /\ s.conn[c].mem
          BY Zenon, <3>0, <3>3 DEF Clients
        <5>5. b \notin D \ {x} BY Zenon, <5>2
        <5>6. QED BY Zenon, <1>8, <3>1, <5>b, <5>2, <5>3, <5>4, <5>5, ClientHas
      <4>3. QED BY Zenon, <4>1, <4>2
    <3>4. QED BY Zenon, <3>2, <3>3
  <2>3. QED BY Zenon, <2>1, <2>2
<1>11. Pool(t)
  <2>1. ASSUME NEW d \in Back PROVE InPool(t, d) <=> InPool(s, d)
    <3>1. CASE d = x BY Zenon, <1>2, <1>3, <1>8, <3>1 DEF InPool
    <3>2. CASE d # x BY Zenon, <1>3, <1>8, <3>2 DEF InPool, Nc
    <3>3. QED BY Zenon, <3>1, <3>2
  <2>2. Pool(s) BY Zenon DEF Good, Sane
  <2>3. QED BY Zenon, <1>8, <2>1, <2>2, PoolKept
<1>12. Listed(t)
  <2>1. ASSUME NEW y \in Nc, t.nc[y].st # "free" PROVE y \in Range1(L)
    <3>1. y # x BY Zenon, <1>2, <1>3, <1>8, <2>1
    <3>2. s.nc[y].st # "free" BY Zenon, <1>3, <1>8, <2>1, <3>1
    <3>3. y \in Range1(s.list) BY Zenon, <3>2 DEF Good, Sane, Listed
    <3>4. QED BY Zenon, <1>5, <3>1, <3>3
  <2>2. QED BY Zenon, <1>8, <2>1 DEF Listed
<1>13. QED BY Zenon, <1>3, <1>8, <1>9, <1>10, <1>11, <1>12 DEF Good, Sane, Gone


-----------------------------------------------------------------------------
(* ns_close_conn(), ns_accept() and a part of a message                    *)

\* The clients other than c are left alone.
Keep(s, t, c) == \A d \in Client \ {c} : t.nc[d] = s.nc[d] /\ t.conn[d] = s.conn[d] /\ t.told[d] = s.told[d]

\* Two such steps in a row are one.
LEMMA KeepOn ==
    ASSUME NEW s, NEW u, NEW t, NEW c, Keep(s, u, c), Keep(u, t, c)
    PROVE  Keep(s, t, c)
<1>1. ASSUME NEW d \in Client \ {c} PROVE t.nc[d] = s.nc[d] /\ t.conn[d] = s.conn[d] /\ t.told[d] = s.told[d]
  <2>1. u.nc[d] = s.nc[d] /\ u.conn[d] = s.conn[d] /\ u.told[d] = s.told[d] BY Zenon DEF Keep
  <2>2. t.nc[d] = u.nc[d] /\ t.conn[d] = u.conn[d] /\ t.told[d] = u.told[d] BY Zenon DEF Keep
  <2>3. QED BY Zenon, <2>1, <2>2
<1>2. QED BY Zenon, <1>1 DEF Keep

\* What the end of x means for the clients.
Ends(s, t, x) ==
    \/ x \in Client /\ Keep(s, t, x) /\ t.nc[x] = NoNc /\ t.told[x] \in {s.told[x], "close"}
    \/ x \in Back /\ Keep(s, t, NULL)
    \/ /\ x \in Back
       /\ \E c \in Client : /\ Serves(s, x, c) /\ Keep(s, t, c)
                            /\ \/ s.conn[c].client /\ Relieved(s, t, c)
                               \/ Lost(s, t, c)

\* A client ends; a message that is still incomplete is taken first.
LEMMA ClientEnds ==
    ASSUME NEW s \in Mem, NEW c \in Client, NEW D, Good(s, D, NULL), ~s.crashed, s.nc[c].flags # {},
           s.nc[c].part => s.conn[c].be_conn = NULL, NEW t \in close(s, c)
    PROVE  Good(t, D \ {c}, NULL) /\ Ends(s, t, c) /\ ~t.crashed
<1>0. c \in Nc /\ c # NULL /\ c \notin Back BY Zenon, LBAssumption DEF Nc
<1>1. Clients(s, D, c) BY Zenon, <1>0 DEF Good, Sane
<1>2. s.nc[c].st = "open" /\ s.nc[c].handler = "ev"
  <2>1. NoNc.flags = {} BY SMT DEF NoNc
  <2>2. QED BY Zenon, <1>1, <2>1 DEF Clients
<1>3. PICK u \in IF ~s.nc[c].part THEN {s} ELSE on_request(s, c) :
         t = IF u.crashed THEN u
             ELSE destroy(IF u.nc[c].handler = "idle" THEN on_close_idle(u, c) ELSE on_close(u, c), c)
  <2>1. s.nc[c].handler # "idle" /\ s.nc[c].st # "connecting" BY Zenon, <1>2
  <2>2. QED BY Zenon, <2>1 DEF close
<1>4. /\ u \in Mem /\ Good(u, D, NULL) /\ Keep(s, u, c) /\ u.nc[c].st = "open" /\ ~u.crashed
      /\ u.told[c] \in {s.told[c], "close"}
  <2>1. CASE ~s.nc[c].part
    <3>1. u = s BY Zenon, <1>3, <2>1
    <3>2. QED BY Zenon, <1>2, <3>1 DEF Keep
  <2>2. CASE s.nc[c].part
    <3>1. u \in on_request(s, c) BY Zenon, <1>3, <2>2
    <3>2. Good(u, D, NULL) /\ Others(s, u, c) /\ Asked(s, u, c) BY SMT, <1>2, <2>2, <3>1, RequestGood
    <3>3. QED BY Zenon, <1>2, <3>2 DEF Good, Others, Asked, Keep
  <2>3. QED BY Zenon, <2>1, <2>2
<1>5. u.nc[c].handler # "idle"
  <2>1. Clients(u, D, c) BY Zenon, <1>0, <1>4 DEF Good, Sane
  <2>2. QED BY Zenon, <1>4, <2>1 DEF Clients
<1>v. PICK v : v = on_close(u, c) BY Zenon
<1>6. /\ Good(v, D, c) /\ Others(u, v, c) /\ v.told = u.told /\ ~v.conn[c].client
  BY SMT, <1>4, <1>v, ClientCloses
<1>7. t = destroy(v, c) BY Zenon, <1>3, <1>4, <1>5, <1>v
<1>8. Good(t, D \ {c}, NULL) /\ Gone(v, t, c)
  <2>1. v \in Mem BY Zenon, <1>6 DEF Good
  <2>2. QED BY Zenon, <1>0, <1>6, <1>7, <2>1, DestroyGood
<1>9. Keep(s, t, c)
  <2>1. \A d \in Client \ {c} : d \in Nc \ {c} BY Zenon DEF Nc
  <2>2. Keep(u, v, c) BY Zenon, <1>6 DEF Others, Keep
  <2>3. Keep(v, t, c) BY Zenon, <1>8, <2>1 DEF Gone, Keep
  <2>4. QED BY Zenon, <1>4, <2>2, <2>3, KeepOn
<1>10. t.nc[c] = NoNc /\ t.told[c] \in {s.told[c], "close"} /\ ~t.crashed
  BY Zenon, <1>4, <1>6, <1>8 DEF Gone, Others
<1>11. QED BY Zenon, <1>8, <1>9, <1>10 DEF Ends

\* An idle connection ends.
LEMMA IdleEnds ==
    ASSUME NEW s \in Mem, NEW b \in Back, NEW D, Good(s, D, NULL), Rests(s, b), NEW t, t = destroy(on_close_idle(s, b), b)
    PROVE  Good(t, D \ {b}, NULL) /\ Keep(s, t, NULL) /\ t.crashed = s.crashed
<1>0. b \in Nc /\ b \notin Client /\ b # NULL BY Zenon, LBAssumption DEF Nc
<1>v. PICK v : v = on_close_idle(s, b) BY Zenon
<1>1. /\ Good(v, D, b) /\ v.nc = s.nc /\ v.conn = s.conn /\ v.told = s.told /\ v.crashed = s.crashed
      /\ ~InPool(v, b)
  BY Zenon, <1>v, IdleCloses
<1>2. \A e \in Client : v.nc[e].st # "free" => v.conn[e].backend # b
  <2>1. ASSUME NEW e \in Client, v.nc[e].st # "free", v.conn[e].backend = b PROVE FALSE
    <3>1. Clients(s, D, e) BY Zenon, LBAssumption DEF Good, Sane
    <3>2. s.nc[b].handler = "ev" BY Zenon, <1>0, <1>1, <2>1, <3>1 DEF Clients
    <3>3. QED BY Zenon, <3>2 DEF Rests
  <2>2. QED BY Zenon, <2>1
<1>3. Good(t, D \ {b}, NULL) /\ Gone(v, t, b)
  <2>1. v \in Mem BY Zenon, <1>1 DEF Good
  <2>2. QED BY Zenon, <1>0, <1>1, <1>2, <1>v, <2>1, DestroyGood
<1>4. \A d \in Client : d \in Nc \ {b} BY Zenon, LBAssumption DEF Nc
<1>5. QED BY Zenon, <1>1, <1>3, <1>4 DEF Gone, Keep


\* A connection that works for a client ends.
LEMMA ServingEnds ==
    ASSUME NEW s \in Mem, NEW b \in Back, NEW c \in Client, NEW D, Good(s, D, NULL), s.nc[b].st = "open", b \notin D,
           Serves(s, b, c), NEW t, t = destroy(on_close(s, b), b)
    PROVE  Good(t, D \ {b}, NULL) /\ Keep(s, t, c) /\ Lost(s, t, c) /\ t.crashed = s.crashed
<1>0. b \in Nc /\ b \notin Client /\ b # NULL /\ c # b /\ s.nc[b].handler = "ev" /\ s.nc[b].ud = c
  BY Zenon, LBAssumption DEF Nc, Serves
<1>v. PICK v : v = on_close(s, b) BY Zenon
<1>1. /\ Good(v, D, b) /\ Others(s, v, c) /\ Lost(s, v, c) /\ v.nc[b] = s.nc[b] /\ v.conn[c].backend = NULL
  BY SMT, <1>v, BackCloses
<1>2. \A e \in Client : v.nc[e].st # "free" => v.conn[e].backend # b
  <2>1. ASSUME NEW e \in Client, v.nc[e].st # "free", v.conn[e].backend = b PROVE FALSE
    <3>1. e # c BY Zenon, <1>0, <1>1, <2>1
    <3>2. Clients(v, D, e) BY Zenon, <1>0, <1>1 DEF Good, Sane
    <3>3. v.nc[b].ud = e BY Zenon, <1>0, <2>1, <3>2 DEF Clients
    <3>4. QED BY Zenon, <1>0, <1>1, <3>1, <3>3
  <2>2. QED BY Zenon, <2>1
<1>3. ~InPool(v, b) BY Zenon, <1>0, <1>1 DEF InPool
<1>4. Good(t, D \ {b}, NULL) /\ Gone(v, t, b)
  <2>1. v \in Mem BY Zenon, <1>1 DEF Good
  <2>2. QED BY SMT, <1>0, <1>1, <1>2, <1>3, <1>v, <2>1, DestroyGood
<1>5. \A d \in Client : d \in Nc \ {b} BY Zenon, LBAssumption DEF Nc
<1>6. Keep(s, t, c)
  <2>1. Keep(s, v, c) BY Zenon, <1>1 DEF Others, Keep
  <2>2. Keep(v, t, c) BY Zenon, <1>4, <1>5 DEF Gone, Keep
  <2>3. QED BY Zenon, <2>1, <2>2, KeepOn
<1>7. Lost(s, t, c)
  <2>1. t.nc[c] = v.nc[c] /\ t.conn = v.conn /\ t.told = v.told BY Zenon, <1>4, <1>5 DEF Gone
  <2>2. QED BY Zenon, <1>1, <2>1 DEF Lost
<1>8. QED BY Zenon, <1>1, <1>4, <1>6, <1>7 DEF Gone, Others

\* A connection that was being made ends; no client that is there knows it.
LEMMA ConnectingEnds ==
    ASSUME NEW s \in Mem, NEW b \in Back, NEW D, Good(s, D, NULL), s.nc[b].st = "connecting", s.nc[b].flags # {},
           NEW t, t = destroy(s, b)
    PROVE  Good(t, D \ {b}, NULL) /\ Keep(s, t, NULL) /\ t.crashed = s.crashed
<1>0. b \in Nc /\ b \notin Client /\ b # NULL BY Zenon, LBAssumption DEF Nc
<1>1. Sane(s, D, NULL) /\ s.num_conns <= MaxIdle BY Zenon DEF Good
<1>2. Backs(s, D, b) BY Zenon, <1>0, <1>1 DEF Sane
<1>3. \A e \in Client : s.nc[e].st # "free" => s.conn[e].backend # b
  <2>1. ASSUME NEW e \in Client, s.nc[e].st # "free", s.conn[e].backend = b PROVE FALSE
    <3>1. Clients(s, D, e) BY Zenon, <1>1, LBAssumption DEF Sane
    <3>2. b \notin D /\ s.nc[b].ud = e /\ s.nc[b].handler = "ev" /\ s.conn[e].client BY Zenon, <1>0, <2>1, <3>1 DEF Clients
    <3>3. PICK c \in Client : Serves(s, b, c) BY Zenon, <1>1, <3>2, Working
    <3>4. c = e /\ ~s.conn[c].client BY Zenon, <3>2, <3>3 DEF Serves
    <3>5. QED BY Zenon, <3>2, <3>4
  <2>2. QED BY Zenon, <2>1
<1>4. ~InPool(s, b) BY Zenon DEF InPool
<1>5. Good(s, D, b)
  <2>1. \A d \in Back \ {b} : d \in Back \ {NULL} BY Zenon, LBAssumption
  <2>2. \A d \in Client \ {b} : d \in Client \ {NULL} BY Zenon, LBAssumption
  <2>3. QED BY Zenon, <1>1, <2>1, <2>2 DEF Good, Sane
<1>6. Good(t, D \ {b}, NULL) /\ Gone(s, t, b) BY SMT, <1>0, <1>3, <1>4, <1>5, DestroyGood
<1>7. \A d \in Client : d \in Nc \ {b} BY Zenon, LBAssumption DEF Nc
<1>8. QED BY Zenon, <1>6, <1>7 DEF Gone, Keep

\* A backend connection ends.
LEMMA BackEnds ==
    ASSUME NEW s \in Mem, NEW b \in Back, NEW D, Good(s, D, NULL), ~s.crashed, s.nc[b].flags # {}, NEW t \in close(s, b)
    PROVE  (Crash(s, t) /\ Good(t, D, NULL)) \/ (Good(t, D \ {b}, NULL) /\ Ends(s, t, b) /\ ~t.crashed)
<1>0. b \in Nc /\ b \notin Client /\ b # NULL BY Zenon, LBAssumption DEF Nc
<1>1. Sane(s, D, NULL) /\ Backs(s, D, b) BY Zenon, <1>0 DEF Good, Sane
<1>2. s.nc[b].st # "free"
  <2>1. NoNc.flags = {} BY SMT DEF NoNc
  <2>2. QED BY Zenon, <1>1, <2>1 DEF Backs, Failed
<1>3. CASE s.nc[b].st = "connecting"
  <2>1. t = destroy(s, b) BY Zenon, <1>3 DEF close
  <2>2. Good(t, D \ {b}, NULL) /\ Keep(s, t, NULL) /\ t.crashed = s.crashed BY SMT, <1>3, <2>1, ConnectingEnds
  <2>3. QED BY Zenon, <2>2 DEF Ends
<1>4. CASE s.nc[b].st # "connecting"
  <2>0. s.nc[b].st = "open" /\ b \notin D
    <3>1. s.nc[b] \in NcType BY Zenon, <1>0, Entries
    <3>2. s.nc[b].st = "open" BY Zenon, <1>2, <1>4, <3>1 DEF NcType
    <3>3. QED BY Zenon, <1>1, <3>2, OpenIsWell
  <2>1. PICK u \in IF ~s.nc[b].part \/ s.nc[b].handler = "idle" THEN {s} ELSE {on_reply(s, b, k) : k \in BOOLEAN} :
           t = IF u.crashed THEN u
               ELSE destroy(IF u.nc[b].handler = "idle" THEN on_close_idle(u, b) ELSE on_close(u, b), b)
    BY Zenon, <1>0, <1>4 DEF close
  <2>2. CASE u = s /\ s.nc[b].handler = "idle"
    <3>1. Rests(s, b) BY Zenon, <1>1, <1>2, <2>0, <2>2 DEF Backs, Serves
    <3>2. t = destroy(on_close_idle(s, b), b) BY Zenon, <2>1, <2>2
    <3>3. Good(t, D \ {b}, NULL) /\ Keep(s, t, NULL) /\ t.crashed = s.crashed BY Zenon, <3>1, <3>2, IdleEnds
    <3>4. QED BY Zenon, <3>3 DEF Ends
  <2>3. CASE u = s /\ s.nc[b].handler # "idle"
    <3>1. s.nc[b].handler = "ev"
      <4>1. s.nc[b] \in NcType BY Zenon, <1>0, Entries
      <4>2. QED BY Zenon, <2>3, <4>1 DEF NcType
    <3>2. PICK c \in Client : Serves(s, b, c) BY Zenon, <1>1, <1>2, <2>0, <3>1, Working
    <3>3. t = destroy(on_close(s, b), b) BY Zenon, <2>1, <2>3
    <3>4. Good(t, D \ {b}, NULL) /\ Keep(s, t, c) /\ Lost(s, t, c) /\ t.crashed = s.crashed
      BY SMT, <2>0, <3>2, <3>3, ServingEnds
    <3>5. QED BY Zenon, <3>2, <3>4 DEF Ends
  <2>4. ASSUME NEW k \in BOOLEAN, u = on_reply(s, b, k), s.nc[b].handler # "idle"
        PROVE  (Crash(s, t) /\ Good(t, D, NULL)) \/ (Good(t, D \ {b}, NULL) /\ Ends(s, t, b) /\ ~t.crashed)
    <3>1. s.nc[b].handler = "ev"
      <4>1. s.nc[b] \in NcType BY Zenon, <1>0, Entries
      <4>2. QED BY Zenon, <2>4, <4>1 DEF NcType
    <3>2. PICK c \in Client : Serves(s, b, c) BY Zenon, <1>1, <1>2, <2>0, <3>1, Working
    <3>c. s.nc[b].ud = c BY Zenon, <3>2 DEF Serves
    <3>3. CASE ~s.conn[c].client
      <4>1. Crash(s, u) /\ Good(u, D, NULL) BY SMT, <2>4, <3>c, <3>3, ReplyCrash
      <4>2. t = u BY Zenon, <2>1, <4>1 DEF Crash
      <4>3. Crash(s, t) BY Zenon, <4>1, <4>2
      <4>4. Good(t, D, NULL) BY Zenon, <4>1, <4>2
      <4>5. QED BY Zenon, <4>3, <4>4
    <3>4. CASE s.conn[c].client
      <4>1. Good(u, D, NULL) /\ Others(s, u, c) /\ Relieved(s, u, c) /\ u.nc[b].handler = "idle"
        BY SMT, <2>0, <2>4, <3>2, <3>4, ReplyGood
      <4>2. u \in Mem /\ ~u.crashed /\ Keep(s, u, c) /\ u.nc[b].st # "free"
        BY Zenon, <1>0, <1>2, <4>1 DEF Good, Others, Keep
      <4>3. Rests(u, b)
        <5>1. Backs(u, D, b) BY Zenon, <1>0, <4>1 DEF Good, Sane
        <5>2. QED BY Zenon, <2>0, <4>1, <4>2, <5>1 DEF Backs, Serves
      <4>4. t = destroy(on_close_idle(u, b), b) BY Zenon, <2>1, <4>1, <4>2
      <4>5. Good(t, D \ {b}, NULL) /\ Keep(u, t, NULL) /\ t.crashed = u.crashed BY Zenon, <4>1, <4>2, <4>3, <4>4, IdleEnds
      <4>6. \A d \in Client : t.nc[d] = u.nc[d] /\ t.conn[d] = u.conn[d] /\ t.told[d] = u.told[d]
        BY Zenon, <4>5, LBAssumption DEF Keep
      <4>7. Keep(s, t, c)
        <5>1. Keep(u, t, c) BY Zenon, <4>6 DEF Keep
        <5>2. QED BY Zenon, <4>2, <5>1, KeepOn
      <4>8. Relieved(s, t, c) BY Zenon, <4>1, <4>6 DEF Relieved
      <4>9. Ends(s, t, b) BY Zenon, <3>2, <3>4, <4>7, <4>8 DEF Ends
      <4>10. QED BY Zenon, <4>2, <4>5, <4>9
    <3>5. QED BY Zenon, <3>3, <3>4
  <2>5. QED BY Zenon, <2>1, <2>2, <2>3, <2>4
<1>5. QED BY Zenon, <1>3, <1>4


\* NS_ACCEPT.
accepts(s, c) ==
    [s EXCEPT !.nc[c] = [NoNc EXCEPT !.st = "open", !.ud = c], !.list = <<c>> \o @,
              !.conn[c] = [NoConn EXCEPT !.mem = TRUE, !.client = TRUE]]

\* A new client has its conn_data and no backend connection.
LEMMA AcceptGood ==
    ASSUME NEW s \in Mem, NEW c \in Client, NEW D, Good(s, D, NULL), s.conn[c] = NoConn, NEW t, t = accepts(s, c)
    PROVE  /\ Good(t, D, NULL) /\ Keep(s, t, c) /\ t.told = s.told
           /\ t.nc[c].st = "open" /\ ~t.nc[c].part /\ t.conn[c].be_conn = NULL /\ ~t.conn[c].headers
           /\ t.crashed = s.crashed /\ \A y \in Nc : s.nc[y].st # "free" => t.nc[y].st # "free"
<1>0. c \in Nc /\ c # NULL /\ c \notin Back /\ NULL \notin Back BY Zenon, LBAssumption DEF Nc
<1>1. s.nc \in Ncs /\ s.conn \in Conns /\ s.list \in Seq(Nc) BY Zenon, Entries
<1>a. NoNc \in NcType /\ NoNc.handler = "ev" /\ ~NoNc.part BY SMT DEF NoNc, NcType
<1>r. PICK r : r = [NoNc EXCEPT !.st = "open", !.ud = c] BY Zenon
<1>2. r \in NcType /\ r.st = "open" /\ r.handler = "ev" /\ ~r.part BY Zenon, <1>a, <1>r DEF NcType
<1>b. NoConn \in ConnType /\ NoConn.backend = NULL /\ NoConn.be_conn = NULL /\ ~NoConn.headers /\ ~NoConn.mem
  BY SMT DEF NoConn, ConnType
<1>k. PICK k : k = [NoConn EXCEPT !.mem = TRUE, !.client = TRUE] BY Zenon
<1>3. k \in ConnType /\ k.mem /\ k.client /\ k.backend = NULL /\ k.be_conn = NULL /\ ~k.headers
  BY Zenon, <1>b, <1>k DEF ConnType
<1>n. PICK N : N = [s.nc EXCEPT ![c] = r] BY Zenon
<1>4. N \in Ncs /\ N[c] = r /\ \A y \in Nc \ {c} : N[y] = s.nc[y] BY SMT, <1>0, <1>1, <1>2, <1>n DEF Ncs
<1>q. PICK Q : Q = [s.conn EXCEPT ![c] = k] BY Zenon
<1>5. Q \in Conns /\ Q[c] = k /\ \A d \in Client \ {c} : Q[d] = s.conn[d] BY SMT, <1>1, <1>3, <1>q DEF Conns
<1>l. PICK L : L = <<c>> \o s.list BY Zenon
<1>6. L \in Seq(Nc) /\ Range1(L) = {c} \cup Range1(s.list) BY SMT, <1>0, <1>1, <1>l, InFront
<1>7. Parts([s EXCEPT !.nc = N, !.list = L, !.conn = Q],
            N, Q, s.bec, s.pool, s.num_conns, L, s.owed, s.told, s.crashed)
  BY Zenon, <1>4, <1>5, <1>6 DEF Parts, Mem, Lists
<1>8. t = [s EXCEPT !.nc = N, !.list = L, !.conn = Q] BY Zenon, <1>r, <1>k, <1>n, <1>q, <1>l DEF accepts
<1>9. /\ t \in Mem /\ t.nc = N /\ t.conn = Q /\ t.bec = s.bec /\ t.pool = s.pool /\ t.num_conns = s.num_conns
      /\ t.list = L /\ t.owed = s.owed /\ t.told = s.told /\ t.crashed = s.crashed
  BY Zenon, <1>7, <1>8 DEF Parts
<1>10. Only(s, t, c, NULL, D, D)
  <2>1. Apart(s, t, c, NULL) BY Zenon, <1>4, <1>5, <1>9 DEF Apart
  <2>2. \A d \in Back : ~Serves(s, d, c) BY Zenon, <1>b DEF Serves
  <2>3. QED BY Zenon, <1>0, <2>1, <2>2 DEF Only
<1>11. Clients(t, D, c)
  <2>1. t.nc[c] = r /\ t.conn[c] = k BY Zenon, <1>4, <1>5, <1>9
  <2>2. QED BY Zenon, <1>2, <1>3, <2>1 DEF Clients
<1>12. Pool(t)
  <2>1. \A d \in Back : d \in Nc \ {c} BY Zenon, LBAssumption DEF Nc
  <2>2. \A d \in Back : InPool(t, d) <=> InPool(s, d) BY Zenon, <1>4, <1>9, <2>1 DEF InPool
  <2>3. Pool(s) BY Zenon DEF Good, Sane
  <2>4. QED BY Zenon, <1>9, <2>2, <2>3, PoolKept
<1>13. Listed(t)
  <2>1. ASSUME NEW y \in Nc, t.nc[y].st # "free" PROVE y \in Range1(L)
    <3>1. CASE y = c BY Zenon, <1>6, <3>1
    <3>2. CASE y # c
      <4>1. s.nc[y].st # "free" BY Zenon, <1>4, <1>9, <2>1, <3>2
      <4>2. y \in Range1(s.list) BY Zenon, <4>1 DEF Good, Sane, Listed
      <4>3. QED BY Zenon, <1>6, <4>2
    <3>3. QED BY Zenon, <3>1, <3>2
  <2>2. QED BY Zenon, <1>9, <2>1 DEF Listed
<1>14. Settled(t, c, NULL, D, NULL) BY Zenon, <1>0, <1>11, <1>12, <1>13 DEF Settled
<1>15. Sane(t, D, NULL) BY SMT, <1>10, <1>14, Touch DEF Good
<1>16. Good(t, D, NULL) BY Zenon, <1>9, <1>15 DEF Good
<1>17. Keep(s, t, c)
  <2>1. \A d \in Client \ {c} : d \in Nc \ {c} BY Zenon DEF Nc
  <2>2. QED BY Zenon, <1>4, <1>5, <1>9, <2>1 DEF Keep
<1>18. \A y \in Nc : s.nc[y].st # "free" => t.nc[y].st # "free" BY Zenon, <1>2, <1>4, <1>9
<1>19. t.nc[c] = r /\ t.conn[c] = k BY Zenon, <1>4, <1>5, <1>9
<1>20. QED BY Zenon, <1>2, <1>3, <1>9, <1>16, <1>17, <1>18, <1>19

\* A part of a message is read.
parts(s, x) == [s EXCEPT !.nc[x].part = TRUE]

\* That changes nothing else.
LEMMA PartSet ==
    ASSUME NEW s \in Mem, NEW x \in Nc
    PROVE  Nudged(s, parts(s, x), x)
<1>1. s.nc \in Ncs /\ s.nc[x] \in NcType BY Zenon, Entries
<1>r. PICK r : r = [s.nc[x] EXCEPT !.part = TRUE] BY Zenon
<1>2. r \in NcType /\ Alike(s.nc[x], r) /\ r.flags = s.nc[x].flags BY Zenon, <1>1, <1>r DEF NcType, Alike
<1>n. PICK N : N = [s.nc EXCEPT ![x] = r] BY Zenon
<1>3. N \in Ncs /\ N[x] = r /\ \A y \in Nc \ {x} : N[y] = s.nc[y] BY SMT, <1>1, <1>2, <1>n DEF Ncs
<1>t. PICK t : t = parts(s, x) BY Zenon
<1>4. t = [s EXCEPT !.nc = N] BY Zenon, <1>t, <1>r, <1>n DEF parts
<1>5. Parts([s EXCEPT !.nc = N], N, s.conn, s.bec, s.pool, s.num_conns, s.list, s.owed, s.told, s.crashed)
  BY Zenon, <1>3 DEF Parts, Mem
<1>6. Nudged(s, t, x) BY Zenon, <1>2, <1>3, <1>4, <1>5 DEF Parts, Nudged, SameRest
<1>7. QED BY Zenon, <1>t, <1>6

\* The client asks.
LEMMA AskSoft ==
    ASSUME NEW s \in Mem, NEW c \in Client
    PROVE  /\ Soft(s, [s EXCEPT !.told[c] = "no"], c) /\ [s EXCEPT !.told[c] = "no"].nc = s.nc
           /\ [s EXCEPT !.told[c] = "no"].conn = s.conn /\ [s EXCEPT !.told[c] = "no"].told[c] = "no"
<1>0. s.told \in Tolds BY Zenon, Entries
<1>w. PICK T : T = [s.told EXCEPT ![c] = "no"] BY Zenon
<1>1. T \in Tolds /\ T[c] = "no" /\ \A d \in Client \ {c} : T[d] = s.told[d] BY SMT, <1>0, <1>w DEF Tolds, Said
<1>u. PICK u : u = [s EXCEPT !.told = T] BY Zenon
<1>2. Parts([s EXCEPT !.told = T], s.nc, s.conn, s.bec, s.pool, s.num_conns, s.list, s.owed, T, s.crashed)
  BY Zenon, <1>1 DEF Parts, Mem
<1>3. /\ u \in Mem /\ u.nc = s.nc /\ u.conn = s.conn /\ u.owed = s.owed /\ u.bec = s.bec /\ u.told = T /\ SameRest(s, u)
  BY Zenon, <1>u, <1>2 DEF Parts, SameRest
<1>4. Soft(s, u, c) BY Zenon, <1>1, <1>3 DEF Soft, SameConn
<1>5. QED BY Zenon, <1>w, <1>u, <1>1, <1>3, <1>4


-----------------------------------------------------------------------------
(* What a client sees                                                      *)

\* n, q, o, d and w: the connection of a client, its conn_data, what it was
\* told last, what waits in its socket, and whose turn it is.  Nothing of a
\* request is unread or unfinished unless the client waits, a client that waits
\* was told nothing, and one that lost its backend connection was told, or was
\* answered once (its body_len is then no longer negative).
Talks(n, q, o, d, w) ==
    IF n.st = "free" THEN d = "no" /\ w # "wait" /\ (w = "talk" => q = NoConn)
    ELSE /\ w = "talk" \/ d # "no" \/ n.part => q.be_conn = NULL
         /\ d # "no" \/ n.part => w = "wait"
         /\ q.be_conn # NULL /\ q.backend = NULL => q.body_len = 0 \/ w = "done"
         /\ q.headers /\ q.body_len < 0 => w = "done"
         /\ w = "wait" => o = "no"

\* watch, for one client.
Sees(w, o, st, st2) ==
    IF w = "wait" /\ o # "no" THEN (IF o = "keep" THEN "talk" ELSE "done")
    ELSE IF st = "open" /\ st2 = "free" THEN "done" ELSE w

TalkAt(s, k, w, c) == Talks(s.nc[c], s.conn[c], s.told[c], k[c].data, w[c])
Watch(s, t, w, v) == \A c \in Client : v[c] = Sees(w[c], t.told[c], s.nc[c].st, t.nc[c].st)
Turns == [Client -> {"talk", "wait", "done"}]
Socks == [Nc -> [data : {"no", "part", "whole"}, fin : BOOLEAN, syn : {"pending", "ok", "err"}]]

\* A client to which nothing happens, but for a flag.
LEMMA TalkOn ==
    ASSUME NEW n, NEW r, NEW q, NEW o, NEW d, NEW w, Talks(n, q, o, d, w), r.st = n.st, r.part = n.part
    PROVE  Talks(r, q, o, d, Sees(w, o, n.st, r.st))
BY SMT DEF Talks, Sees

\* A client with a backend connection gets its answer.
LEMMA TalkRelieved ==
    ASSUME NEW n, NEW q, NEW o, NEW d, NEW w, NEW r, NEW k, NEW p, Talks(n, q, o, d, w), n.st = "open",
           q.be_conn # NULL, r.st = n.st, r.part = n.part, k.be_conn = NULL, k.body_len = 0, p \in {"keep", "close"},
           w \in {"talk", "wait", "done"}
    PROVE  Talks(r, k, p, d, Sees(w, p, n.st, r.st))
BY SMT DEF Talks, Sees

\* Its backend could not be connected.
LEMMA TalkRefused ==
    ASSUME NEW n, NEW q, NEW o, NEW d, NEW w, NEW r, NEW k, NEW p, Talks(n, q, o, d, w), n.st \in {"open", "free"},
           q.be_conn # NULL, r.st = n.st, r.part = n.part, k.be_conn = NULL, k.body_len = 0, p \in {o, "close"},
           w \in {"talk", "wait", "done"}, q # NoConn
    PROVE  Talks(r, k, p, d, Sees(w, p, n.st, r.st))
BY SMT DEF Talks, Sees

\* Its backend connection closes.
LEMMA TalkLost ==
    ASSUME NEW n, NEW q, NEW o, NEW d, NEW w, NEW r, NEW k, NEW p, Talks(n, q, o, d, w), n.st = "open",
           q.be_conn # NULL, r.st = n.st, r.part = n.part, k.be_conn = q.be_conn, k.body_len = q.body_len,
           q.body_len \in {-1, 0}, p \in {o, "close"}, q.body_len < 0 => q.headers \/ p = "close",
           k.headers => q.headers \/ p = "close", w \in {"talk", "wait", "done"}
    PROVE  Talks(r, k, p, d, Sees(w, p, n.st, r.st))
BY SMT DEF Talks, Sees

\* A request is handed on, or the client is told.
LEMMA TalkAsked ==
    ASSUME NEW n, NEW q, NEW o, NEW d, NEW w, NEW r, NEW k, NEW p, Talks(n, q, o, d, w), n.st = "open",
           d # "no" \/ n.part, r.st = n.st, ~r.part, k.body_len = q.body_len, q.body_len \in {-1, 0},
           \/ k.backend # NULL /\ p = o /\ k.headers = q.headers
           \/ k.be_conn = NULL /\ p = "close"
           \/ k.be_conn = NULL /\ p = o /\ q.headers
    PROVE  Talks(r, k, p, "no", Sees(w, p, n.st, r.st))
BY SMT DEF Talks, Sees

\* The first part of a request is read.
LEMMA TalkPart ==
    ASSUME NEW n, NEW q, NEW o, NEW d, NEW w, NEW r, Talks(n, q, o, d, w), n.st = "open", d # "no", r.st = n.st
    PROVE  Talks(r, q, o, "no", Sees(w, o, n.st, r.st))
BY SMT DEF Talks, Sees

\* The client closes.
LEMMA TalkEnds ==
    ASSUME NEW n, NEW q, NEW o, NEW d, NEW w, NEW r, NEW k, NEW p, Talks(n, q, o, d, w), n.st = "open",
           r.st = "free", p \in {o, "close"}, w \in {"talk", "wait", "done"}
    PROVE  Talks(r, k, p, "no", Sees(w, p, n.st, r.st))
BY SMT DEF Talks, Sees


\* What a step may do to a client whose own socket is not read.
Goes(s, t, c) ==
    \/ /\ t.nc[c].st = s.nc[c].st /\ t.nc[c].part = s.nc[c].part
       /\ t.conn[c] = s.conn[c] /\ t.told[c] = s.told[c]
    \/ /\ \E b \in Back : Serves(s, b, c)
       /\ (s.conn[c].client /\ Relieved(s, t, c)) \/ Refused(s, t, c) \/ Lost(s, t, c)

\* The client keeps its view of it.
LEMMA GoesOn ==
    ASSUME NEW s \in Mem, NEW t, NEW c \in Client, NEW D, NEW k, NEW h, NEW w \in Turns, NEW v, Good(s, D, NULL),
           TalkAt(s, k, w, c), Goes(s, t, c), h[c].data = k[c].data, Watch(s, t, w, v)
    PROVE  TalkAt(t, h, v, c)
<1>0. c \in Nc /\ NULL \notin Back /\ NULL \notin Client BY Zenon, LBAssumption DEF Nc
<1>n. PICK n : n = s.nc[c] BY Zenon
<1>q. PICK q : q = s.conn[c] BY Zenon
<1>r. PICK r : r = t.nc[c] BY Zenon
<1>k. PICK e : e = t.conn[c] BY Zenon
<1>o. PICK o : o = s.told[c] BY Zenon
<1>p. PICK p : p = t.told[c] BY Zenon
<1>1. Talks(n, q, o, k[c].data, w[c]) BY Zenon, <1>n, <1>q, <1>o DEF TalkAt
<1>2. v[c] = Sees(w[c], p, n.st, r.st) BY Zenon, <1>n, <1>r, <1>p DEF Watch
<1>3. w[c] \in {"talk", "wait", "done"} BY SMT DEF Turns
<1>4. SUFFICES Talks(r, e, p, k[c].data, Sees(w[c], p, n.st, r.st))
  BY Zenon, <1>2, <1>r, <1>k, <1>p DEF TalkAt
<1>5. CASE r.st = n.st /\ r.part = n.part /\ e = q /\ p = o
  <2>1. Talks(r, q, o, k[c].data, Sees(w[c], o, n.st, r.st)) BY SMT, <1>1, <1>5, TalkOn
  <2>2. QED BY Zenon, <2>1, <1>5
<1>6. ASSUME NEW b \in Back, Serves(s, b, c),
             (s.conn[c].client /\ Relieved(s, t, c)) \/ Refused(s, t, c) \/ Lost(s, t, c)
      PROVE  Talks(r, e, p, k[c].data, Sees(w[c], p, n.st, r.st))
  <2>1. q.be_conn # NULL /\ q.mem BY Zenon, <1>0, <1>6, <1>q DEF Serves
  <2>2. q # NoConn BY SMT, <2>1 DEF NoConn
  <2>3. q.body_len \in {-1, 0}
    <3>1. q \in ConnType BY Zenon, <1>q, Entries
    <3>2. QED BY Zenon, <3>1 DEF ConnType
  <2>4. Clients(s, D, c) BY Zenon, <1>0 DEF Good, Sane
  <2>5. n.st \in {"free", "open"} /\ (n.st = "free" => ~q.client) /\ (n.st = "open" => q.client)
    BY Zenon, <1>n, <1>q, <2>4 DEF Clients
  <2>6. CASE s.conn[c].client /\ Relieved(s, t, c)
    <3>1. /\ r.st = n.st /\ r.part = n.part /\ e.be_conn = NULL /\ e.body_len = 0 /\ p \in {"keep", "close"}
          /\ n.st = "open"
      BY Zenon, <1>n, <1>q, <1>r, <1>k, <1>p, <2>5, <2>6 DEF Relieved
    <3>2. QED BY SMT, <1>1, <1>3, <2>1, <3>1, TalkRelieved
  <2>7. CASE Refused(s, t, c)
    <3>1. /\ r.st = n.st /\ r.part = n.part /\ e.be_conn = NULL /\ e.body_len = 0 /\ p \in {o, "close"}
      BY Zenon, <1>n, <1>r, <1>k, <1>p, <1>o, <2>7 DEF Refused
    <3>2. n.st \in {"open", "free"} BY Zenon, <2>5
    <3>3. QED BY SMT, <1>1, <1>3, <2>1, <2>2, <3>1, <3>2, TalkRefused
  <2>8. CASE Lost(s, t, c)
    <3>1. /\ r.st = n.st /\ r.part = n.part /\ p \in {o, "close"}
          /\ q.client =>
               /\ e.be_conn = q.be_conn /\ e.body_len = q.body_len
               /\ q.body_len < 0 => q.headers \/ p = "close"
               /\ e.headers => q.headers \/ p = "close"
      BY Zenon, <1>n, <1>q, <1>r, <1>k, <1>p, <1>o, <2>8 DEF Lost
    <3>2. CASE n.st = "free"
      <4>1. r.st = n.st BY Zenon, <3>1
      <4>2. QED BY SMT, <1>1, <1>3, <2>2, <3>2, <4>1 DEF Talks, Sees
    <3>3. CASE n.st = "open"
      <4>1. q.client BY Zenon, <2>5, <3>3
      <4>2. QED BY SMT, <1>1, <1>3, <2>1, <2>3, <3>1, <3>3, <4>1, TalkLost
    <3>4. QED BY Zenon, <2>5, <3>2, <3>3
  <2>9. QED BY Zenon, <1>6, <2>6, <2>7, <2>8
<1>7. QED BY Zenon, <1>n, <1>q, <1>r, <1>k, <1>o, <1>p, <1>5, <1>6 DEF Goes

-----------------------------------------------------------------------------
(* The inductive invariant                                                 *)

\* A connection that could not be connected is closed before the next poll.
Doomed(b) == IF todo = NULL THEN ready # {} /\ b \notin ready ELSE b \in Range1(todo)

Typed == m \in Mem /\ sock \in Socks /\ turn \in Turns /\ ready \subseteq Nc /\ todo \in Lists \cup {NULL}
Walks == (\A x \in ready : m.nc[x].st # "free") /\ (todo # NULL => ready = {})
Sound == \E D \in SUBSET Back : Good(m, D, NULL) /\ \A b \in D : Doomed(b)
Talking == \A c \in Client : TalkAt(m, sock, turn, c)
IInv == Typed /\ Walks /\ Sound /\ Talking

\* It holds at the start.
LEMMA Starts ==
    ASSUME Init
    PROVE  IInv
<1>0. NULL \notin Client \cup Back /\ Nc = Client \cup Back BY Zenon, LBAssumption DEF Nc
<1>a. NoNc \in NcType /\ NoNc.st = "free" /\ ~NoNc.part BY SMT DEF NoNc, NcType, Flag
<1>b. NoConn \in ConnType /\ ~NoConn.client BY SMT DEF NoConn, ConnType
<1>c. NoBec \in BecType /\ ~NoBec.mem BY SMT DEF NoBec, BecType
<1>1. [x \in Nc |-> NoNc] \in Ncs BY SMT, <1>a DEF Ncs
<1>2. [c \in Client |-> NoConn] \in Conns BY SMT, <1>b DEF Conns
<1>3. [b \in Back |-> NoBec] \in Becs BY SMT, <1>c DEF Becs
<1>4. [b \in Back |-> NULL] \in Owes BY SMT DEF Owes
<1>5. [c \in Client |-> "no"] \in Tolds BY SMT DEF Tolds, Said
<1>6. <<>> \in Pools /\ <<>> \in Lists BY SMT DEF Pools, Lists
<1>7. /\ m.nc = [x \in Nc |-> NoNc] /\ m.conn = [c \in Client |-> NoConn] /\ m.bec = [b \in Back |-> NoBec]
      /\ m.pool = <<>> /\ m.num_conns = 0 /\ m.list = <<>> /\ m.owed = [b \in Back |-> NULL]
      /\ m.told = [c \in Client |-> "no"]
  BY SMT DEF Init
<1>8. m \in Mem BY SMT, <1>1, <1>2, <1>3, <1>4, <1>5, <1>6 DEF Init, Mem
<1>9. /\ \A x \in Nc : m.nc[x] = NoNc
      /\ \A c \in Client : m.conn[c] = NoConn
      /\ \A b \in Back : m.bec[b] = NoBec /\ m.owed[b] = NULL
  BY SMT, <1>7
<1>10. Pool(m)
  <2>1. Len(m.pool) = 0 /\ 1 .. Len(m.pool) = {} BY SMT, <1>7
  <2>2. Range1(m.pool) = {} BY Zenon, <2>1 DEF Range1
  <2>3. \A b \in Back : ~InPool(m, b) BY Zenon, <1>9, <1>c DEF InPool
  <2>4. Len(m.pool) <= m.num_conns BY SMT, <2>1, <1>7
  <2>5. Distinct(m.pool) BY Zenon, <2>1 DEF Distinct
  <2>6. QED BY Zenon, <2>2, <2>3, <2>4, <2>5 DEF Pool
<1>11. Sane(m, {}, NULL)
  <2>1. \A b \in Back : Backs(m, {}, b) BY Zenon, <1>0, <1>a, <1>9 DEF Backs
  <2>2. \A c \in Client : Clients(m, {}, c) BY Zenon, <1>0, <1>a, <1>b, <1>9 DEF Clients
  <2>3. Listed(m) BY Zenon, <1>a, <1>9 DEF Listed
  <2>4. QED BY Zenon, <2>1, <2>2, <2>3, <1>10 DEF Sane
<1>12. m.num_conns <= MaxIdle BY SMT, <1>7, LBAssumption
<1>13. Sound
  <2>1. Good(m, {}, NULL) BY Zenon, <1>8, <1>11, <1>12 DEF Good
  <2>2. {} \in SUBSET Back /\ \A b \in {} : Doomed(b) BY Zenon
  <2>3. QED BY Zenon, <2>1, <2>2 DEF Sound
<1>14. sock \in Socks /\ \A x \in Nc : sock[x].data = "no" BY SMT DEF Init, Socks, NoSock
<1>15. turn \in Turns /\ \A c \in Client : turn[c] = "talk" BY SMT DEF Init, Turns
<1>16. Typed BY Zenon, <1>8, <1>14, <1>15 DEF Typed, Init
<1>17. Walks BY Zenon DEF Walks, Init
<1>18. Talking
  <2>1. SUFFICES ASSUME NEW c \in Client PROVE TalkAt(m, sock, turn, c) BY Zenon DEF Talking
  <2>2. m.nc[c].st = "free" /\ sock[c].data = "no" /\ turn[c] = "talk" /\ m.conn[c] = NoConn
    BY Zenon, <1>0, <1>a, <1>9, <1>14, <1>15
  <2>3. QED BY Zenon, <2>2 DEF TalkAt, Talks
<1>19. QED BY Zenon, <1>13, <1>16, <1>17, <1>18 DEF IInv


\* Between two polls every connection is well.
LEMMA AllWell ==
    ASSUME Sound, todo = NULL, ready = {}
    PROVE  Good(m, {}, NULL)
<1>1. PICK D \in SUBSET Back : Good(m, D, NULL) /\ \A b \in D : Doomed(b) BY Zenon DEF Sound
<1>2. D = {} BY Zenon, <1>1 DEF Doomed
<1>3. QED BY Zenon, <1>1, <1>2

\* NULL is not a list.
LEMMA NotList ==
    ASSUME NEW l \in Lists
    PROVE  l # NULL
BY Zenon, LBAssumption DEF Lists, Nc

\* A poll begins.
LEMMA PollKeeps ==
    ASSUME IInv, poll
    PROVE  IInv'
<1>0. Typed /\ Sound /\ Talking /\ todo = NULL /\ ready = {} BY Zenon DEF IInv, poll
<1>1. m' = m /\ sock' = sock /\ turn' = turn BY SMT DEF poll
<1>2. ready' \subseteq Nc /\ \A x \in ready' : m.nc[x].st # "free" BY SMT DEF poll
<1>3. m.list \in Lists BY Zenon, <1>0 DEF Typed, Mem
<1>4. todo' \in Lists \cup {NULL} /\ (todo' # NULL => ready' = {}) BY Zenon, <1>3 DEF poll
<1>5. Typed' BY Zenon, <1>0, <1>1, <1>2, <1>4 DEF Typed
<1>6. Walks' BY Zenon, <1>1, <1>2, <1>4 DEF Walks
<1>7. Sound'
  <2>1. Good(m', {}, NULL) BY Zenon, <1>0, <1>1, AllWell
  <2>2. {} \in SUBSET Back /\ \A b \in {} : Doomed(b)' BY Zenon
  <2>3. QED BY Zenon, <2>1, <2>2 DEF Sound
<1>8. Talking' BY Zenon, <1>0, <1>1 DEF Talking, TalkAt
<1>9. QED BY Zenon, <1>5, <1>6, <1>7, <1>8 DEF IInv

\* The list walk ends: no connection that could not be connected is left.
LEMMA DoneKeeps ==
    ASSUME IInv, sweep_done
    PROVE  IInv'
<1>0. /\ Typed /\ Walks /\ Sound /\ Talking /\ todo # NULL /\ todo' = NULL
      /\ \A i \in 1 .. Len(todo) : m.nc[todo[i]].flags = {}
  BY Zenon DEF IInv, sweep_done
<1>1. m' = m /\ sock' = sock /\ turn' = turn /\ ready' = ready BY SMT DEF sweep_done
<1>2. PICK D \in SUBSET Back : Good(m, D, NULL) /\ \A b \in D : Doomed(b) BY Zenon, <1>0 DEF Sound
<1>3. ASSUME NEW b \in D PROVE FALSE
  <2>1. PICK i \in 1 .. Len(todo) : b = todo[i] BY Zenon, <1>0, <1>2 DEF Doomed, Range1
  <2>2. m.nc[b].flags = {} BY Zenon, <1>0, <2>1
  <2>3. b \in Back \ {NULL} BY Zenon, LBAssumption
  <2>4. Failed(m, b) BY Zenon, <1>2, <2>3 DEF Good, Sane, Backs
  <2>5. QED BY Zenon, <2>2, <2>4 DEF Failed
<1>4. D = {} BY Zenon, <1>3
<1>5. Typed' BY Zenon, <1>0, <1>1 DEF Typed
<1>6. Walks' BY Zenon, <1>0, <1>1 DEF Walks
<1>7. Sound'
  <2>1. Good(m', {}, NULL) BY Zenon, <1>1, <1>2, <1>4
  <2>2. {} \in SUBSET Back /\ \A b \in {} : Doomed(b)' BY Zenon
  <2>3. QED BY Zenon, <2>1, <2>2 DEF Sound
<1>8. Talking' BY Zenon, <1>0, <1>1 DEF Talking, TalkAt
<1>9. QED BY Zenon, <1>5, <1>6, <1>7, <1>8 DEF IInv

\* Steps of the network that change nothing a client waits for.
LEMMA NetKeeps ==
    ASSUME IInv, sock' \in Socks, UNCHANGED <<m, turn, ready, todo>>,
           \A c \in Client : sock'[c].data # "no" => sock[c].data # "no" \/ m.nc[c].part,
           \A c \in Client : m.nc[c].st = "free" => sock'[c] = sock[c]
    PROVE  IInv'
<1>0. Typed /\ Walks /\ Sound /\ Talking BY Zenon DEF IInv
<1>1. m' = m /\ turn' = turn /\ ready' = ready /\ todo' = todo BY Zenon
<1>2. Typed' BY Zenon, <1>0, <1>1 DEF Typed
<1>3. Walks' BY Zenon, <1>0, <1>1 DEF Walks
<1>4. Sound' BY Zenon, <1>0, <1>1 DEF Sound, Doomed
<1>5. Talking'
  <2>1. SUFFICES ASSUME NEW c \in Client PROVE TalkAt(m, sock', turn, c) BY Zenon, <1>1 DEF Talking
  <2>2. TalkAt(m, sock, turn, c) BY Zenon, <1>0 DEF Talking
  <2>3. CASE m.nc[c].st = "free" BY Zenon, <2>2, <2>3 DEF TalkAt
  <2>4. CASE m.nc[c].st # "free" BY SMT, <2>2, <2>4 DEF TalkAt, Talks
  <2>5. QED BY Zenon, <2>3, <2>4
<1>6. QED BY Zenon, <1>2, <1>3, <1>4, <1>5 DEF IInv

\* The rest of a message arrives.
LEMMA CompletesKeeps ==
    ASSUME IInv, NEW x \in Nc, completes(x)
    PROVE  IInv'
<1>1. sock \in Socks BY Zenon DEF IInv, Typed
<1>2. sock' \in Socks /\ \A c \in Nc \ {x} : sock'[c] = sock[c] BY SMT, <1>1 DEF completes, Socks
<1>3. m.nc[x].st = "open" /\ (sock[x].data # "no" \/ m.nc[x].part) BY SMT DEF completes
<1>4. \A c \in Client : c \in Nc BY Zenon DEF Nc
<1>5. UNCHANGED <<m, turn, ready, todo>> BY SMT DEF completes
<1>6. QED BY SMT, <1>2, <1>3, <1>4, <1>5, NetKeeps

\* A backend answers.
LEMMA AnswerKeeps ==
    ASSUME IInv, NEW b \in Back, backend_answers(b)
    PROVE  IInv'
<1>1. sock \in Socks BY Zenon DEF IInv, Typed
<1>2. b \in Nc /\ \A c \in Client : c \in Nc \ {b} BY Zenon, LBAssumption DEF Nc
<1>r. PICK d \in {"part", "whole"} : sock' = [sock EXCEPT ![b].data = d] BY Zenon DEF backend_answers
<1>3. sock' \in Socks /\ \A c \in Nc \ {b} : sock'[c] = sock[c] BY SMT, <1>1, <1>2, <1>r DEF Socks
<1>4. UNCHANGED <<m, turn, ready, todo>> BY SMT DEF backend_answers
<1>5. QED BY SMT, <1>2, <1>3, <1>4, NetKeeps

\* A connection attempt ends.
LEMMA FinishKeeps ==
    ASSUME IInv, NEW b \in Back, connect_finishes(b)
    PROVE  IInv'
<1>1. sock \in Socks BY Zenon DEF IInv, Typed
<1>2. b \in Nc /\ \A c \in Client : c \in Nc \ {b} BY Zenon, LBAssumption DEF Nc
<1>r. PICK r \in {"ok", "err"} : sock' = [sock EXCEPT ![b].syn = r] BY Zenon DEF connect_finishes
<1>3. sock' \in Socks /\ \A c \in Nc \ {b} : sock'[c] = sock[c] BY SMT, <1>1, <1>2, <1>r DEF Socks
<1>4. UNCHANGED <<m, turn, ready, todo>> BY SMT DEF connect_finishes
<1>5. QED BY SMT, <1>2, <1>3, <1>4, NetKeeps

\* A peer closes.
LEMMA PeerKeeps ==
    ASSUME IInv, NEW x \in Nc, peer_closes(x)
    PROVE  IInv'
<1>1. sock \in Socks BY Zenon DEF IInv, Typed
<1>k. PICK k : k = [sock[x] EXCEPT !.fin = TRUE] BY Zenon
<1>a. sock[x] \in [data : {"no", "part", "whole"}, fin : BOOLEAN, syn : {"pending", "ok", "err"}]
  BY SMT, <1>1 DEF Socks
<1>b. k \in [data : {"no", "part", "whole"}, fin : BOOLEAN, syn : {"pending", "ok", "err"}] /\ k.data = sock[x].data
  BY Zenon, <1>k, <1>a
<1>c. sock' = [sock EXCEPT ![x] = k] BY Zenon, <1>k DEF peer_closes
<1>2. sock' \in Socks /\ (\A c \in Nc \ {x} : sock'[c] = sock[c]) /\ sock'[x].data = sock[x].data
  BY SMT, <1>1, <1>b, <1>c DEF Socks
<1>3. m.nc[x].st = "open" /\ UNCHANGED <<m, turn, ready, todo>> BY SMT DEF peer_closes
<1>4. \A c \in Client : c \in Nc BY Zenon DEF Nc
<1>5. \A c \in Client : sock'[c].data = sock[c].data BY Zenon, <1>2, <1>4
<1>6. QED BY SMT, <1>2, <1>3, <1>4, <1>5, NetKeeps


\* An open connection is marked.
LEMMA FlagGood ==
    ASSUME NEW s \in Mem, NEW x \in Nc, NEW f \in Flag, NEW D, Good(s, D, NULL), s.nc[x].st = "open"
    PROVE  Good(flag(s, x, f), D, NULL) /\ Marked(s, flag(s, x, f), x)
<1>1. x # NULL BY Zenon, LBAssumption DEF Nc
<1>2. Sane(flag(s, x, f), D, NULL) BY Zenon, <1>1, FlagSane DEF Good
<1>3. Marked(s, flag(s, x, f), x) BY Zenon, FlagSet
<1>4. QED BY Zenon, <1>2, <1>3 DEF Good, Marked, SameRest

\* A step of the memory while events are handled: D stays.
LEMMA SoundKeeps ==
    ASSUME NEW D \in SUBSET Back, \A b \in D : Doomed(b), ready' = ready, todo' = todo, Good(m', D, NULL)
    PROVE  Sound'
<1>1. \A b \in D : Doomed(b)' BY Zenon DEF Doomed
<1>2. QED BY Zenon, <1>1 DEF Sound

\* A client is accepted.
LEMMA AcceptKeeps ==
    ASSUME IInv, NEW c \in Client, accept(c)
    PROVE  IInv'
<1>0. Typed /\ Walks /\ Sound /\ Talking /\ m \in Mem BY Zenon DEF IInv, Typed
<1>1. /\ m' = accepts(m, c) /\ sock' = sock /\ turn' = turn /\ ready' = ready /\ todo' = todo
      /\ m.nc[c].st = "free" /\ turn[c] = "talk" /\ todo = NULL
  BY SMT DEF accept, accepts
<1>2. PICK D \in SUBSET Back : Good(m, D, NULL) /\ \A b \in D : Doomed(b) BY Zenon, <1>0 DEF Sound
<1>3. TalkAt(m, sock, turn, c) BY Zenon, <1>0 DEF Talking
<1>4. m.conn[c] = NoConn /\ sock[c].data = "no" BY Zenon, <1>1, <1>3 DEF TalkAt, Talks
<1>5. /\ Good(m', D, NULL) /\ Keep(m, m', c) /\ m'.told = m.told
      /\ m'.nc[c].st = "open" /\ ~m'.nc[c].part /\ m'.conn[c].be_conn = NULL /\ ~m'.conn[c].headers
      /\ \A y \in Nc : m.nc[y].st # "free" => m'.nc[y].st # "free"
  BY SMT, <1>0, <1>1, <1>2, <1>4, AcceptGood
<1>6. Typed' BY Zenon, <1>0, <1>1, <1>5 DEF Typed, Good
<1>7. Walks' BY Zenon, <1>0, <1>1, <1>5 DEF Walks, Typed
<1>8. Sound' BY Zenon, <1>1, <1>2, <1>5, SoundKeeps
<1>9. Talking'
  <2>1. SUFFICES ASSUME NEW e \in Client PROVE TalkAt(m', sock, turn, e) BY Zenon, <1>1 DEF Talking
  <2>2. CASE e = c BY SMT, <1>1, <1>4, <1>5, <2>2 DEF TalkAt, Talks
  <2>3. CASE e # c
    <3>1. TalkAt(m, sock, turn, e) BY Zenon, <1>0 DEF Talking
    <3>2. m'.nc[e] = m.nc[e] /\ m'.conn[e] = m.conn[e] /\ m'.told[e] = m.told[e] BY Zenon, <1>5, <2>3 DEF Keep
    <3>3. QED BY Zenon, <3>1, <3>2 DEF TalkAt
  <2>4. QED BY Zenon, <2>2, <2>3
<1>10. QED BY Zenon, <1>6, <1>7, <1>8, <1>9 DEF IInv

\* A client sends a request.
LEMMA AskKeeps ==
    ASSUME IInv, NEW c \in Client, client_asks(c)
    PROVE  IInv'
<1>0. Typed /\ Walks /\ Sound /\ Talking /\ m \in Mem /\ sock \in Socks /\ turn \in Turns /\ c \in Nc
  BY Zenon DEF IInv, Typed, Nc
<1>1. /\ m' = [m EXCEPT !.told[c] = "no"] /\ turn' = [turn EXCEPT ![c] = "wait"] /\ ready' = ready /\ todo' = todo
      /\ m.nc[c].st = "open" /\ turn[c] = "talk"
  BY SMT DEF client_asks
<1>2. PICK D \in SUBSET Back : Good(m, D, NULL) /\ \A b \in D : Doomed(b) BY Zenon, <1>0 DEF Sound
<1>3. TalkAt(m, sock, turn, c) BY Zenon, <1>0 DEF Talking
<1>4. /\ m.conn[c].be_conn = NULL /\ ~m.nc[c].part
      /\ ~(m.conn[c].headers /\ m.conn[c].body_len < 0)
  BY SMT, <1>1, <1>3 DEF TalkAt, Talks
<1>5. Soft(m, m', c) /\ m'.nc = m.nc /\ m'.conn = m.conn /\ m'.told[c] = "no" BY Zenon, <1>0, <1>1, AskSoft
<1>6. Sane(m', D, NULL) BY Zenon, <1>0, <1>2, <1>5, SoftSane DEF Good
<1>7. Good(m', D, NULL) BY Zenon, <1>2, <1>5, <1>6 DEF Good, Soft, SameRest
<1>d. PICK d \in {"part", "whole"} : sock' = [sock EXCEPT ![c].data = d] BY Zenon DEF client_asks
<1>8. sock' \in Socks /\ \A y \in Nc \ {c} : sock'[y] = sock[y] BY SMT, <1>0, <1>d DEF Socks
<1>9. turn' \in Turns /\ turn'[c] = "wait" /\ \A e \in Client \ {c} : turn'[e] = turn[e] BY SMT, <1>0, <1>1 DEF Turns
<1>10. Typed' BY Zenon, <1>0, <1>1, <1>7, <1>8, <1>9 DEF Typed, Good
<1>11. Walks' BY Zenon, <1>0, <1>1, <1>5 DEF Walks
<1>12. Sound' BY Zenon, <1>1, <1>2, <1>7, SoundKeeps
<1>13. Talking'
  <2>1. SUFFICES ASSUME NEW e \in Client PROVE TalkAt(m', sock', turn', e) BY Zenon DEF Talking
  <2>2. CASE e = c BY SMT, <1>1, <1>4, <1>5, <1>9, <2>2 DEF TalkAt, Talks
  <2>3. CASE e # c
    <3>1. TalkAt(m, sock, turn, e) BY Zenon, <1>0 DEF Talking
    <3>2. m'.told[e] = m.told[e] /\ e \in Nc \ {c} BY Zenon, <1>5, <2>3 DEF Soft, Nc
    <3>3. sock'[e] = sock[e] /\ turn'[e] = turn[e] BY Zenon, <1>8, <1>9, <2>3, <3>2
    <3>4. QED BY Zenon, <1>5, <3>1, <3>2, <3>3 DEF TalkAt
  <2>4. QED BY Zenon, <2>2, <2>3
<1>14. QED BY Zenon, <1>10, <1>11, <1>12, <1>13 DEF IInv

\* An idle connection times out.
LEMMA IdleKeeps ==
    ASSUME IInv, NEW b \in Back, idle_timeout(b)
    PROVE  IInv'
<1>0. Typed /\ Walks /\ Sound /\ Talking /\ m \in Mem /\ b \in Nc /\ "CLOSE_IMMEDIATELY" \in Flag
  BY Zenon DEF IInv, Typed, Nc, Flag
<1>1. /\ m' = flag(m, b, "CLOSE_IMMEDIATELY") /\ sock' = sock /\ turn' = turn /\ ready' = ready /\ todo' = todo
      /\ m.nc[b].st = "open"
  BY Zenon DEF idle_timeout
<1>2. PICK D \in SUBSET Back : Good(m, D, NULL) /\ \A d \in D : Doomed(d) BY Zenon, <1>0 DEF Sound
<1>3. Good(m', D, NULL) /\ Marked(m, m', b) BY Zenon, <1>0, <1>1, <1>2, FlagGood
<1>4. /\ m'.conn = m.conn /\ m'.told = m.told /\ m'.nc[b].st = m.nc[b].st
      /\ \A y \in Nc \ {b} : m'.nc[y] = m.nc[y]
  BY Zenon, <1>3 DEF Marked, SameNc
<1>5. Typed' BY Zenon, <1>0, <1>1, <1>3 DEF Typed, Good
<1>6. Walks'
  <2>1. \A y \in ready : m'.nc[y].st = m.nc[y].st BY Zenon, <1>0, <1>4 DEF Typed
  <2>2. QED BY Zenon, <1>0, <1>1, <2>1 DEF Walks
<1>7. Sound' BY Zenon, <1>1, <1>2, <1>3, SoundKeeps
<1>8. Talking'
  <2>1. \A e \in Client : e \in Nc \ {b} BY Zenon, LBAssumption DEF Nc
  <2>2. QED BY Zenon, <1>0, <1>1, <1>4, <2>1 DEF Talking, TalkAt
<1>9. QED BY Zenon, <1>5, <1>6, <1>7, <1>8 DEF IInv


\* watch.
LEMMA WatchIs ==
    ASSUME turn \in Turns, watch
    PROVE  turn' \in Turns /\ Watch(m, m', turn, turn')
<1>1. turn' = [c \in Client |-> Sees(turn[c], m'.told[c], m.nc[c].st, m'.nc[c].st)] BY Zenon DEF watch, Sees
<1>2. \A c \in Client : turn'[c] = Sees(turn[c], m'.told[c], m.nc[c].st, m'.nc[c].st) BY Zenon, <1>1
<1>3. ASSUME NEW c \in Client PROVE turn'[c] \in {"talk", "wait", "done"}
  <2>1. turn[c] \in {"talk", "wait", "done"} BY SMT DEF Turns
  <2>2. QED BY Zenon, <1>2, <2>1 DEF Sees
<1>4. turn' \in Turns BY SMT, <1>1, <1>3 DEF Turns
<1>5. QED BY Zenon, <1>2, <1>4 DEF Watch

\* Two memories that look the same to the clients.
Views(t, u) ==
    \A e \in Client : /\ u.nc[e].st = t.nc[e].st /\ u.nc[e].part = t.nc[e].part
                      /\ u.conn[e] = t.conn[e] /\ u.told[e] = t.told[e]

\* They see the same.
LEMMA ViewSame ==
    ASSUME NEW s, NEW t, NEW u, NEW h, NEW w, NEW v, Views(t, u), Watch(s, u, w, v)
    PROVE  /\ Watch(s, t, w, v)
           /\ (\A e \in Client : TalkAt(t, h, v, e)) => \A e \in Client : TalkAt(u, h, v, e)
<1>1. Watch(s, t, w, v) BY Zenon DEF Watch, Views
<1>2. ASSUME NEW e \in Client, TalkAt(t, h, v, e) PROVE TalkAt(u, h, v, e)
  BY Zenon, <1>2 DEF TalkAt, Talks, Views
<1>3. QED BY Zenon, <1>1, <1>2

\* The memory after something of x was read, D and the connections staying.
Reads(s, t, D, x) ==
    Good(t, D, NULL) /\ t.nc[x].st = "open" /\ \A y \in Nc : s.nc[y].st # "free" => t.nc[y].st # "free"

\* A client whose own socket is not read.
LEMMA OthersGo ==
    ASSUME NEW s, NEW t, NEW c, NEW e \in Client \ {c}, Others(s, t, c)
    PROVE  Goes(s, t, e)
BY Zenon DEF Others, Goes

\* A request is read.
LEMMA RequestRead ==
    ASSUME NEW s \in Mem, NEW D, NEW c \in Client, NEW k, NEW h, NEW w \in Turns, NEW v, NEW t,
           Good(s, D, NULL), s.nc[c].st = "open", k[c].data # "no", h[c].data = "no",
           \A e \in Client \ {c} : h[e].data = k[e].data, \A e \in Client : TalkAt(s, k, w, e),
           t \in on_request(s, c), Watch(s, t, w, v)
    PROVE  Reads(s, t, D, c) /\ \A e \in Client : TalkAt(t, h, v, e)
<1>0. c \in Nc BY Zenon DEF Nc
<1>1. TalkAt(s, k, w, c) BY Zenon
<1>2. s.conn[c].be_conn = NULL BY Zenon, <1>1 DEF TalkAt, Talks
<1>3. Good(t, D, NULL) /\ Others(s, t, c) /\ Asked(s, t, c) BY Zenon, <1>2, RequestGood
<1>4. Reads(s, t, D, c) BY Zenon, <1>3 DEF Reads, Others, Asked
<1>5. ASSUME NEW e \in Client PROVE TalkAt(t, h, v, e)
  <2>1. CASE e # c
    <3>1. Goes(s, t, e) BY Zenon, <1>3, <2>1, OthersGo
    <3>2. h[e].data = k[e].data BY Zenon, <2>1
    <3>3. TalkAt(s, k, w, e) BY Zenon
    <3>4. QED BY SMT, <3>1, <3>2, <3>3, GoesOn
  <2>2. CASE e = c
    <3>n. PICK n : n = s.nc[c] BY Zenon
    <3>q. PICK q : q = s.conn[c] BY Zenon
    <3>r. PICK r : r = t.nc[c] BY Zenon
    <3>e. PICK g : g = t.conn[c] BY Zenon
    <3>o. PICK o : o = s.told[c] BY Zenon
    <3>p. PICK p : p = t.told[c] BY Zenon
    <3>1. Talks(n, q, o, k[c].data, w[c]) BY Zenon, <1>1, <3>n, <3>q, <3>o DEF TalkAt
    <3>2. q \in ConnType BY Zenon, <3>q, Entries
    <3>3. q.body_len \in {-1, 0} BY Zenon, <3>2 DEF ConnType
    <3>4. /\ n.st = "open" /\ r.st = n.st /\ ~r.part /\ g.body_len = q.body_len
          /\ \/ g.backend # NULL /\ p = o /\ g.headers = q.headers
             \/ g.be_conn = NULL /\ p = "close"
             \/ g.be_conn = NULL /\ p = o /\ q.headers
      BY Zenon, <1>3, <3>n, <3>q, <3>r, <3>e, <3>o, <3>p DEF Asked
    <3>5. Talks(r, g, p, "no", Sees(w[c], p, n.st, r.st)) BY SMT, <3>1, <3>3, <3>4, TalkAsked
    <3>6. v[c] = Sees(w[c], p, n.st, r.st) BY Zenon, <3>n, <3>r, <3>p DEF Watch
    <3>7. QED BY Zenon, <2>2, <3>5, <3>6, <3>r, <3>e, <3>p DEF TalkAt
  <2>3. QED BY Zenon, <2>1, <2>2
<1>6. QED BY Zenon, <1>4, <1>5

\* A part of a message is read.
LEMMA PartRead ==
    ASSUME NEW s \in Mem, NEW D, NEW x \in Nc, NEW k, NEW h, NEW w \in Turns, NEW v, NEW t,
           Good(s, D, NULL), s.nc[x].st = "open", k[x].data # "no", h[x].data = "no",
           \A e \in Client \ {x} : h[e].data = k[e].data, \A e \in Client : TalkAt(s, k, w, e),
           t = parts(s, x), Watch(s, t, w, v)
    PROVE  Reads(s, t, D, x) /\ \A e \in Client : TalkAt(t, h, v, e)
<1>0. x # NULL /\ \A e \in Client : e \in Nc BY Zenon, LBAssumption DEF Nc
<1>1. Nudged(s, t, x) BY Zenon, PartSet
<1>2. /\ t \in Mem /\ t.conn = s.conn /\ t.told = s.told /\ t.num_conns = s.num_conns
      /\ (\A y \in Nc \ {x} : t.nc[y] = s.nc[y]) /\ t.nc[x].st = s.nc[x].st
  BY Zenon, <1>1 DEF Nudged, SameRest, Alike
<1>3. Sane(t, D, NULL) BY Zenon, <1>0, <1>1, NudgeSane DEF Good
<1>4. Reads(s, t, D, x) BY Zenon, <1>2, <1>3 DEF Reads, Good
<1>5. ASSUME NEW e \in Client PROVE TalkAt(t, h, v, e)
  <2>0. TalkAt(s, k, w, e) BY Zenon
  <2>1. CASE e # x
    <3>1. Goes(s, t, e) BY Zenon, <1>0, <1>2, <2>1 DEF Goes
    <3>2. h[e].data = k[e].data BY Zenon, <2>1
    <3>3. QED BY SMT, <2>0, <3>1, <3>2, GoesOn
  <2>2. CASE e = x
    <3>1. v[e] = Sees(w[e], s.told[e], s.nc[e].st, t.nc[e].st) BY Zenon, <1>2 DEF Watch
    <3>2. Talks(s.nc[e], s.conn[e], s.told[e], k[e].data, w[e]) BY Zenon, <2>0 DEF TalkAt
    <3>3. s.nc[e].st = "open" /\ k[e].data # "no" /\ t.nc[e].st = s.nc[e].st BY Zenon, <1>2, <2>2
    <3>4. Talks(t.nc[e], s.conn[e], s.told[e], "no", Sees(w[e], s.told[e], s.nc[e].st, t.nc[e].st))
      BY Zenon, <3>2, <3>3, TalkPart
    <3>5. QED BY Zenon, <1>2, <2>2, <3>1, <3>4 DEF TalkAt
  <2>3. QED BY Zenon, <2>1, <2>2
<1>6. QED BY Zenon, <1>4, <1>5

\* A reply is read.
LEMMA ReplyRead ==
    ASSUME NEW s \in Mem, NEW D, NEW b \in Back, NEW k, NEW h, NEW w \in Turns, NEW v, NEW t, NEW keep \in BOOLEAN,
           Good(s, D, NULL), s.nc[b].st = "open", s.nc[b].handler = "ev",
           \A e \in Client : h[e].data = k[e].data, \A e \in Client : TalkAt(s, k, w, e),
           t = on_reply(s, b, keep), Watch(s, t, w, v)
    PROVE  Reads(s, t, D, b) /\ \A e \in Client : TalkAt(t, h, v, e)
<1>0. b \in Nc /\ b # NULL /\ b \in Back \ {NULL} BY Zenon, LBAssumption DEF Nc
<1>1. b \notin D BY Zenon, OpenIsWell DEF Good
<1>2. PICK c \in Client : Serves(s, b, c) BY Zenon, <1>1, Working DEF Good
<1>3. SUFFICES Reads(s, t, D, b) /\ \A e \in Client : Goes(s, t, e)
  <2>1. ASSUME NEW e \in Client PROVE TalkAt(t, h, v, e)
    <3>1. Goes(s, t, e) BY Zenon, <1>3
    <3>2. TalkAt(s, k, w, e) /\ h[e].data = k[e].data BY Zenon
    <3>3. QED BY SMT, <3>1, <3>2, GoesOn
  <2>2. QED BY Zenon, <1>3, <2>1
<1>4. CASE s.conn[c].client
  <2>1. Good(t, D, NULL) /\ Others(s, t, c) /\ Relieved(s, t, c) /\ t.nc[b].handler = "idle"
    BY SMT, <1>2, <1>4, ReplyGood
  <2>2. Backs(t, D, b) /\ t.nc[b].st # "free" BY Zenon, <1>0, <2>1 DEF Good, Sane, Others
  <2>3. t.nc[b].st = "open" BY Zenon, <1>1, <2>1, <2>2 DEF Backs, Rests, Serves
  <2>4. Reads(s, t, D, b) BY Zenon, <2>1, <2>3 DEF Reads, Others
  <2>5. Goes(s, t, c) BY Zenon, <1>2, <1>4, <2>1 DEF Goes
  <2>6. \A e \in Client \ {c} : Goes(s, t, e) BY Zenon, <2>1, OthersGo
  <2>7. QED BY Zenon, <2>4, <2>5, <2>6
<1>5. CASE ~s.conn[c].client
  <2>1. s.nc[b].ud = c BY Zenon, <1>2 DEF Serves
  <2>2. Crash(s, t) /\ Good(t, D, NULL) BY SMT, <1>5, <2>1, ReplyCrash
  <2>3. t.nc = s.nc /\ t.conn = s.conn /\ t.told = s.told BY Zenon, <2>2 DEF Crash
  <2>4. QED BY Zenon, <2>2, <2>3 DEF Reads, Goes
<1>6. QED BY Zenon, <1>4, <1>5


\* Reading from an open connection.
LEMMA ReceiveKeeps ==
    ASSUME Typed, Talking, NEW D, NEW x \in Nc, NEW h, NEW v, NEW t, Good(m, D, NULL), m.nc[x].st = "open",
           h[x].data = "no", \A y \in Nc \ {x} : h[y] = sock[y], t \in received(x), Watch(m, t, turn, v)
    PROVE  Reads(m, t, D, x) /\ \A e \in Client : TalkAt(t, h, v, e)
<1>0. m \in Mem /\ sock \in Socks /\ turn \in Turns /\ \A e \in Client : TalkAt(m, sock, turn, e)
  BY Zenon DEF Typed, Talking
<1>n. \A e \in Client : e \in Nc BY Zenon DEF Nc
<1>1. h[x].data = "no" BY Zenon
<1>2. \A e \in Client \ {x} : h[e].data = sock[e].data BY Zenon, <1>n
<1>3. ASSUME t = m, \A e \in Client : h[e].data = sock[e].data
      PROVE  Reads(m, t, D, x) /\ \A e \in Client : TalkAt(t, h, v, e)
  <2>1. Reads(m, t, D, x) BY Zenon, <1>3 DEF Reads
  <2>2. ASSUME NEW e \in Client PROVE TalkAt(t, h, v, e)
    <3>1. Goes(m, t, e) BY Zenon, <1>3 DEF Goes
    <3>2. TalkAt(m, sock, turn, e) /\ h[e].data = sock[e].data BY Zenon, <1>0, <1>3
    <3>3. QED BY SMT, <1>0, <3>1, <3>2, GoesOn
  <2>3. QED BY Zenon, <2>1, <2>2
<1>4. CASE sock[x].data = "no"
  <2>1. t = m BY Zenon, <1>4 DEF received
  <2>2. \A e \in Client : h[e].data = sock[e].data BY Zenon, <1>1, <1>2, <1>4
  <2>3. QED BY Zenon, <1>3, <2>1, <2>2
<1>5. CASE sock[x].data = "part"
  <2>1. t = parts(m, x) /\ sock[x].data # "no" BY Zenon, <1>5 DEF received, parts
  <2>2. QED BY Zenon, <1>0, <1>1, <1>2, <2>1, PartRead
<1>6. CASE sock[x].data \notin {"no", "part"} /\ x \in Client
  <2>1. t \in on_request(m, x) BY Zenon, <1>6 DEF received
  <2>2. QED BY SMT, <1>0, <1>1, <1>2, <1>6, <2>1, RequestRead
<1>7. CASE sock[x].data \notin {"no", "part"} /\ x \notin Client
  <2>0. x \in Back /\ \A e \in Client : h[e].data = sock[e].data BY Zenon, <1>2, <1>7 DEF Nc
  <2>1. CASE m.nc[x].handler = "idle"
    <3>1. t = m BY Zenon, <1>7, <2>1 DEF received
    <3>2. QED BY Zenon, <1>3, <2>0, <3>1
  <2>2. CASE m.nc[x].handler # "idle"
    <3>1. PICK keep \in BOOLEAN : t = on_reply(m, x, keep) BY Zenon, <1>7, <2>2 DEF received
    <3>2. m.nc[x] \in NcType BY Zenon, <1>0, Entries
    <3>3. m.nc[x].handler = "ev" BY Zenon, <2>2, <3>2 DEF NcType
    <3>4. QED BY SMT, <1>0, <2>0, <3>1, <3>3, ReplyRead
  <2>3. QED BY Zenon, <2>1, <2>2
<1>8. QED BY Zenon, <1>4, <1>5, <1>6, <1>7

\* The end of a step of handle(x): either other events are left, and no failed
\* connection is among them, or the walk of the whole list begins.
LEMMA HandleEnds ==
    ASSUME IInv, NEW x \in ready, todo = NULL, ready' = ready \ {x},
           todo' = IF ready' = {} THEN m'.list ELSE NULL, sock' \in Socks, turn' \in Turns,
           NEW D \in SUBSET Back, \A b \in D : b \notin ready', Good(m', D, NULL),
           \A y \in Nc : m.nc[y].st # "free" => m'.nc[y].st # "free",
           \A c \in Client : TalkAt(m', sock', turn', c)
    PROVE  IInv'
<1>0. Typed /\ Walks /\ ready \subseteq Nc BY Zenon DEF IInv, Typed
<1>1. m' \in Mem /\ m'.list \in Lists BY Zenon DEF Good, Mem
<1>2. ready' \subseteq ready /\ todo' \in Lists \cup {NULL} BY Zenon, <1>1
<1>3. Typed' BY Zenon, <1>0, <1>1, <1>2 DEF Typed
<1>4. todo' # NULL => ready' = {} BY Zenon
<1>5. Walks' BY Zenon, <1>0, <1>2, <1>4 DEF Walks
<1>6. ASSUME NEW b \in D PROVE Doomed(b)'
  <2>1. CASE ready' # {} BY Zenon, <1>6, <2>1 DEF Doomed
  <2>2. CASE ready' = {}
    <3>1. todo' = m'.list /\ m'.list # NULL BY Zenon, <1>1, <2>2, NotList
    <3>2. b \in Nc /\ b \in Back \ {NULL} BY Zenon, LBAssumption DEF Nc
    <3>3. Failed(m', b) /\ Listed(m') BY Zenon, <3>2 DEF Good, Sane, Backs
    <3>4. b \in Range1(m'.list) BY Zenon, <3>2, <3>3 DEF Failed, Listed
    <3>5. QED BY Zenon, <3>1, <3>4 DEF Doomed
  <2>3. QED BY Zenon, <2>1, <2>2
<1>7. Sound' BY Zenon, <1>6 DEF Sound
<1>8. Talking' BY Zenon DEF Talking
<1>9. QED BY Zenon, <1>3, <1>5, <1>7, <1>8 DEF IInv

\* NS_CONNECT.
LEMMA ConnectKeeps ==
    ASSUME IInv, NEW x \in Nc, handle(x), m.nc[x].st = "connecting"
    PROVE  IInv'
<1>0. Typed /\ Walks /\ Sound /\ Talking /\ m \in Mem /\ sock \in Socks /\ turn \in Turns
  BY Zenon DEF IInv, Typed
<1>1. /\ todo = NULL /\ x \in ready /\ ready' = ready \ {x} /\ todo' = (IF ready' = {} THEN m'.list ELSE NULL)
      /\ m' = on_connect(m, x, sock[x].syn = "ok") /\ sock' = sock /\ watch
  BY Zenon DEF handle
<1>2. PICK D \in SUBSET Back : Good(m, D, NULL) /\ \A b \in D : Doomed(b) BY Zenon, <1>0 DEF Sound
<1>3. \A b \in D : b \notin ready BY Zenon, <1>1, <1>2 DEF Doomed
<1>4. x \in Back
  <2>1. \A c \in Client : Clients(m, D, c)
    <3>1. \A c \in Client : c \in Client \ {NULL} BY Zenon, LBAssumption
    <3>2. QED BY Zenon, <1>2, <3>1 DEF Good, Sane
  <2>2. QED BY Zenon, <2>1 DEF Clients, Nc
<1>5. PICK c \in Client : Serves(m, x, c)
  <2>1. x \notin D /\ x \in Back \ {NULL} BY Zenon, <1>1, <1>3, <1>4, LBAssumption
  <2>2. Backs(m, D, x) BY Zenon, <1>2, <2>1 DEF Good, Sane
  <2>3. QED BY Zenon, <2>1, <2>2 DEF Backs, Rests
<1>6. turn' \in Turns /\ Watch(m, m', turn, turn') BY Zenon, <1>0, <1>1, WatchIs
<1>7. SUFFICES \E E \in SUBSET Back :
                   (\A b \in E : b \notin ready') /\ Good(m', E, NULL) /\ Others(m, m', c) /\ Goes(m, m', c)
  <2>1. PICK E \in SUBSET Back :
            (\A b \in E : b \notin ready') /\ Good(m', E, NULL) /\ Others(m, m', c) /\ Goes(m, m', c)
    BY Zenon, <1>7
  <2>2. ASSUME NEW e \in Client PROVE TalkAt(m', sock', turn', e)
    <3>1. Goes(m, m', e)
      <4>1. CASE e = c BY Zenon, <2>1, <4>1
      <4>2. CASE e # c BY Zenon, <2>1, <4>2, OthersGo
      <4>3. QED BY Zenon, <4>1, <4>2
    <3>2. TalkAt(m, sock, turn, e) /\ sock'[e].data = sock[e].data BY Zenon, <1>0, <1>1 DEF Talking
    <3>3. QED BY SMT, <1>0, <1>2, <1>6, <3>1, <3>2, GoesOn
  <2>3. \A y \in Nc : m.nc[y].st # "free" => m'.nc[y].st # "free" BY Zenon, <2>1 DEF Others
  <2>4. sock' \in Socks BY Zenon, <1>0, <1>1
  <2>5. QED BY SMT, <1>1, <1>6, <2>1, <2>2, <2>3, <2>4, HandleEnds
<1>8. x \notin D /\ x \notin ready' /\ \A b \in D : b \notin ready' BY Zenon, <1>1, <1>3
<1>m. m \in Mem /\ Good(m, D, NULL) /\ x \notin D BY Zenon, <1>0, <1>2, <1>8
<1>9. CASE sock[x].syn = "ok"
  <2>1. m' = opens(m, x) BY Zenon, <1>1, <1>9 DEF on_connect, opens
  <2>2. Good(m', D, NULL) /\ Others(m, m', c) /\ Unseen(m, m', c)
    BY Zenon, <1>m, <1>4, <1>5, <2>1, ConnectGood
  <2>3. Goes(m, m', c) BY Zenon, <2>2 DEF Goes, Unseen
  <2>4. QED BY Zenon, <1>8, <2>2, <2>3
<1>10. CASE sock[x].syn # "ok"
  <2>1. m' = on_connect(m, x, FALSE) BY Zenon, <1>1, <1>10
  <2>2. Good(m', D \cup {x}, NULL) /\ Others(m, m', c) /\ Refused(m, m', c)
    BY Zenon, <1>m, <1>4, <1>5, <2>1, ConnectFails
  <2>3. Goes(m, m', c) BY Zenon, <1>4, <1>5, <2>2 DEF Goes
  <2>4. D \cup {x} \in SUBSET Back /\ \A b \in D \cup {x} : b \notin ready' BY Zenon, <1>4, <1>8
  <2>5. QED BY Zenon, <2>2, <2>3, <2>4
<1>11. QED BY Zenon, <1>9, <1>10

\* An event on a connection that is open.
LEMMA EventKeeps ==
    ASSUME IInv, NEW x \in Nc, handle(x), m.nc[x].st # "connecting"
    PROVE  IInv'
<1>0. Typed /\ Walks /\ Sound /\ Talking /\ m \in Mem /\ sock \in Socks /\ turn \in Turns
  BY Zenon DEF IInv, Typed
<1>1. /\ todo = NULL /\ x \in ready /\ ready' = ready \ {x} /\ todo' = (IF ready' = {} THEN m'.list ELSE NULL)
      /\ sock' = [sock EXCEPT ![x].data = "no"] /\ watch
      /\ \E t \in received(x) : m' = IF sock[x].fin /\ ~t.crashed THEN flag(t, x, "CLOSE_IMMEDIATELY") ELSE t
  BY Zenon DEF handle
<1>2. PICK t \in received(x) : m' = IF sock[x].fin /\ ~t.crashed THEN flag(t, x, "CLOSE_IMMEDIATELY") ELSE t
  BY Zenon, <1>1
<1>3. PICK D \in SUBSET Back : Good(m, D, NULL) /\ \A b \in D : Doomed(b) BY Zenon, <1>0 DEF Sound
<1>4. \A b \in D : b \notin ready' BY Zenon, <1>1, <1>3 DEF Doomed
<1>5. m.nc[x].st = "open"
  <2>1. m.nc[x] \in NcType BY Zenon, <1>0, Entries
  <2>2. m.nc[x].st # "free" BY Zenon, <1>0, <1>1 DEF Walks
  <2>3. QED BY Zenon, <2>1, <2>2 DEF NcType
<1>6. turn' \in Turns /\ Watch(m, m', turn, turn') BY Zenon, <1>0, <1>1, WatchIs
<1>s. sock'[x].data = "no" /\ \A y \in Nc \ {x} : sock'[y] = sock[y] BY SMT, <1>0, <1>1 DEF Socks
<1>t. Typed /\ Talking /\ Good(m, D, NULL) BY Zenon, <1>0, <1>3
<1>7. m' = t \/ m' = flag(t, x, "CLOSE_IMMEDIATELY") BY Zenon, <1>2
<1>8. Views(t, m') => Reads(m, t, D, x) /\ \A e \in Client : TalkAt(t, sock', turn', e)
  <2>1. HAVE Views(t, m')
  <2>2. Watch(m, t, turn, turn') BY SMT, <1>6, <2>1, ViewSame
  <2>3. QED BY Zenon, <1>t, <1>5, <1>s, <2>2, ReceiveKeeps
<1>9. Views(t, m') /\ Good(m', D, NULL) /\ \A y \in Nc : m.nc[y].st # "free" => m'.nc[y].st # "free"
  <2>1. CASE m' = t
    <3>1. Views(t, m') BY Zenon, <2>1 DEF Views
    <3>2. QED BY Zenon, <1>8, <2>1, <3>1 DEF Reads
  <2>2. CASE m' = flag(t, x, "CLOSE_IMMEDIATELY")
    \* received() does not depend on what follows it, so it may be watched alone.
    <3>1. PICK v : v = [c \in Client |-> Sees(turn[c], t.told[c], m.nc[c].st, t.nc[c].st)] BY Zenon
    <3>2. Watch(m, t, turn, v) BY Zenon, <3>1 DEF Watch
    <3>3. Reads(m, t, D, x) BY Zenon, <1>t, <1>5, <1>s, <3>2, ReceiveKeeps
    <3>4. t \in Mem /\ "CLOSE_IMMEDIATELY" \in Flag BY Zenon, <3>3 DEF Reads, Good, Flag
    <3>5. Good(m', D, NULL) /\ Marked(t, m', x) BY Zenon, <2>2, <3>3, <3>4, FlagGood DEF Reads
    <3>6. /\ m'.conn = t.conn /\ m'.told = t.told /\ SameNc(t.nc[x], m'.nc[x])
          /\ \A y \in Nc \ {x} : m'.nc[y] = t.nc[y]
      BY Zenon, <3>5 DEF Marked
    <3>7. \A y \in Nc : m'.nc[y].st = t.nc[y].st /\ m'.nc[y].part = t.nc[y].part BY Zenon, <3>6 DEF SameNc
    <3>8. Views(t, m') BY Zenon, <3>6, <3>7 DEF Views, Nc
    <3>9. QED BY Zenon, <3>3, <3>5, <3>7, <3>8 DEF Reads
  <2>3. QED BY Zenon, <1>7, <2>1, <2>2
<1>10. \A e \in Client : TalkAt(m', sock', turn', e) BY SMT, <1>6, <1>8, <1>9, ViewSame
<1>11. sock' \in Socks BY SMT, <1>0, <1>1 DEF Socks
<1>12. todo = NULL /\ x \in ready /\ ready' = ready \ {x} /\ todo' = (IF ready' = {} THEN m'.list ELSE NULL)
  BY Zenon, <1>1
<1>13. QED BY Zenon, <1>4, <1>6, <1>9, <1>10, <1>11, <1>12, HandleEnds


-----------------------------------------------------------------------------
(* The list walk                                                           *)

\* What the clients see of a close.
LEMMA EndSeen ==
    ASSUME NEW s \in Mem, NEW D, NEW x \in Nc, NEW k, NEW h, NEW w \in Turns, NEW v, NEW t,
           Good(s, D, NULL), x \in Client => s.nc[x].st = "open", h[x].data = "no",
           \A e \in Client \ {x} : h[e].data = k[e].data, \A e \in Client : TalkAt(s, k, w, e),
           Ends(s, t, x), Watch(s, t, w, v)
    PROVE  \A e \in Client : TalkAt(t, h, v, e)
<1>0. SUFFICES ASSUME NEW e \in Client PROVE TalkAt(t, h, v, e) BY Zenon
<1>1. TalkAt(s, k, w, e) BY Zenon
<1>2. ASSUME e # x, Goes(s, t, e) PROVE TalkAt(t, h, v, e)
  <2>1. h[e].data = k[e].data BY Zenon, <1>2
  <2>2. QED BY SMT, <1>1, <1>2, <2>1, GoesOn
<1>3. CASE x \in Client /\ Keep(s, t, x) /\ t.nc[x] = NoNc /\ t.told[x] \in {s.told[x], "close"}
  <2>1. CASE e # x
    <3>1. Goes(s, t, e) BY Zenon, <1>3, <2>1 DEF Keep, Goes
    <3>2. QED BY Zenon, <1>2, <2>1, <3>1
  <2>2. CASE e = x
    <3>n. PICK n : n = s.nc[e] BY Zenon
    <3>r. PICK r : r = t.nc[e] BY Zenon
    <3>o. PICK o : o = s.told[e] BY Zenon
    <3>p. PICK p : p = t.told[e] BY Zenon
    <3>1. Talks(n, s.conn[e], o, k[e].data, w[e]) BY Zenon, <1>1, <3>n, <3>o DEF TalkAt
    <3>2. NoNc.st = "free" BY SMT DEF NoNc
    <3>3. n.st = "open" /\ r.st = "free" /\ p \in {o, "close"} BY Zenon, <1>3, <2>2, <3>2, <3>n, <3>r, <3>o, <3>p
    <3>4. w[e] \in {"talk", "wait", "done"} BY SMT DEF Turns
    <3>5. Talks(r, t.conn[e], p, "no", Sees(w[e], p, n.st, r.st)) BY SMT, <3>1, <3>3, <3>4, TalkEnds
    <3>6. v[e] = Sees(w[e], p, n.st, r.st) BY Zenon, <3>n, <3>r, <3>p DEF Watch
    <3>7. QED BY Zenon, <2>2, <3>5, <3>6, <3>r, <3>p DEF TalkAt
  <2>3. QED BY Zenon, <2>1, <2>2
<1>4. ASSUME x \in Back PROVE e # x BY Zenon, <1>4, LBAssumption
<1>5. CASE x \in Back /\ Keep(s, t, NULL)
  <2>1. e # NULL BY Zenon, LBAssumption
  <2>2. Goes(s, t, e) BY Zenon, <1>5, <2>1 DEF Keep, Goes
  <2>3. QED BY Zenon, <1>2, <1>4, <1>5, <2>2
<1>6. ASSUME x \in Back, NEW c \in Client, Serves(s, x, c), Keep(s, t, c),
             (s.conn[c].client /\ Relieved(s, t, c)) \/ Lost(s, t, c)
      PROVE  TalkAt(t, h, v, e)
  <2>1. CASE e = c
    <3>1. Goes(s, t, e) BY Zenon, <1>6, <2>1 DEF Goes
    <3>2. QED BY Zenon, <1>2, <1>4, <1>6, <3>1
  <2>2. CASE e # c
    <3>1. Goes(s, t, e) BY Zenon, <1>6, <2>2 DEF Keep, Goes
    <3>2. QED BY Zenon, <1>2, <1>4, <1>6, <3>1
  <2>3. QED BY Zenon, <2>1, <2>2
<1>7. QED BY Zenon, <1>3, <1>5, <1>6 DEF Ends

\* The rest of the list, and what stays to be visited in it.
LEMMA Onwards ==
    ASSUME NEW l \in Lists, NEW i \in 1 .. Len(l), NEW b \in Range1(l), b # l[i],
           \A j \in 1 .. i - 1 : l[j] # b
    PROVE  SubSeq(l, i + 1, Len(l)) \in Lists /\ b \in Range1(SubSeq(l, i + 1, Len(l)))
<1>q. PICK q : q = SubSeq(l, i + 1, Len(l)) BY Zenon
<1>1. l \in Seq(Nc) /\ Len(l) \in Nat BY SMT DEF Lists
<1>2. q \in Seq(Nc) /\ Len(q) = Len(l) - i /\ \A j \in 1 .. Len(l) - i : q[j] = l[i + j] BY SMT, <1>1, <1>q
<1>3. PICK j \in 1 .. Len(l) : b = l[j] BY Zenon DEF Range1
<1>4. j > i
  <2>1. j # i BY Zenon, <1>3
  <2>2. j \notin 1 .. i - 1 BY Zenon, <1>3
  <2>3. QED BY SMT, <2>1, <2>2
<1>5. j - i \in 1 .. Len(l) - i /\ i + (j - i) = j BY SMT, <1>4
<1>6. q[j - i] = b /\ j - i \in 1 .. Len(q) BY Zenon, <1>2, <1>3, <1>5
<1>7. b \in Range1(q) BY Zenon, <1>6 DEF Range1
<1>8. QED BY Zenon, <1>2, <1>7, <1>q DEF Lists

\* The rest of the list is a list.
LEMMA RestList ==
    ASSUME NEW l \in Lists, NEW i \in 1 .. Len(l)
    PROVE  l[i] \in Nc /\ SubSeq(l, i + 1, Len(l)) \in Lists
<1>1. l \in Seq(Nc) /\ Len(l) \in Nat BY SMT DEF Lists
<1>2. l[i] \in Nc BY SMT, <1>1
<1>3. SubSeq(l, i + 1, Len(l)) \in Seq(Nc) BY SMT, <1>1
<1>4. QED BY Zenon, <1>2, <1>3 DEF Lists

\* The step of the walk that takes x = todo[i].
Visits(i, x) ==
    /\ x = todo[i] /\ m.nc[x].flags # {} /\ \A j \in 1 .. i - 1 : m.nc[todo[j]].flags = {}
    /\ \/ m' \in close(m, x) /\ sock' = IF m'.crashed THEN sock ELSE [sock EXCEPT ![x] = NoSock]
       \/ "CLOSE_IMMEDIATELY" \notin m.nc[x].flags /\ UNCHANGED <<m, sock>>
    /\ todo' = SubSeq(todo, i + 1, Len(todo))

\* The failed connections other than x are still ahead.
LEMMA StillAhead ==
    ASSUME Typed, todo # NULL, NEW i \in 1 .. Len(todo), NEW x, Visits(i, x), NEW D \in SUBSET Back,
           Good(m, D, NULL), NEW b \in D, b # x, Doomed(b)
    PROVE  Doomed(b)'
<1>1. todo \in Lists /\ b \in Range1(todo) BY Zenon DEF Typed, Doomed
<1>2. b \in Back \ {NULL} BY Zenon, LBAssumption
<1>3. Failed(m, b) BY Zenon, <1>2 DEF Good, Sane, Backs
<1>4. m.nc[b].flags # {} BY Zenon, <1>3 DEF Failed
<1>5. \A j \in 1 .. i - 1 : todo[j] # b BY Zenon, <1>4 DEF Visits
<1>6. b # todo[i] /\ todo' = SubSeq(todo, i + 1, Len(todo)) BY Zenon DEF Visits
<1>7. todo' \in Lists /\ b \in Range1(todo') BY Zenon, <1>1, <1>5, <1>6, Onwards
<1>8. todo' # NULL BY Zenon, <1>7, NotList
<1>9. QED BY Zenon, <1>7, <1>8 DEF Doomed

\* The memory and the clients after it.
LEMMA VisitGood ==
    ASSUME Typed, Talking, ~m.crashed, todo # NULL, NEW i \in 1 .. Len(todo), NEW x \in Nc, Visits(i, x), watch,
           NEW D \in SUBSET Back, Good(m, D, NULL)
    PROVE  /\ sock' \in Socks /\ \A e \in Client : TalkAt(m', sock', turn', e)
           /\ Good(m', D \ {x}, NULL) \/ (Good(m', D, NULL) /\ x \notin D)
<1>0. m \in Mem /\ sock \in Socks /\ turn \in Turns /\ \A e \in Client : TalkAt(m, sock, turn, e)
  BY Zenon DEF Typed, Talking
<1>n. x # NULL /\ \A e \in Client : e \in Nc BY Zenon, LBAssumption DEF Nc
<1>1. Watch(m, m', turn, turn') BY Zenon, <1>0, WatchIs
<1>2. m.nc[x].flags # {} BY Zenon DEF Visits
<1>3. ASSUME m'.nc = m.nc, m'.conn = m.conn, m'.told = m.told, sock' = sock
      PROVE  sock' \in Socks /\ \A e \in Client : TalkAt(m', sock', turn', e)
  <2>1. ASSUME NEW e \in Client PROVE TalkAt(m', sock', turn', e)
    <3>1. Goes(m, m', e) BY Zenon, <1>3 DEF Goes
    <3>2. TalkAt(m, sock, turn, e) /\ sock'[e].data = sock[e].data BY Zenon, <1>0, <1>3
    <3>3. QED BY SMT, <1>0, <1>1, <3>1, <3>2, GoesOn
  <2>2. QED BY Zenon, <1>0, <1>3, <2>1
<1>4. CASE "CLOSE_IMMEDIATELY" \notin m.nc[x].flags /\ UNCHANGED <<m, sock>>
  <2>1. m' = m /\ sock' = sock BY Zenon, <1>4
  <2>2. x \notin D
    <3>1. SUFFICES ASSUME x \in D PROVE FALSE BY Zenon
    <3>2. x \in Back \ {NULL} BY Zenon, <1>n, <3>1
    <3>3. Failed(m, x) BY Zenon, <3>1, <3>2 DEF Good, Sane, Backs
    <3>4. QED BY Zenon, <1>4, <3>3 DEF Failed
  <2>3. sock' \in Socks /\ \A e \in Client : TalkAt(m', sock', turn', e) BY Zenon, <1>3, <2>1
  <2>4. QED BY Zenon, <2>1, <2>2, <2>3
<1>5. ASSUME ~m'.crashed, Ends(m, m', x), sock' = IF m'.crashed THEN sock ELSE [sock EXCEPT ![x] = NoSock],
             x \in Client => m.nc[x].st = "open"
      PROVE  sock' \in Socks /\ \A e \in Client : TalkAt(m', sock', turn', e)
  <2>1. sock' = [sock EXCEPT ![x] = NoSock] BY Zenon, <1>5
  <2>2. NoSock.data = "no" /\ NoSock \in [data : {"no", "part", "whole"}, fin : BOOLEAN, syn : {"pending", "ok", "err"}]
    BY SMT DEF NoSock
  <2>3. sock' \in Socks /\ sock'[x].data = "no" /\ \A y \in Nc \ {x} : sock'[y] = sock[y]
    BY SMT, <1>0, <2>1, <2>2 DEF Socks
  <2>4. \A e \in Client \ {x} : sock'[e].data = sock[e].data BY Zenon, <1>n, <2>3
  <2>5. \A e \in Client : TalkAt(m', sock', turn', e) BY Zenon, <1>0, <1>1, <1>5, <2>3, <2>4, EndSeen
  <2>6. QED BY Zenon, <2>3, <2>5
<1>6. CASE m' \in close(m, x) /\ sock' = IF m'.crashed THEN sock ELSE [sock EXCEPT ![x] = NoSock]
  <2>1. CASE x \in Client
    <3>1. Clients(m, D, x) BY Zenon, <1>n, <2>1 DEF Good, Sane
    <3>2. m.nc[x].st = "open"
      <4>1. NoNc.flags = {} BY SMT DEF NoNc
      <4>2. QED BY Zenon, <1>2, <3>1, <4>1 DEF Clients
    <3>3. TalkAt(m, sock, turn, x) BY Zenon, <1>0, <2>1
    <3>4. m.nc[x].part => m.conn[x].be_conn = NULL BY Zenon, <3>2, <3>3 DEF TalkAt, Talks
    <3>5. Good(m', D \ {x}, NULL) /\ Ends(m, m', x) /\ ~m'.crashed
      BY Zenon, <1>0, <1>2, <1>6, <2>1, <3>4, ClientEnds
    <3>6. QED BY Zenon, <1>5, <1>6, <3>2, <3>5
  <2>2. CASE x \in Back
    <3>0. x \notin Client BY Zenon, <2>2, LBAssumption
    <3>1. (Crash(m, m') /\ Good(m', D, NULL)) \/ (Good(m', D \ {x}, NULL) /\ Ends(m, m', x) /\ ~m'.crashed)
      BY Zenon, <1>0, <1>2, <1>6, <2>2, BackEnds
    <3>2. CASE Good(m', D \ {x}, NULL) /\ Ends(m, m', x) /\ ~m'.crashed BY Zenon, <1>5, <1>6, <3>0, <3>2
    <3>3. CASE Crash(m, m') /\ Good(m', D, NULL)
      <4>1. m'.nc = m.nc /\ m'.conn = m.conn /\ m'.told = m.told /\ m'.crashed BY Zenon, <3>3 DEF Crash
      <4>2. sock' \in Socks /\ \A e \in Client : TalkAt(m', sock', turn', e) BY Zenon, <1>3, <1>6, <4>1
      <4>3. x \notin D
        <5>1. SUFFICES ASSUME x \in D PROVE FALSE BY Zenon
        <5>2. x \in Back \ {NULL} BY Zenon, <1>n, <2>2
        <5>3. Failed(m, x) BY Zenon, <5>1, <5>2 DEF Good, Sane, Backs
        <5>4. m.nc[x].st = "connecting" BY Zenon, <5>3 DEF Failed
        <5>5. m' = destroy(m, x) BY Zenon, <1>6, <5>4 DEF close
        <5>6. m'.crashed = m.crashed BY Zenon, <1>0, <1>2, <2>2, <5>4, <5>5, ConnectingEnds
        <5>7. QED BY Zenon, <4>1, <5>6
      <4>4. QED BY Zenon, <3>3, <4>2, <4>3
    <3>4. QED BY Zenon, <3>1, <3>2, <3>3
  <2>3. QED BY Zenon, <2>1, <2>2 DEF Nc
<1>7. QED BY Zenon, <1>4, <1>6 DEF Visits

\* A step of the walk.
LEMMA SweepKeeps ==
    ASSUME IInv, sweep
    PROVE  IInv'
<1>0. Typed /\ Walks /\ Sound /\ Talking /\ turn \in Turns /\ ready' = ready /\ watch /\ todo # NULL /\ ~m.crashed
  BY Zenon DEF IInv, Typed, sweep, running
<1>1. PICK i \in 1 .. Len(todo) : Visits(i, todo[i]) BY Zenon DEF sweep, Visits
<1>x. PICK x : x = todo[i] BY Zenon
<1>2. todo \in Lists /\ Visits(i, x) BY Zenon, <1>0, <1>1, <1>x DEF Typed
<1>3. x \in Nc /\ todo' \in Lists BY Zenon, <1>2, <1>x, RestList DEF Visits
<1>4. PICK D \in SUBSET Back : Good(m, D, NULL) /\ \A b \in D : Doomed(b) BY Zenon, <1>0 DEF Sound
<1>5. /\ sock' \in Socks /\ \A e \in Client : TalkAt(m', sock', turn', e)
      /\ Good(m', D \ {x}, NULL) \/ (Good(m', D, NULL) /\ x \notin D)
  BY Zenon, <1>0, <1>2, <1>3, <1>4, VisitGood
<1>6. turn' \in Turns BY Zenon, <1>0, WatchIs
<1>7. ready = {} /\ m' \in Mem BY Zenon, <1>0, <1>5 DEF Walks, Good
<1>8. Typed' BY Zenon, <1>0, <1>3, <1>5, <1>6, <1>7 DEF Typed
<1>9. Walks' BY Zenon, <1>0, <1>7 DEF Walks
<1>10. \A b \in D \ {x} : Doomed(b)' BY Zenon, <1>0, <1>2, <1>4, StillAhead
<1>11. Sound'
  <2>1. CASE Good(m', D \ {x}, NULL) BY Zenon, <1>10, <2>1 DEF Sound
  <2>2. CASE Good(m', D, NULL) /\ x \notin D BY Zenon, <1>10, <2>2 DEF Sound
  <2>3. QED BY Zenon, <1>5, <2>1, <2>2
<1>12. Talking' BY Zenon, <1>5 DEF Talking
<1>13. QED BY Zenon, <1>8, <1>9, <1>11, <1>12 DEF IInv


-----------------------------------------------------------------------------
(* The theorems                                                            *)

\* Every step keeps the invariant.
LEMMA NextKeeps ==
    ASSUME IInv, [Next]_vars
    PROVE  IInv'
<1>1. CASE UNCHANGED vars
  <2>1. m' = m /\ sock' = sock /\ turn' = turn /\ ready' = ready /\ todo' = todo BY SMT, <1>1 DEF vars
  <2>2. Typed /\ Walks /\ Sound /\ Talking BY Zenon DEF IInv
  <2>3. Typed' BY Zenon, <2>1, <2>2 DEF Typed
  <2>4. Walks' BY Zenon, <2>1, <2>2 DEF Walks
  <2>5. Sound' BY Zenon, <2>1, <2>2 DEF Sound, Doomed
  <2>6. Talking' BY Zenon, <2>1, <2>2 DEF Talking
  <2>7. QED BY Zenon, <2>3, <2>4, <2>5, <2>6 DEF IInv
<1>2. CASE poll BY Zenon, <1>2, PollKeeps
<1>3. CASE sweep BY Zenon, <1>3, SweepKeeps
<1>4. CASE sweep_done BY Zenon, <1>4, DoneKeeps
<1>5. ASSUME NEW c \in Client, accept(c) PROVE IInv' BY Zenon, <1>5, AcceptKeeps
<1>6. ASSUME NEW c \in Client, client_asks(c) PROVE IInv' BY Zenon, <1>6, AskKeeps
<1>7. ASSUME NEW b \in Back, idle_timeout(b) PROVE IInv' BY Zenon, <1>7, IdleKeeps
<1>8. ASSUME NEW b \in Back, backend_answers(b) PROVE IInv' BY Zenon, <1>8, AnswerKeeps
<1>9. ASSUME NEW b \in Back, connect_finishes(b) PROVE IInv' BY Zenon, <1>9, FinishKeeps
<1>10. ASSUME NEW x \in Nc, handle(x) PROVE IInv'
  <2>1. CASE m.nc[x].st = "connecting" BY Zenon, <1>10, <2>1, ConnectKeeps
  <2>2. CASE m.nc[x].st # "connecting" BY Zenon, <1>10, <2>2, EventKeeps
  <2>3. QED BY Zenon, <2>1, <2>2
<1>11. ASSUME NEW x \in Nc, completes(x) PROVE IInv' BY Zenon, <1>11, CompletesKeeps
<1>12. ASSUME NEW x \in Nc, peer_closes(x) PROVE IInv' BY Zenon, <1>12, PeerKeeps
<1>13. QED
  BY Zenon, <1>1, <1>2, <1>3, <1>4, <1>5, <1>6, <1>7, <1>8, <1>9, <1>10, <1>11, <1>12 DEF Next

\* The invariant always holds.
THEOREM BalancerInvariance == Spec => []IInv
<1>1. Init => IInv BY Starts
<1>2. IInv /\ [Next]_vars => IInv' BY NextKeeps
<1>3. QED BY PTL, <1>1, <1>2 DEF Spec

\* What the invariant says of every connection.
LEMMA EachOne ==
    ASSUME IInv
    PROVE  \E D : Good(m, D, NULL) /\ (\A b \in Back : Backs(m, D, b)) /\ \A c \in Client : Clients(m, D, c)
<1>1. PICK D \in SUBSET Back : Good(m, D, NULL) BY Zenon DEF IInv, Sound
<1>2. (\A b \in Back : b \in Back \ {NULL}) /\ \A c \in Client : c \in Client \ {NULL} BY Zenon, LBAssumption
<1>3. QED BY Zenon, <1>1, <1>2 DEF Good, Sane

\* The pool of release_backend() and idle_backend_handler() holds exactly the
\* idle connections, each once, and num_conns bounds their number and stays
\* within MAX_IDLE_CONNS.
THEOREM PoolStaysSound == Spec => []PoolSound
<1>1. IInv => PoolSound
  <2>1. SUFFICES ASSUME IInv PROVE PoolSound BY Zenon
  <2>2. PICK D : Good(m, D, NULL) BY Zenon, <2>1, EachOne
  <2>3. /\ m \in Mem /\ Pool(m) /\ m.num_conns <= MaxIdle /\ turn \in Turns
    BY Zenon, <2>1, <2>2 DEF Good, Sane, IInv, Typed
  <2>4. TypeOK
    <3>1. /\ m.nc \in Ncs /\ m.conn \in Conns /\ m.bec \in Becs /\ m.num_conns \in Int /\ m.pool \in Pools
      BY Zenon, <2>3 DEF Mem
    <3>2. m.num_conns \in 0 .. MaxIdle
      <4>1. Len(m.pool) \in Nat BY SMT, <3>1 DEF Pools
      <4>2. Len(m.pool) <= m.num_conns BY Zenon, <2>3 DEF Pool
      <4>3. QED BY SMT, <2>3, <3>1, <4>1, <4>2, LBAssumption
    <3>3. m.nc \in [Nc -> [st : {"free", "connecting", "open"}, handler : {"ev", "idle"}, part : BOOLEAN,
                           flags : SUBSET {"CLOSE_IMMEDIATELY", "SEND_AND_CLOSE"}, ud : Client \cup {NULL}]]
      BY SMT, <3>1 DEF Ncs, NcType, Flag
    <3>4. m.conn \in [Client -> [mem : BOOLEAN, client : BOOLEAN, backend : Back \cup {NULL}, body_len : {-1, 0},
                                 be_conn : Back \cup {NULL}, keep_alive : BOOLEAN, headers : BOOLEAN]]
      BY SMT, <3>1 DEF Conns, ConnType
    <3>5. QED BY Zenon, <2>3, <3>1, <3>2, <3>3, <3>4 DEF TypeOK, Becs, BecType, Turns
  <2>5. QED BY Zenon, <2>3, <2>4 DEF PoolSound, Pool, InPool, Distinct
<1>2. QED BY PTL, <1>1, BalancerInvariance

\* A reply goes to the client whose request was sent on the connection, whatever
\* becomes of the connection, of the client and of the pool in between.
THEOREM RepliesToAsker == Spec => []ReplyToAsker
<1>1. IInv => ReplyToAsker
  <2>1. SUFFICES ASSUME IInv, NEW b \in Back, m.owed[b] # NULL
                 PROVE  m.nc[b].handler = "ev" /\ m.nc[b].ud = m.owed[b]
    BY Zenon DEF ReplyToAsker
  <2>2. PICK D : Backs(m, D, b) BY Zenon, <2>1, EachOne
  <2>3. QED BY Zenon, <2>1, <2>2 DEF Backs, Failed, Rests, Serves
<1>2. QED BY PTL, <1>1, BalancerInvariance

\* conn_data and the backend connection it names belong together until one of
\* them goes, and the assertions of ev_handler() hold.
THEOREM BackendIsOwn == Spec => []OwnBackend
<1>1. IInv => OwnBackend
  <2>1. SUFFICES ASSUME IInv PROVE OwnBackend BY Zenon
  <2>2. PICK D : (\A b \in Back : Backs(m, D, b)) /\ \A c \in Client : Clients(m, D, c) BY Zenon, <2>1, EachOne
  <2>3. ASSUME NEW c \in Client, m.conn[c].client, m.conn[c].backend # NULL
        PROVE  LET b == m.conn[c].backend IN m.nc[b].st # "free" /\ m.nc[b].ud = c /\ m.conn[c].be_conn = b
    <3>b. PICK b : b = m.conn[c].backend BY Zenon
    <3>1. b \notin D /\ m.nc[b].st # "free" /\ m.nc[b].handler = "ev" /\ m.nc[b].ud = c
      BY Zenon, <2>2, <2>3, <3>b DEF Clients
    <3>2. m \in Mem BY Zenon, <2>1 DEF IInv, Typed
    <3>3. m.conn[c] \in ConnType BY Zenon, <3>2, Entries
    <3>4. b \in Back BY Zenon, <2>3, <3>3, <3>b DEF ConnType
    <3>5. PICK e \in Client : Serves(m, b, e) BY Zenon, <2>2, <3>1, <3>4 DEF Backs, Rests
    <3>6. m.conn[c].be_conn = b BY Zenon, <3>1, <3>5 DEF Serves
    <3>7. QED BY Zenon, <3>b, <3>1, <3>6
  <2>4. ASSUME NEW b \in Back, m.nc[b].st = "open", m.nc[b].handler = "ev" PROVE m.conn[m.nc[b].ud].mem
    BY Zenon, <2>2, <2>4 DEF Backs, Failed, Rests, Serves
  <2>5. ASSUME NEW c \in Client, m.nc[c].st = "open", turn[c] = "talk" PROVE m.conn[c].be_conn = NULL
    BY Zenon, <2>1, <2>5 DEF IInv, Talking, TalkAt, Talks
  <2>6. ASSUME NEW b \in Back, m.nc[b].st = "connecting", m.nc[b].flags = {} PROVE m.conn[m.nc[b].ud].be_conn = b
    BY Zenon, <2>2, <2>6 DEF Backs, Failed, Rests, Serves
  <2>7. QED BY Zenon, <2>3, <2>4, <2>5, <2>6 DEF OwnBackend
<1>2. QED BY PTL, <1>1, BalancerInvariance

\* A client whose first request was handed on, and that was told nothing, has a
\* backend connection that owes it the answer.
THEOREM WaitsOnAnswer == Spec => []WaitsForSomething
<1>1. IInv => WaitsForSomething
  <2>1. SUFFICES ASSUME IInv, NEW c \in Client, m.nc[c].st = "open", turn[c] = "wait", m.conn[c].body_len < 0,
                        m.conn[c].be_conn # NULL
                 PROVE  LET b == m.conn[c].backend IN b # NULL /\ m.nc[b].st # "free" /\ m.owed[b] = c
    BY Zenon DEF WaitsForSomething
  <2>2. PICK D : (\A b \in Back : Backs(m, D, b)) /\ \A d \in Client : Clients(m, D, d) BY Zenon, <2>1, EachOne
  <2>b. PICK b : b = m.conn[c].backend BY Zenon
  <2>3. TalkAt(m, sock, turn, c) BY Zenon, <2>1 DEF IInv, Talking
  <2>4. b # NULL
    <3>1. m.conn[c].body_len # 0 BY SMT, <2>1
    <3>2. QED BY Zenon, <2>1, <2>3, <2>b, <3>1 DEF TalkAt, Talks
  <2>5. b \notin D /\ m.nc[b].st # "free" /\ m.nc[b].handler = "ev" /\ m.nc[b].ud = c
    BY Zenon, <2>1, <2>2, <2>4, <2>b DEF Clients
  <2>6. m \in Mem BY Zenon, <2>1 DEF IInv, Typed
  <2>7. m.conn[c] \in ConnType BY Zenon, <2>6, Entries
  <2>8. b \in Back BY Zenon, <2>4, <2>7, <2>b DEF ConnType
  <2>9. m.owed[b] = c BY Zenon, <2>2, <2>5, <2>8 DEF Backs, Rests, Serves
  <2>10. QED BY Zenon, <2>b, <2>4, <2>5, <2>9
<1>2. QED BY PTL, <1>1, BalancerInvariance

=============================================================================
