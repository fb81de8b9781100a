-------------------------- MODULE BroadcastProofs ---------------------------
(***************************************************************************)
(* The walk over the list of connections that runs the callback of a       *)
(* broadcast, while callbacks open connections.                            *)
(***************************************************************************)
EXTENDS Broadcast, SequenceTheorems, FiniteSetTheorems, TLAPS

\* The connections opened during the walk are the first k of the list; the
\* callback has been run on the next ones, in order, and the walk stands
\* behind them.
Behind(k) ==
    /\ k + Len(seen) <= Len(list)
    /\ \A i \in 1 .. Len(seen) : seen[i] = list[k + i]
    /\ at = IF k + Len(seen) = Len(list) THEN None ELSE list[k + Len(seen) + 1]
    /\ due = {list[i] : i \in k + 1 .. Len(list)}

Distinct(s) == \A i, j \in DOMAIN s : s[i] = s[j] => i = j

Walk ==
    /\ Distinct(list) /\ Distinct(seen)
    /\ io = "call" => \E k \in Nat : Behind(k)

-----------------------------------------------------------------------------
(* The list *)

\* A callback or a handler adds at most one connection, d of them, in front.
LEMMA Opened ==
    ASSUME NEW s \in Seq(Conn), NEW l \in opened(s)
    PROVE  /\ l \in Seq(Conn)
           /\ \E d \in {0, 1} : Len(l) = Len(s) + d /\ \A i \in 1 .. Len(s) : l[i + d] = s[i]
           /\ Distinct(s) => Distinct(l)
<1>1. CASE l = s
  BY <1>1
<1>2. ASSUME NEW c \in Conn \ ToSet(s), l = <<c>> \o s
      PROVE  /\ l \in Seq(Conn)
             /\ Len(l) = Len(s) + 1 /\ \A i \in 1 .. Len(s) : l[i + 1] = s[i]
             /\ Distinct(s) => Distinct(l)
  <2>1. l \in Seq(Conn) /\ Len(l) = Len(s) + 1
    BY <1>2
  <2>2. l[1] = c /\ \A i \in 1 .. Len(s) : l[i + 1] = s[i]
    BY <1>2
  <2>3. \A i \in 1 .. Len(s) : s[i] # c
    BY DEF ToSet
  <2>4. \A j \in 2 .. Len(l) : l[j] = s[j - 1] /\ l[j] # l[1] /\ j - 1 \in 1 .. Len(s)
    <3> SUFFICES ASSUME NEW j \in 2 .. Len(l) PROVE l[j] = s[j - 1] /\ l[j] # l[1] /\ j - 1 \in 1 .. Len(s)
      OBVIOUS
    <3>1. j - 1 \in 1 .. Len(s) /\ (j - 1) + 1 = j
      BY <2>1
    <3>2. QED
      BY <3>1, <2>2, <2>3
  <2>5. Distinct(s) => Distinct(l)
    <3> SUFFICES ASSUME Distinct(s), NEW i \in DOMAIN l, NEW j \in DOMAIN l, l[i] = l[j] PROVE i = j
      BY DEF Distinct
    <3>1. DOMAIN l = 1 .. Len(l) /\ DOMAIN s = 1 .. Len(s)
      BY <2>1
    <3>2. CASE i = 1 \/ j = 1
      BY <3>1, <3>2, <2>4
    <3>3. CASE i # 1 /\ j # 1
      <4>1. i \in 2 .. Len(l) /\ j \in 2 .. Len(l)
        BY <3>1, <3>3, <2>1
      <4>2. i - 1 = j - 1
        BY Zenon, <4>1, <2>4, <3>1 DEF Distinct
      <4>3. QED
        BY <4>1, <4>2
    <3>4. QED
      BY Zenon, <3>2, <3>3
  <2>6. QED
    BY Zenon, <2>1, <2>2, <2>5
<1>3. QED
  BY Zenon, <1>1, <1>2 DEF opened

\* ns_remove_conn() takes one connection out.
LEMMA Removed ==
    ASSUME NEW s \in Seq(Conn), NEW n \in DOMAIN s
    PROVE  RemoveAt(s, n) \in Seq(Conn) /\ (Distinct(s) => Distinct(RemoveAt(s, n)))
<1> DEFINE a == SubSeq(s, 1, n - 1)
           b == SubSeq(s, n + 1, Len(s))
           from(i) == IF i < n THEN i ELSE i + 1
<1>1. n \in 1 .. Len(s) /\ DOMAIN s = 1 .. Len(s) /\ Len(s) \in Nat
  OBVIOUS
<1>2. a \in Seq(Conn) /\ Len(a) = n - 1 /\ \A i \in 1 .. n - 1 : a[i] = s[i]
  BY <1>1
<1>3. b \in Seq(Conn) /\ Len(b) = Len(s) - n /\ \A i \in 1 .. Len(s) - n : b[i] = s[n + i]
  BY SMTT(20), <1>1
<1>4. RemoveAt(s, n) = a \o b
  BY DEF RemoveAt
<1> HIDE DEF a, b
<1>5. a \o b \in Seq(Conn) /\ Len(a \o b) = Len(s) - 1 /\ DOMAIN (a \o b) = 1 .. Len(s) - 1
  <2>1. a \o b \in Seq(Conn) /\ Len(a \o b) = Len(a) + Len(b)
    BY Zenon, <1>2, <1>3, ConcatProperties
  <2>2. Len(a) + Len(b) = Len(s) - 1
    BY <1>1, <1>2, <1>3
  <2>3. QED
    BY <2>1, <2>2, LenProperties
<1>6. \A i \in 1 .. Len(s) - 1 : (a \o b)[i] = s[from(i)] /\ from(i) \in DOMAIN s
  <2> SUFFICES ASSUME NEW i \in 1 .. Len(s) - 1 PROVE (a \o b)[i] = s[from(i)] /\ from(i) \in DOMAIN s
    BY Zenon
  <2>1. CASE i < n
    BY <2>1, <1>1, <1>2, <1>3
  <2>2. CASE ~(i < n)
    <3>1. (a \o b)[i] = b[i - (n - 1)]
      BY <2>2, <1>1, <1>2, <1>3
    <3>2. i - (n - 1) \in 1 .. Len(s) - n /\ n + (i - (n - 1)) = i + 1
      BY <2>2, <1>1
    <3>3. b[i - (n - 1)] = s[i + 1]
      BY Zenon, <3>2, <1>3
    <3>4. QED
      BY <3>1, <3>3, <2>2, <1>1
  <2>3. QED
    BY Zenon, <2>1, <2>2
<1>7. ASSUME Distinct(s), NEW i \in 1 .. Len(s) - 1, NEW j \in 1 .. Len(s) - 1, (a \o b)[i] = (a \o b)[j]
      PROVE  i = j
  <2>1. from(i) = from(j)
    BY Zenon, <1>6, <1>7 DEF Distinct
  <2>2. QED
    BY <2>1, <1>1
<1>8. QED
  BY Zenon, <1>4, <1>5, <1>7 DEF Distinct

-----------------------------------------------------------------------------
(* The walk *)

LEMMA WalkStep == TypeOK /\ TypeOK' /\ Walk /\ [Next]_vars => Walk'
<1> USE BroadcastAssumption
<1> SUFFICES ASSUME TypeOK, TypeOK', Walk, [Next]_vars PROVE Walk'
  OBVIOUS
<1>1. CASE UNCHANGED <<io, at, list, seen, due>>
  <2>1. ASSUME NEW k \in Nat, Behind(k) PROVE Behind(k)'
    BY Zenon, <1>1, <2>1 DEF Behind
  <2>2. Distinct(list') /\ Distinct(seen')
    BY Zenon, <1>1 DEF Walk, Distinct
  <2>3. QED
    BY Zenon, <1>1, <2>1, <2>2 DEF Walk
<1>2. CASE recv_msg \/ call_done
  BY <1>2 DEF recv_msg, call_done, Walk, Distinct
<1>3. CASE ack
  <2>1. seen' = <<>> /\ list' = list /\ due' = ToSet(list) /\ at' = IF list = <<>> THEN None ELSE Head(list)
    BY Zenon, <1>3 DEF ack
  <2>2. due' = {list[i] : i \in 0 + 1 .. Len(list)}
    BY <2>1 DEF ToSet, TypeOK
  <2>3. at' = IF Len(list) = 0 THEN None ELSE list[1]
    BY <2>1 DEF TypeOK
  <2>4. Behind(0)'
    BY <2>1, <2>2, <2>3 DEF Behind, TypeOK
  <2>5. Distinct(list') /\ Distinct(seen')
    BY <2>1 DEF Walk, Distinct
  <2>6. QED
    BY Zenon, <2>4, <2>5 DEF Walk
<1>4. CASE call
  <2>1. PICK k \in Nat : Behind(k)
    BY Zenon, <1>4 DEF call, Walk
  <2>2. PICK d \in {0, 1} : Len(list') = Len(list) + d /\ \A i \in 1 .. Len(list) : list'[i + d] = list[i]
    BY Zenon, <1>4, Opened DEF TypeOK, call
  <2>3. Distinct(list')
    BY Zenon, <1>4, Opened DEF TypeOK, call, Walk
  <2> DEFINE n == Len(seen)
             l == Len(list)
  <2>4. n \in Nat /\ l \in Nat /\ k + n + 1 \in 1 .. l /\ at = list[k + n + 1]
    BY <1>4, <2>1 DEF Behind, call, TypeOK
  <2>5. DOMAIN list' = 1 .. l + d /\ Len(list') = l + d /\ d \in Nat
    BY <2>2, <2>4 DEF TypeOK
  <2>6. Len(seen') = n + 1 /\ seen'[n + 1] = at /\ \A i \in 1 .. n : seen'[i] = seen[i]
    BY <1>4, <2>4 DEF call, TypeOK
  <2>7. list'[k + n + 1 + d] = at /\ k + n + 1 + d \in DOMAIN list'
    BY <2>2, <2>4, <2>5
  <2>8. (CHOOSE i \in DOMAIN list' : list'[i] = at) = k + n + 1 + d
    BY Zenon, <2>3, <2>7 DEF Distinct
  <2>9. at' = IF k + n + 1 + d = l + d THEN None ELSE list'[k + n + 1 + d + 1]
    <3> DEFINE i == CHOOSE i \in DOMAIN list' : list'[i] = at
    <3>1. at' = IF i = Len(list') THEN None ELSE list'[i + 1]
      BY Zenon, <1>4 DEF call, successor
    <3>2. i = k + n + 1 + d
      BY Zenon, <2>8
    <3> HIDE DEF i
    <3>3. QED
      BY Zenon, <3>1, <3>2, <2>5
  <2>10. \A i \in 1 .. n + 1 : seen'[i] = list'[k + d + i]
    <3> SUFFICES ASSUME NEW i \in 1 .. n + 1 PROVE seen'[i] = list'[k + d + i]
      OBVIOUS
    <3>1. k + i \in 1 .. l /\ (k + i) + d = k + d + i
      BY <2>4, <2>5
    <3>2. list'[k + d + i] = list[k + i]
      BY Zenon, <3>1, <2>2
    <3>3. CASE i = n + 1
      BY SMTT(20), <3>2, <3>3, <2>4, <2>6
    <3>4. CASE i # n + 1
      <4>1. i \in 1 .. n
        BY <3>4, <2>4
      <4>2. QED
        BY Zenon, <4>1, <3>2, <2>1, <2>6 DEF Behind
    <3>5. QED
      BY Zenon, <3>3, <3>4
  <2>11. due' = {list'[i] : i \in k + d + 1 .. l + d}
    <3>1. due' = {list[i] : i \in k + 1 .. l}
      BY Zenon, <1>4, <2>1 DEF call, Behind
    <3>2. ASSUME NEW i \in k + 1 .. l PROVE list[i] = list'[i + d] /\ i + d \in k + d + 1 .. l + d
      BY SMTT(20), <2>2, <2>4, <2>5
    <3>3. ASSUME NEW i \in k + d + 1 .. l + d PROVE list'[i] = list[i - d] /\ i - d \in k + 1 .. l
      <4>1. i - d \in 1 .. l /\ (i - d) + d = i /\ i - d \in k + 1 .. l
        BY <2>4, <2>5
      <4>2. QED
        BY Zenon, <4>1, <2>2
    <3> HIDE DEF n, l
    <3>4. QED
      BY SMTT(20), <3>1, <3>2, <3>3
  <2>12. Behind(k + d)'
    <3>1. (k + d) + Len(seen') <= Len(list')
      BY <2>4, <2>5, <2>6
    <3>2. at' = IF (k + d) + Len(seen') = Len(list') THEN None ELSE list'[(k + d) + Len(seen') + 1]
      <4>1. (k + d) + (n + 1) = k + n + 1 + d /\ (k + d) + (n + 1) + 1 = k + n + 1 + d + 1
        BY <2>4, <2>5
      <4>2. QED
        BY Zenon, <4>1, <2>5, <2>6, <2>9
    <3>3. QED
      BY Zenon, <3>1, <3>2, <2>5, <2>6, <2>10, <2>11 DEF Behind
  <2>13. Distinct(seen')
    <3> SUFFICES ASSUME NEW i \in 1 .. n + 1, NEW j \in 1 .. n + 1, seen'[i] = seen'[j] PROVE i = j
      BY <2>6 DEF Distinct, TypeOK
    <3>1. k + d + i \in DOMAIN list' /\ k + d + j \in DOMAIN list'
      BY <2>4, <2>5
    <3>2. k + d + i = k + d + j
      BY Zenon, <3>1, <2>3, <2>10 DEF Distinct
    <3>3. QED
      BY SMTT(20), <3>2, <2>4, <2>5
  <2>14. k + d \in Nat
    BY <2>5
  <2>15. QED
    BY Zenon, <2>3, <2>12, <2>13, <2>14 DEF Walk
<1>5. CASE other
  <2>1. Distinct(list')
    BY <1>5, Opened, Removed DEF other, TypeOK, Walk
  <2>2. QED
    BY Zenon, <1>5, <2>1 DEF other, walk, Walk, Distinct
<1>6. CASE free
  BY <1>6 DEF free, walk, Walk, Distinct
<1>7. ASSUME NEW t \in Threads, begin(t) \/ send(t) \/ recv(t) \/ recv_fails(t)
      PROVE  UNCHANGED <<io, at, list, seen, due>>
  BY Zenon, <1>7 DEF begin, send, recv, recv_fails, walk
<1>8. QED
  BY Zenon, <1>1, <1>2, <1>3, <1>4, <1>5, <1>6, <1>7 DEF Next, vars

-----------------------------------------------------------------------------
(***************************************************************************)
(* What ns_broadcast() and ns_mgr_handle_ctl_sock() keep, for any number   *)
(* of threads and connections.                                             *)
(***************************************************************************)

Inv == TypeOK /\ AckBalance /\ Walk

-----------------------------------------------------------------------------
(* Types *)

LEMMA TypeStep == TypeOK /\ Walk /\ [Next]_vars => TypeOK'
<1> USE BroadcastAssumption
<1> SUFFICES ASSUME TypeOK, Walk, [Next]_vars PROVE TypeOK'
  BY Zenon
<1>1. ASSUME NEW t \in Threads, begin(t) \/ send(t) \/ recv(t) \/ recv_fails(t) PROVE TypeOK'
  <2>1. tpc' \in [Threads -> {"out", "send", "recv"}]
    BY Zenon, <1>1 DEF TypeOK, begin, send, recv, recv_fails
  <2>2. q' \in Seq(Threads)
    <3>1. q' = q \/ q' = Append(q, t)
      BY Zenon, <1>1 DEF begin, send, recv, recv_fails
    <3>2. q \in Seq(Threads)
      BY Zenon DEF TypeOK
    <3>3. QED
      BY <3>1, <3>2, AppendProperties
  <2>3. acks' \in Nat
    <3>1. acks' = acks \/ (acks > 0 /\ acks' = acks - 1)
      BY Zenon, <1>1 DEF begin, send, recv, recv_fails
    <3>2. QED
      BY <3>1 DEF TypeOK
  <2>4. UNCHANGED <<io, msg, at, list, seen, due>>
    BY Zenon, <1>1 DEF begin, send, recv, recv_fails, walk
  <2>5. QED
    BY Zenon, <2>1, <2>2, <2>3, <2>4 DEF TypeOK
<1>2. CASE recv_msg
  BY <1>2 DEF TypeOK, recv_msg
<1>3. CASE ack
  BY <1>3 DEF TypeOK, ack, ToSet
<1>4. CASE call
  <2>1. PICK k \in Nat : Behind(k)
    BY Zenon, <1>4 DEF call, Walk
  <2>2. list' \in Seq(Conn) /\ seen' \in Seq(Conn)
    BY SMTT(20), <1>4, <2>1, Opened DEF TypeOK, call
  <2>3. at \in ToSet(list')
    <3>1. at = list[k + Len(seen) + 1] /\ k + Len(seen) + 1 \in 1 .. Len(list)
      BY <2>1, <1>4 DEF Behind, call, TypeOK
    <3>2. PICK d \in {0, 1} : Len(list') = Len(list) + d /\ \A i \in 1 .. Len(list) : list'[i + d] = list[i]
      BY Zenon, <1>4, Opened DEF TypeOK, call
    <3>3. k + Len(seen) + 1 + d \in DOMAIN list' /\ list'[k + Len(seen) + 1 + d] = at
      <4> DEFINE j == k + Len(seen) + 1
      <4>1. j \in 1 .. Len(list) /\ at = list[j] /\ Len(list) \in Nat
        BY <3>1 DEF TypeOK
      <4> HIDE DEF j
      <4>2. j + d \in DOMAIN list'
        BY SMTT(20), <4>1, <3>2, <2>2
      <4>3. list'[j + d] = at
        BY Zenon, <4>1, <3>2
      <4>4. QED
        BY Zenon, <4>2, <4>3 DEF j
    <3>4. QED
      BY Zenon, <3>3 DEF ToSet
  <2>4. at' \in Conn \cup {None}
    <3> DEFINE i == CHOOSE i \in DOMAIN list' : list'[i] = at
    <3>1. i \in DOMAIN list' /\ list'[i] = at
      BY Zenon, <2>3 DEF ToSet
    <3>2. at' = IF i = Len(list') THEN None ELSE list'[i + 1]
      BY Zenon, <1>4 DEF call, successor
    <3> HIDE DEF i
    <3>3. QED
      BY SMTT(20), <3>1, <3>2, <2>2
  <2>5. QED
    BY Zenon, <2>2, <2>4, <1>4 DEF TypeOK, call
<1>5. CASE call_done
  BY Zenon, <1>5 DEF TypeOK, call_done
<1>6. CASE other
  <2>1. list' \in Seq(Conn)
    BY Zenon, <1>6, Opened, Removed DEF TypeOK, other
  <2>2. QED
    BY Zenon, <2>1, <1>6 DEF TypeOK, other, walk
<1>7. CASE free
  BY <1>7 DEF TypeOK, free, walk
<1>8. CASE UNCHANGED vars
  BY Zenon, <1>8 DEF TypeOK, vars
<1>9. QED
  BY Zenon, <1>1, <1>2, <1>3, <1>4, <1>5, <1>6, <1>7, <1>8 DEF Next

-----------------------------------------------------------------------------
(* Acknowledgements *)

\* One thread starts or stops waiting.
LEMMA BlockedStep ==
    ASSUME TypeOK, NEW t \in Threads, NEW p \in {"out", "send", "recv"}, tpc' = [tpc EXCEPT ![t] = p]
    PROVE  /\ Cardinality(Blocked) \in Nat
           /\ tpc[t] # "recv" /\ p = "recv" => Cardinality(Blocked') = Cardinality(Blocked) + 1
           /\ tpc[t] = "recv" /\ p # "recv" => Cardinality(Blocked') = Cardinality(Blocked) - 1
           /\ tpc[t] # "recv" /\ p # "recv" => Cardinality(Blocked') = Cardinality(Blocked)
<1>1. IsFiniteSet(Blocked)
  <2>1. Blocked \subseteq Threads
    BY Zenon DEF Blocked
  <2>2. QED
    BY Zenon, <2>1, BroadcastAssumption, FS_Subset
<1>2. Cardinality(Blocked) \in Nat
  BY Zenon, <1>1, FS_CardinalityType
<1>3. p = "recv" => Blocked' = Blocked \cup {t}
  BY Zenon DEF TypeOK, Blocked
<1>4. p # "recv" => Blocked' = Blocked \ {t}
  BY Zenon DEF TypeOK, Blocked
<1>5. t \in Blocked <=> tpc[t] = "recv"
  BY Zenon DEF Blocked
<1>6. QED
  BY SMTT(20), <1>1, <1>2, <1>3, <1>4, <1>5, FS_AddElement, FS_RemoveElement

LEMMA AckStep == TypeOK /\ AckBalance /\ [Next]_vars => AckBalance'
<1> SUFFICES ASSUME TypeOK, AckBalance, [Next]_vars PROVE AckBalance'
  BY Zenon
<1>1. ASSUME NEW t \in Threads, begin(t) \/ send(t) \/ recv(t) \/ recv_fails(t) PROVE AckBalance'
  <2>1. CASE begin(t)
    BY Zenon, <2>1, BlockedStep DEF begin, AckBalance, TypeOK
  <2>2. CASE send(t)
    <3>1. io # "closed" => Len(q') = Len(q) + 1
      BY <2>2 DEF send, TypeOK
    <3>2. QED
      BY <2>2, <3>1, BlockedStep DEF send, AckBalance, TypeOK
  <2>3. CASE recv(t)
    <3>1. Cardinality(Blocked) \in Nat /\ Cardinality(Blocked') = Cardinality(Blocked) - 1
      BY Zenon, <2>3, BlockedStep DEF recv
    <3>2. acks \in Nat /\ Len(q) \in Nat
      BY DEF TypeOK
    <3>3. QED
      BY <2>3, <3>1, <3>2 DEF recv, AckBalance
  <2>4. CASE recv_fails(t)
    BY Zenon, <2>4 DEF recv_fails, AckBalance
  <2>5. QED
    BY Zenon, <1>1, <2>1, <2>2, <2>3, <2>4
<1>2. CASE recv_msg
  <2>1. Len(q') = Len(q) - 1 /\ Len(q) \in Nat
    BY <1>2 DEF recv_msg, TypeOK
  <2>2. QED
    BY <1>2, <2>1 DEF recv_msg, AckBalance, Blocked, TypeOK
<1>3. CASE ack
  BY <1>3 DEF ack, AckBalance, Blocked, TypeOK
<1>4. CASE call \/ call_done \/ other \/ free \/ UNCHANGED vars
  BY Zenon, <1>4 DEF call, call_done, other, free, vars, walk, AckBalance, Blocked
<1>5. QED
  BY Zenon, <1>1, <1>2, <1>3, <1>4 DEF Next

-----------------------------------------------------------------------------
(* Theorems *)

LEMMA InitInv == Init => Inv
<1> USE BroadcastAssumption
<1> SUFFICES ASSUME Init PROVE Inv
  BY Zenon
<1>1. TypeOK
  BY DEF Init, TypeOK
<1>2. Blocked = {}
  BY Zenon DEF Init, Blocked
<1>3. AckBalance
  BY <1>2, FS_EmptySet DEF Init, AckBalance
<1>4. Walk
  BY DEF Init, Walk, Distinct
<1>5. QED
  BY Zenon, <1>1, <1>3, <1>4 DEF Inv

\* The inductive invariant holds throughout, whatever threads and callbacks do.
THEOREM BroadcastInvariant == Spec => []Inv
<1>1. Inv /\ [Next]_vars => Inv'
  BY Zenon, TypeStep, AckStep, WalkStep DEF Inv
<1>2. QED
  BY InitInv, <1>1, PTL DEF Spec

\* ns_broadcast() and ns_mgr_handle_ctl_sock() never lose or invent an
\* acknowledgement, for any number of threads.
THEOREM AcksBalanced == Spec => []AckBalance
<1>1. Inv => AckBalance
  BY Zenon DEF Inv
<1>2. QED
  BY <1>1, BroadcastInvariant, PTL

\* The callback of a broadcast is run exactly once on every connection that was
\* there, for any list and whatever connections callbacks open.
THEOREM CalledOnce == Spec => []OnEachOnce
<1>1. Inv => OnEachOnce
  <2> SUFFICES ASSUME Inv PROVE OnEachOnce
    BY Zenon
  <2>1. ASSUME io = "call", at = None PROVE ToSet(seen) = due
    <3>1. PICK k \in Nat : Behind(k)
      BY Zenon, <2>1 DEF Inv, Walk
    <3>2. Len(seen) \in Nat /\ Len(list) \in Nat /\ DOMAIN seen = 1 .. Len(seen)
      BY DEF Inv, TypeOK
    <3>3. k + Len(seen) = Len(list)
      <4> SUFFICES ASSUME k + Len(seen) # Len(list) PROVE FALSE
        BY Zenon
      <4>1. k + Len(seen) + 1 \in 1 .. Len(list) /\ at = list[k + Len(seen) + 1]
        BY <3>1, <3>2 DEF Behind
      <4>2. at \in Conn
        BY <4>1 DEF Inv, TypeOK
      <4>3. QED
        BY Zenon, <4>2, <2>1, BroadcastAssumption
    <3>4. ASSUME NEW i \in k + 1 .. Len(list) PROVE i - k \in 1 .. Len(seen) /\ k + (i - k) = i
      BY <3>2, <3>3
    <3>5. ASSUME NEW i \in 1 .. Len(seen) PROVE k + i \in k + 1 .. Len(list)
      BY <3>2, <3>3
    <3>6. due = {list[i] : i \in k + 1 .. Len(list)} /\ \A i \in 1 .. Len(seen) : seen[i] = list[k + i]
      BY Zenon, <3>1 DEF Behind
    <3>7. ToSet(seen) = {seen[i] : i \in 1 .. Len(seen)}
      BY Zenon, <3>2 DEF ToSet
    <3>8. ASSUME NEW c \in due PROVE c \in ToSet(seen)
      <4>1. PICK i \in k + 1 .. Len(list) : c = list[i]
        BY Zenon, <3>6, <3>8
      <4>2. c = seen[i - k] /\ i - k \in 1 .. Len(seen)
        BY Zenon, <4>1, <3>4, <3>6
      <4>3. QED
        BY Zenon, <4>2, <3>7
    <3>9. ASSUME NEW c \in ToSet(seen) PROVE c \in due
      <4>1. PICK i \in 1 .. Len(seen) : c = seen[i]
        BY <3>7, <3>9
      <4>2. QED
        BY Zenon, <4>1, <3>5, <3>6
    <3>10. QED
      BY Zenon, <3>8, <3>9
  <2>2. QED
    BY Zenon, <2>1 DEF Inv, Walk, Distinct, OnEachOnce
<1>2. QED
  BY <1>1, BroadcastInvariant, PTL

=============================================================================
