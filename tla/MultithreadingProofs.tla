------------------------ MODULE MultithreadingProofs ------------------------
(***************************************************************************)
(* Proofs about Multithreading: links never dangle, and the bytes of both  *)
(* directions arrive whole and in order.                                   *)
(***************************************************************************)
EXTENDS Multithreading, SequenceTheorems, TLAPS

\* The other of the two linked connections.
Peer(x) == IF x = "nc" THEN "c0" ELSE "nc"

\* The type of every variable.
Shape ==
    /\ st \in [Conn -> {"none", "open", "closed"}]
    /\ flags \in [Conn -> SUBSET {"SEND_AND_CLOSE", "CLOSE_IMMEDIATELY"}]
    /\ send \in [Conn -> Seq(Nat)] /\ inbox \in [Conn -> Seq(Nat)]
    /\ priv_2 \in [Conn -> {"nc", "c0", "null"}] /\ fin \in [Conn -> BOOLEAN]
    /\ thread \in {"none", "new", "polls", "done"} /\ main \in {"polls", "frees", "gone"}
    /\ up \in 0 .. MaxUp /\ taken \in Nat /\ said \in 0 .. MaxDown
    /\ got \in Seq(Nat) /\ out \in Seq(Nat) /\ lost \in BOOLEAN

\* Nothing happens before nc is accepted.
Before ==
    st["nc"] = "none" =>
       /\ st = [x \in Conn |-> "none"] /\ thread = "none"
       /\ up = 0 /\ taken = 0 /\ said = 0 /\ out = <<>>
       /\ \A x \in Conn : flags[x] = {} /\ send[x] = <<>> /\ inbox[x] = <<>>

\* The connections are linked as long as both are open, and who is left alone
\* was told to close.
Links ==
    /\ priv_2["c1"] = "null"
    /\ \A x \in {"nc", "c0"} : priv_2[x] = IF st["nc"] = "open" /\ st["c0"] = "open" THEN Peer(x) ELSE "null"
    /\ \A x \in {"nc", "c0"} : st[x] = "open" /\ st[Peer(x)] # "open" => flags[x] # {}
    /\ st["c0"] = "none" => st["nc"] = "none"

\* No byte is there twice, lost or not.
Lengths ==
    /\ taken + Len(inbox["nc"]) <= up
    /\ Len(got) + Len(inbox["c1"]) + Len(send["c0"]) <= taken
    /\ Len(out) + Len(send["nc"]) + Len(inbox["c0"]) + Len(send["c1"]) <= said
    /\ Len(inbox["c0"]) <= Room /\ Len(inbox["c1"]) <= Room

\* c0 closes because the thread has ended, or nc has, or bytes were lost.
Ends ==
    /\ fin["c0"] => thread = "done"
    /\ thread = "done" => st["c1"] = "closed"
    /\ "SEND_AND_CLOSE" \in flags["c0"] => st["nc"] = "closed"
    /\ ~lost /\ "CLOSE_IMMEDIATELY" \in flags["c0"] => fin["c0"] /\ inbox["c0"] = <<>>
    /\ ~lost /\ st["c0"] = "closed" /\ st["nc"] = "open" => thread = "done"
    /\ ~lost /\ st["nc"] = "open" => inbox["nc"] = [i \in 1 .. up - taken |-> taken + i]

Inv == Shape /\ Before /\ Links /\ Lengths /\ Ends

-----------------------------------------------------------------------------

\* Cutting a sequence in two loses nothing.
LEMMA Cut ==
    ASSUME NEW s \in Seq(Nat), NEW n \in 0 .. Len(s)
    PROVE  /\ SubSeq(s, 1, n) \in Seq(Nat) /\ SubSeq(s, n + 1, Len(s)) \in Seq(Nat)
           /\ Len(SubSeq(s, 1, n)) = n /\ Len(SubSeq(s, n + 1, Len(s))) = Len(s) - n
           /\ SubSeq(s, 1, n) \o SubSeq(s, n + 1, Len(s)) = s
<1>1. Len(s) \in Nat /\ \A i \in 1 .. Len(s) : s[i] \in Nat
  OBVIOUS
<1>2. SubSeq(s, 1, n) \in Seq(Nat) /\ Len(SubSeq(s, 1, n)) = n
  BY <1>1, SubSeqProperties
<1>3. SubSeq(s, n + 1, Len(s)) \in Seq(Nat) /\ Len(SubSeq(s, n + 1, Len(s))) = Len(s) - n
  <2>1. n + 1 \in Int /\ Len(s) \in Int /\ \A i \in n + 1 .. Len(s) : s[i] \in Nat
    BY <1>1
  <2> DEFINE t == SubSeq(s, n + 1, Len(s))
  <2>2. t \in Seq(Nat) /\ Len(t) = IF n + 1 <= Len(s) THEN Len(s) - (n + 1) + 1 ELSE 0
    BY <2>1, SubSeqProperties
  <2>3. QED
    BY <2>2, <1>1
<1>4. SubSeq(s, 1, n) \o SubSeq(s, n + 1, Len(s)) = SubSeq(s, 1, Len(s))
  <2>1. 1 \in 1 .. Len(s) + 1 /\ n \in 1 - 1 .. Len(s) /\ Len(s) \in n .. Len(s)
    BY <1>1
  <2>2. QED
    BY <2>1, ConcatAdjacentSubSeq, Zenon
<1>5. QED
  BY Zenon, <1>2, <1>3, <1>4, SubSeqFull

\* The numbers m + 1 to m + n behind those to m.
LEMMA CountMore ==
    ASSUME NEW m \in Nat, NEW n \in Nat
    PROVE  /\ [i \in 1 .. n |-> m + i] \in Seq(Nat) /\ Len([i \in 1 .. n |-> m + i]) = n
           /\ Count(m) \in Seq(Nat)
           /\ Count(m) \o [i \in 1 .. n |-> m + i] = Count(m + n)
  BY DEF Count

\* Moving bytes from the front of one buffer to the end of the one before it.
LEMMA Assoc ==
    ASSUME NEW a \in Seq(Nat), NEW b \in Seq(Nat), NEW c \in Seq(Nat)
    PROVE  (a \o b) \o c = a \o (b \o c) /\ a \o b \in Seq(Nat) /\ Len(a \o b) = Len(a) + Len(b)
           /\ a \o <<>> = a
  OBVIOUS

\* The same with four buffers.
Regroup(a, b, c, d) ==
    /\ (a \o b) \o (c \o d) = ((a \o b) \o c) \o d
    /\ (a \o (b \o c)) \o d = (a \o b) \o (c \o d)
    /\ (a \o b) \o c = a \o (b \o c)
    /\ (a \o b) \o <<>> = a \o b

\* Buffers may be grouped in any way.
LEMMA Regrouped ==
    ASSUME NEW a \in Seq(Nat), NEW b \in Seq(Nat), NEW c \in Seq(Nat), NEW d \in Seq(Nat)
    PROVE  Regroup(a, b, c, d)
<1>1. a \o b \in Seq(Nat) /\ b \o c \in Seq(Nat)
  OBVIOUS
<1>2. (a \o b) \o (c \o d) = ((a \o b) \o c) \o d
  <2> DEFINE e == a \o b
  <2> HIDE DEF e
  <2>1. e \in Seq(Nat)
    BY <1>1 DEF e
  <2>2. (e \o c) \o d = e \o (c \o d)
    BY SMTT(20), <2>1
  <2>3. QED
    BY <2>2 DEF e
<1>3. (a \o b) \o c = a \o (b \o c)
  BY SMTT(20)
<1>4. (a \o b) \o <<>> = a \o b
  BY <1>1
<1>5. QED
  BY <1>2, <1>3, <1>4, Zenon DEF Regroup

-----------------------------------------------------------------------------

\* ns_close_conn() of nc and of c0, by ns_mgr_poll() or by ns_mgr_free().
CloseNc == st["nc"] = "open" /\ close_nc /\ main' \in {"polls", "gone"}
CloseC0 ==
    /\ st["c0"] = "open" /\ main' \in {"polls", "frees"}
    /\ \/ close_c0(TRUE) \/ (to_be_closed("c0") /\ close_c0(FALSE))
OnlyMain ==
    /\ UNCHANGED <<st, flags, send, priv_2, inbox, fin, thread, up, taken, got, said, out, lost>>
    /\ main' \in {"polls", "frees", "gone"}

\* The kinds of steps.
LEMMA Steps ==
    ASSUME Shape, [Next]_vars
    PROVE  \/ spawn_handling_thread \/ thread_starts \/ read("nc") \/ read("c0")
           \/ write_nc \/ write("c0") \/ write("c1")
           \/ (\E x \in Conn : write_fails(x)) \/ read_c1 \/ poll_c1 \/ CloseNc \/ CloseC0 \/ close_c1
           \/ client_sends \/ client_closes \/ OnlyMain
<1>1. ASSUME close("nc") PROVE CloseNc
  BY <1>1 DEF close, runs, main_runs, CloseNc
<1>2. ASSUME close("c0") PROVE CloseC0
  BY Zenon, <1>2 DEF close, runs, main_runs, CloseC0
<1>3. ASSUME ns_mgr_free PROVE CloseNc \/ CloseC0 \/ OnlyMain
  BY <1>3, Zenon DEF ns_mgr_free, CloseNc, CloseC0, OnlyMain
<1>4. ASSUME UNCHANGED vars PROVE OnlyMain
  BY <1>4 DEF vars, OnlyMain, Shape
<1>5. QED
  BY <1>1, <1>2, <1>3, <1>4, Zenon DEF Next, MainStep, Conn


\* The three connections, and what the types say of each.
LEMMA Typed ==
    ASSUME Shape
    PROVE  /\ \A x \in Conn : send[x] \in Seq(Nat) /\ inbox[x] \in Seq(Nat) /\ fin[x] \in BOOLEAN
           /\ \A x \in Conn : Len(send[x]) \in Nat /\ Len(inbox[x]) \in Nat
           /\ Len(got) \in Nat /\ Len(out) \in Nat
  BY DEF Shape

\* The user's handler sends some more bytes and may ask for the end.
LEMMA UserHandler ==
    ASSUME Shape, NEW fl \in SUBSET {"SEND_AND_CLOSE", "CLOSE_IMMEDIATELY"}, user_handler(fl)
    PROVE  /\ said' \in 0 .. MaxDown /\ send' \in [Conn -> Seq(Nat)]
           /\ flags' \in [Conn -> SUBSET {"SEND_AND_CLOSE", "CLOSE_IMMEDIATELY"}]
           /\ \A x \in {"nc", "c0"} : send'[x] = send[x] /\ flags'[x] = flags[x]
           /\ \E n \in Nat : /\ said' = said + n
                             /\ send'["c1"] = send["c1"] \o [i \in 1 .. n |-> said + i]
<1> USE ThreadsAssumption DEF Conn
<1>1. PICK n \in 0 .. MaxDown - said :
           said' = said + n /\ send' = [send EXCEPT !["c1"] = @ \o [i \in 1 .. n |-> said + i]]
  BY Zenon DEF user_handler
<1>2. PICK asks \in HandlerFlags : flags' = [flags EXCEPT !["c1"] = fl \cup asks]
  BY Zenon DEF user_handler
<1>3. n \in Nat /\ said \in Nat /\ said' \in 0 .. MaxDown
  BY <1>1 DEF Shape
<1>4. send["c1"] \o [i \in 1 .. n |-> said + i] \in Seq(Nat)
  BY <1>3, CountMore, Typed, Assoc
<1>5. send' \in [Conn -> Seq(Nat)] /\ send'["nc"] = send["nc"] /\ send'["c0"] = send["c0"]
      /\ send'["c1"] = send["c1"] \o [i \in 1 .. n |-> said + i]
  BY Zenon, <1>1, <1>4 DEF Shape
<1>6. flags' \in [Conn -> SUBSET {"SEND_AND_CLOSE", "CLOSE_IMMEDIATELY"}]
      /\ flags'["nc"] = flags["nc"] /\ flags'["c0"] = flags["c0"]
  BY Zenon, <1>2 DEF Shape, HandlerFlags
<1>7. QED
  BY Zenon, <1>1, <1>3, <1>5, <1>6

\* closesocket(): the other end sees the end of the stream, and if nothing is
\* lost it keeps what it has not read.
LEMMA CloseSocket ==
    ASSUME Shape, NEW x \in {"c0", "c1"}, NEW cut \in BOOLEAN, closesocket(x, cut)
    PROVE  /\ fin' \in [Conn -> BOOLEAN] /\ inbox' \in [Conn -> Seq(Nat)] /\ lost' \in BOOLEAN
           /\ \A y \in Conn : y # Far(x) => fin'[y] = fin[y]
           /\ inbox'[x] = <<>> /\ inbox'["nc"] = inbox["nc"]
           /\ \A y \in Conn : inbox'[y] \in {inbox[y], <<>>}
           /\ ~lost' => ~lost /\ ~cut /\ inbox'[Far(x)] = inbox[Far(x)]
<1> USE DEF Conn
<1>1. Far(x) \in Conn \ {x, "nc"}
  BY DEF Far
<1>2. fin' = [fin EXCEPT ![Far(x)] = TRUE]
  BY DEF closesocket
<1>3. fin' \in [Conn -> BOOLEAN] /\ \A y \in Conn : y # Far(x) => fin'[y] = fin[y]
  BY <1>1, <1>2, Zenon DEF Shape
<1>4. CASE inbox' = [inbox EXCEPT ![x] = <<>>] /\ lost' = (lost \/ cut)
  <2>1. lost' \in BOOLEAN /\ (~lost' => ~lost /\ ~cut)
    BY <1>4, Zenon DEF Shape
  <2>2. QED
    BY <1>1, <1>3, <1>4, <2>1 DEF Shape
<1>5. CASE inbox' = [inbox EXCEPT ![x] = <<>>, ![Far(x)] = <<>>] /\ lost' = TRUE
  <2>1. inbox' \in [Conn -> Seq(Nat)] /\ inbox'[x] = <<>> /\ inbox'[Far(x)] = <<>>
        /\ \A y \in Conn \ {x, Far(x)} : inbox'[y] = inbox[y]
    <3> DEFINE half == [inbox EXCEPT ![x] = <<>>]
    <3>1. inbox' = [half EXCEPT ![Far(x)] = <<>>]
      BY <1>5
    <3>2. half \in [Conn -> Seq(Nat)] /\ half[x] = <<>> /\ \A y \in Conn \ {x} : half[y] = inbox[y]
      BY DEF Shape
    <3>3. QED
      BY Zenon, <1>1, <3>1, <3>2
  <2>2. QED
    BY Zenon, <1>1, <1>3, <1>5, <2>1 DEF Shape
<1>6. QED
  BY Zenon, <1>4, <1>5 DEF closesocket

\* Steps keep the types.
LEMMA ShapeStep == Shape /\ [Next]_vars => Shape'
<1> SUFFICES ASSUME Shape, [Next]_vars PROVE Shape'
  OBVIOUS
<1> USE ThreadsAssumption DEF Conn
<1>1. CASE spawn_handling_thread \/ thread_starts \/ client_closes \/ OnlyMain
  <2>1. CASE spawn_handling_thread
    BY Zenon, <2>1 DEF spawn_handling_thread, link_conns, Shape
  <2>2. CASE thread_starts \/ OnlyMain
    BY Zenon, <2>2 DEF thread_starts, OnlyMain, Shape
  <2>3. CASE client_closes
    <3>1. fin' \in [Conn -> BOOLEAN]
      BY <2>3, Zenon DEF client_closes, Shape
    <3>2. QED
      BY <2>3, <3>1 DEF client_closes, Shape
  <2>4. QED
    BY <1>1, <2>1, <2>2, <2>3
<1>2. CASE read("nc") \/ read("c0")
  <2>1. PICK x \in {"nc", "c0"} : read(x)
    BY <1>2
  <2>2. send' \in [Conn -> Seq(Nat)]
    BY Zenon, <2>1, Typed, Assoc DEF read, ns_forward, Shape
  <2>3. inbox' \in [Conn -> Seq(Nat)] /\ taken' \in Nat
    BY <2>1, Typed DEF read, Shape
  <2>4. QED
    BY Zenon, <2>1, <2>2, <2>3 DEF read, flagged_at_end, Shape
<1>3. CASE write_nc
  BY SMTT(20), <1>3, Typed, Assoc DEF write_nc, Shape
<1>4. CASE write("c0") \/ write("c1")
  <2>1. PICK x \in {"c0", "c1"} : write(x)
    BY <1>4
  <2> DEFINE y == Far(x)
             n == IF Len(send[x]) < Room - Len(inbox[y]) THEN Len(send[x]) ELSE Room - Len(inbox[y])
  <2>2. y \in Conn /\ n \in 0 .. Len(send[x])
    BY SMTT(20), <2>1, Typed DEF write, Far
  <2>3. inbox[y] \o SubSeq(send[x], 1, n) \in Seq(Nat) /\ SubSeq(send[x], n + 1, Len(send[x])) \in Seq(Nat)
    BY Zenon, <2>2, Typed, Cut, Assoc
  <2>4. inbox' = [inbox EXCEPT ![y] = inbox[y] \o SubSeq(send[x], 1, n)]
        /\ send' = [send EXCEPT ![x] = SubSeq(send[x], n + 1, Len(send[x]))]
    BY <2>1 DEF write, Shape
  <2> HIDE DEF y, n
  <2>5. inbox' \in [Conn -> Seq(Nat)] /\ send' \in [Conn -> Seq(Nat)]
    BY Zenon, <2>2, <2>3, <2>4 DEF Shape
  <2>6. QED
    BY Zenon, <2>1, <2>5 DEF write, Shape
<1>5. CASE \E x \in Conn : write_fails(x)
  <2>1. PICK x \in Conn : write_fails(x)
    BY <1>5
  <2>a. <<>> \in Seq(Nat)
    OBVIOUS
  <2>2. send' \in [Conn -> Seq(Nat)] /\ inbox' \in [Conn -> Seq(Nat)]
    <3>1. [send EXCEPT ![x] = <<>>] \in [Conn -> Seq(Nat)] /\ [inbox EXCEPT ![x] = <<>>] \in [Conn -> Seq(Nat)]
      BY <2>a DEF Shape
    <3>2. send \in [Conn -> Seq(Nat)] /\ inbox \in [Conn -> Seq(Nat)]
      BY DEF Shape
    <3>3. QED
      BY <2>1, <3>1, <3>2, Zenon DEF write_fails
  <2>3. flags' \in [Conn -> SUBSET {"SEND_AND_CLOSE", "CLOSE_IMMEDIATELY"}]
    BY <2>1 DEF write_fails, Shape
  <2>4. QED
    BY Zenon, <2>1, <2>2, <2>3 DEF write_fails, Shape
<1>6. CASE read_c1 \/ poll_c1
  <2>1. flags["c1"] \in SUBSET {"SEND_AND_CLOSE", "CLOSE_IMMEDIATELY"}
        /\ flagged_at_end("c1", flags["c1"]) \in SUBSET {"SEND_AND_CLOSE", "CLOSE_IMMEDIATELY"}
    BY DEF Shape, flagged_at_end
  <2>2. CASE read_c1
    <3>1. got' \in Seq(Nat) /\ inbox' \in [Conn -> Seq(Nat)]
      BY SMTT(20), <2>2, Typed, Assoc DEF read_c1, Shape
    <3>2. said' \in 0 .. MaxDown /\ send' \in [Conn -> Seq(Nat)]
          /\ flags' \in [Conn -> SUBSET {"SEND_AND_CLOSE", "CLOSE_IMMEDIATELY"}]
      <4>1. CASE inbox["c1"] = <<>>
        BY <2>1, <2>2, <4>1 DEF read_c1, Shape
      <4>2. CASE inbox["c1"] # <<>>
        BY <2>1, <2>2, <4>2, UserHandler, Zenon DEF read_c1
      <4>3. QED
        BY <4>1, <4>2
    <3>3. QED
      BY Zenon, <2>2, <3>1, <3>2 DEF read_c1, Shape
  <2>3. CASE poll_c1
    BY Zenon, <2>1, <2>3, UserHandler DEF poll_c1, Shape
  <2>4. QED
    BY <1>6, <2>2, <2>3
<1>7. CASE CloseNc
  BY <1>7 DEF CloseNc, close_nc, unlink_conns, Shape
<1>8. CASE CloseC0
  <2>1. fin' \in [Conn -> BOOLEAN] /\ inbox' \in [Conn -> Seq(Nat)] /\ lost' \in BOOLEAN
    BY <1>8, CloseSocket, Zenon DEF CloseC0, close_c0
  <2>2. PICK cut \in BOOLEAN : close_c0(cut)
    BY <1>8, Zenon DEF CloseC0
  <2>3. QED
    BY <1>8, <2>1, <2>2 DEF CloseC0, close_c0, unlink_conns, Shape
<1>9. CASE close_c1
  <2>1. fin' \in [Conn -> BOOLEAN] /\ inbox' \in [Conn -> Seq(Nat)] /\ lost' \in BOOLEAN
    BY <1>9, CloseSocket, Zenon DEF close_c1
  <2>2. QED
    BY <1>9, <2>1 DEF close_c1, Shape
<1>10. CASE client_sends
  <2>1. up' \in 0 .. MaxUp /\ Append(inbox["nc"], up') \in Seq(Nat)
    BY <1>10, Typed DEF client_sends, Shape
  <2>2. QED
    BY <1>10, <2>1 DEF client_sends, Shape
<1>11. QED
  BY <1>1, <1>2, <1>3, <1>4, <1>5, <1>6, <1>7, <1>8, <1>9, <1>10, Steps

\* Steps on open connections that close none take no flag off.
LEMMA OpenSteps ==
    ASSUME Shape, Before,
           \/ thread_starts \/ read("nc") \/ read("c0") \/ write_nc \/ write("c0") \/ write("c1")
           \/ (\E x \in Conn : write_fails(x)) \/ read_c1 \/ poll_c1 \/ client_sends \/ client_closes
    PROVE  /\ UNCHANGED <<st, priv_2>> /\ st["nc"] # "none"
           /\ \A x \in {"nc", "c0"} : flags[x] \subseteq flags'[x]
<1> USE DEF Conn
<1>1. CASE thread_starts
  BY <1>1 DEF thread_starts, Before
<1>2. CASE read("nc") \/ read("c0")
  <2>1. PICK x \in {"nc", "c0"} : read(x)
    BY <1>2
  <2>2. \A y \in {"nc", "c0"} : flags[y] \subseteq flags'[y]
    BY Zenon, <2>1 DEF read, flagged_at_end, Shape
  <2>3. st[x] = "open" /\ UNCHANGED <<st, priv_2>>
    BY <2>1 DEF read, works, runs
  <2>4. QED
    BY <2>2, <2>3 DEF Before
<1>3. CASE write_nc \/ write("c0") \/ write("c1")
  BY Zenon, <1>3 DEF write_nc, write, works, runs, Before
<1>4. CASE \E x \in Conn : write_fails(x)
  <2>1. PICK x \in Conn : write_fails(x)
    BY <1>4
  <2>2. \A y \in {"nc", "c0"} : flags[y] \subseteq flags'[y]
    <3>1. flags' = flags \/ flags' = [flags EXCEPT ![x] = @ \cup {"CLOSE_IMMEDIATELY"}]
      BY <2>1, Zenon DEF write_fails
    <3>2. \A y \in Conn : flags'[y] \in {flags[y], flags[y] \cup {"CLOSE_IMMEDIATELY"}}
      BY <3>1 DEF Shape
    <3>3. QED
      BY <3>2
  <2>3. st[x] = "open" /\ UNCHANGED <<st, priv_2>>
    BY <2>1 DEF write_fails, works, runs
  <2>4. QED
    BY <2>2, <2>3 DEF Before
<1>5. CASE read_c1 \/ poll_c1
  <2>1. flags["c1"] \in SUBSET {"SEND_AND_CLOSE", "CLOSE_IMMEDIATELY"}
        /\ flagged_at_end("c1", flags["c1"]) \in SUBSET {"SEND_AND_CLOSE", "CLOSE_IMMEDIATELY"}
    BY DEF Shape, flagged_at_end
  <2>2. flags'["nc"] = flags["nc"] /\ flags'["c0"] = flags["c0"]
    <3>1. CASE read_c1 /\ inbox["c1"] = <<>>
      BY <3>1 DEF read_c1, Shape
    <3>2. CASE (read_c1 /\ inbox["c1"] # <<>>) \/ poll_c1
      BY <2>1, <3>2, UserHandler, Zenon DEF read_c1, poll_c1
    <3>3. QED
      BY <1>5, <3>1, <3>2
  <2>3. QED
    BY <1>5, <2>2 DEF read_c1, poll_c1, works, runs, Before
<1>6. CASE client_sends \/ client_closes
  BY <1>6 DEF client_sends, client_closes
<1>7. QED
  BY <1>1, <1>2, <1>3, <1>4, <1>5, <1>6

\* Steps keep the links, and closing one of the two tells the other.
LEMMA LinksStep == Shape /\ Before /\ Links /\ [Next]_vars => Before' /\ Links'
<1> SUFFICES ASSUME Shape, Before, Links, [Next]_vars PROVE Before' /\ Links'
  OBVIOUS
<1> USE DEF Conn
<1>1. CASE spawn_handling_thread
  BY <1>1 DEF spawn_handling_thread, link_conns, Shape, Before, Links, Peer
<1>2. CASE \/ thread_starts \/ read("nc") \/ read("c0") \/ write_nc \/ write("c0") \/ write("c1")
           \/ (\E x \in Conn : write_fails(x)) \/ read_c1 \/ poll_c1 \/ client_sends \/ client_closes
  <2>1. UNCHANGED <<st, priv_2>> /\ st["nc"] # "none" /\ \A x \in {"nc", "c0"} : flags[x] \subseteq flags'[x]
    BY <1>2, OpenSteps
  <2>2. QED
    BY <2>1 DEF Before, Links, Peer
<1>3. CASE CloseNc
  BY Zenon, <1>3 DEF CloseNc, close_nc, unlink_conns, Shape, Before, Links, Peer
<1>4. CASE CloseC0
  <2>1. PICK cut \in BOOLEAN : close_c0(cut)
    BY <1>4, Zenon DEF CloseC0
  <2>2. QED
    BY Zenon, <1>4, <2>1 DEF CloseC0, close_c0, unlink_conns, Shape, Before, Links, Peer
<1>5. CASE close_c1
  BY <1>5 DEF close_c1, runs, Shape, Before, Links, Peer
<1>6. CASE OnlyMain
  BY <1>6 DEF OnlyMain, Before, Links, Peer
<1>7. QED
  BY <1>1, <1>2, <1>3, <1>4, <1>5, <1>6, Steps

-----------------------------------------------------------------------------
(* What the steps do to the buffers *)

\* Reading on one of the linked connections empties its socket into the
\* buffer of the other one, if that is open.
LEMMA Reading ==
    ASSUME Shape, Links, NEW x \in {"nc", "c0"}, read(x)
    PROVE  /\ inbox'[x] = <<>> /\ \A y \in Conn \ {x} : inbox'[y] = inbox[y]
           /\ \A y \in Conn \ {Peer(x)} : send'[y] = send[y]
           /\ send'[Peer(x)] = IF st[Peer(x)] = "open" THEN send[Peer(x)] \o inbox[x] ELSE send[Peer(x)]
           /\ taken' = IF x = "nc" THEN taken + Len(inbox[x]) ELSE taken
           /\ UNCHANGED <<st, fin, thread, up, got, said, out, lost>>
<1> USE DEF Conn
<1>1. st[x] = "open" /\ priv_2[x] = IF st[Peer(x)] = "open" THEN Peer(x) ELSE "null"
  BY DEF read, works, runs, Links, Peer
<1>2. inbox'[x] = <<>> /\ \A y \in Conn \ {x} : inbox'[y] = inbox[y]
  BY DEF read, Shape
<1>3. /\ \A y \in Conn \ {Peer(x)} : send'[y] = send[y]
      /\ send'[Peer(x)] = IF st[Peer(x)] = "open" THEN send[Peer(x)] \o inbox[x] ELSE send[Peer(x)]
  BY Zenon, <1>1 DEF read, ns_forward, Peer
<1>4. QED
  BY <1>2, <1>3 DEF read

\* Writing on the socket pair moves the front of a buffer to the socket of the
\* other end, as far as there is room.
LEMMA Writing ==
    ASSUME Shape, NEW x \in {"c0", "c1"}, write(x)
    PROVE  /\ \E p, q \in Seq(Nat) : /\ send[x] = p \o q /\ send'[x] = q
                                     /\ inbox'[Far(x)] = inbox[Far(x)] \o p
                                     /\ Len(inbox[Far(x)]) + Len(p) <= Room
           /\ \A y \in Conn \ {x} : send'[y] = send[y]
           /\ \A y \in Conn \ {Far(x)} : inbox'[y] = inbox[y]
           /\ UNCHANGED <<st, flags, priv_2, fin, thread, main, up, taken, got, said, out, lost>>
<1> USE ThreadsAssumption DEF Conn
<1> DEFINE y == Far(x)
           n == IF Len(send[x]) < Room - Len(inbox[y]) THEN Len(send[x]) ELSE Room - Len(inbox[y])
           p == SubSeq(send[x], 1, n)
           q == SubSeq(send[x], n + 1, Len(send[x]))
<1>1. y \in Conn /\ n \in 0 .. Len(send[x]) /\ Len(inbox[y]) + n <= Room
  <2>1. y \in Conn /\ n > 0
    BY DEF write, Far
  <2>2. Len(send[x]) \in Nat /\ Len(inbox[y]) \in Nat
    BY Zenon, <2>1, Typed
  <2> HIDE DEF y
  <2>3. ASSUME NEW a \in Nat, NEW b \in Nat, NEW m, m = IF a < Room - b THEN a ELSE Room - b, m > 0
        PROVE  m \in 0 .. a /\ b + m <= Room
    BY <2>3
  <2>4. QED
    BY Zenon, <2>1, <2>2, <2>3
<1>2. p \in Seq(Nat) /\ q \in Seq(Nat) /\ send[x] = p \o q /\ Len(p) = n
  BY Zenon, <1>1, Typed, Cut
<1>3. inbox' = [inbox EXCEPT ![y] = inbox[y] \o p] /\ send' = [send EXCEPT ![x] = q]
  BY DEF write, Shape
<1>4. UNCHANGED <<st, flags, priv_2, fin, thread, main, up, taken, got, said, out, lost>>
  BY DEF write
<1> HIDE DEF y, n, p, q
<1>5. /\ send'[x] = q /\ inbox'[y] = inbox[y] \o p
      /\ \A z \in Conn \ {x} : send'[z] = send[z]
      /\ \A z \in Conn \ {y} : inbox'[z] = inbox[z]
  BY Zenon, <1>1, <1>3 DEF Shape
<1>6. QED
  BY Zenon, <1>1, <1>2, <1>4, <1>5 DEF y

\* What a read of nc does.
LEMMA Read_nc ==
    ASSUME Shape, Links, read("nc")
    PROVE  /\ inbox'["nc"] = <<>> /\ inbox'["c0"] = inbox["c0"] /\ inbox'["c1"] = inbox["c1"]
           /\ send'["nc"] = send["nc"] /\ send'["c1"] = send["c1"]
           /\ st["c0"] = "open" => send'["c0"] = send["c0"] \o inbox["nc"]
           /\ send'["c0"] = send["c0"] \o inbox["nc"] \/ send'["c0"] = send["c0"]
           /\ taken' = taken + Len(inbox["nc"]) /\ UNCHANGED <<st, fin, thread, up, got, said, out, lost>>
  BY Zenon, Reading DEF Conn, Peer

\* What a read of c0 does.
LEMMA Read_c0 ==
    ASSUME Shape, Links, read("c0")
    PROVE  /\ inbox'["c0"] = <<>> /\ inbox'["nc"] = inbox["nc"] /\ inbox'["c1"] = inbox["c1"]
           /\ send'["c0"] = send["c0"] /\ send'["c1"] = send["c1"]
           /\ st["nc"] = "open" => send'["nc"] = send["nc"] \o inbox["c0"]
           /\ send'["nc"] = send["nc"] \o inbox["c0"] \/ send'["nc"] = send["nc"]
           /\ UNCHANGED <<st, fin, thread, up, taken, got, said, out, lost>>
  BY Zenon, Reading DEF Conn, Peer

\* What a write of c0 does.
LEMMA Write_c0 ==
    ASSUME Shape, write("c0")
    PROVE  /\ \E p, q \in Seq(Nat) : /\ send["c0"] = p \o q /\ send'["c0"] = q
                                     /\ inbox'["c1"] = inbox["c1"] \o p /\ Len(inbox["c1"]) + Len(p) <= Room
           /\ send'["nc"] = send["nc"] /\ send'["c1"] = send["c1"]
           /\ inbox'["nc"] = inbox["nc"] /\ inbox'["c0"] = inbox["c0"]
           /\ UNCHANGED <<st, flags, priv_2, fin, thread, main, up, taken, got, said, out, lost>>
  BY Zenon, Writing DEF Conn, Far

\* What a write of c1 does.
LEMMA Write_c1 ==
    ASSUME Shape, write("c1")
    PROVE  /\ \E p, q \in Seq(Nat) : /\ send["c1"] = p \o q /\ send'["c1"] = q
                                     /\ inbox'["c0"] = inbox["c0"] \o p /\ Len(inbox["c0"]) + Len(p) <= Room
           /\ send'["nc"] = send["nc"] /\ send'["c0"] = send["c0"]
           /\ inbox'["nc"] = inbox["nc"] /\ inbox'["c1"] = inbox["c1"]
           /\ UNCHANGED <<st, flags, priv_2, fin, thread, main, up, taken, got, said, out, lost>>
  BY Zenon, Writing DEF Conn, Far

\* Steps of the thread's loop that call the user's handler.
LEMMA Handling ==
    ASSUME Shape, read_c1 \/ poll_c1
    PROVE  /\ \E n \in Nat : said' = said + n /\ send'["c1"] = send["c1"] \o [i \in 1 .. n |-> said + i]
           /\ \/ got' = got \o inbox["c1"] /\ inbox'["c1"] = <<>>
              \/ got' = got /\ inbox'["c1"] = inbox["c1"]
           /\ \A x \in {"nc", "c0"} : UNCHANGED <<send[x], flags[x], inbox[x]>>
           /\ UNCHANGED <<st, fin, thread, up, taken, out, lost>> /\ thread = "polls"
<1> USE DEF Conn
<1>1. flags["c1"] \in SUBSET {"SEND_AND_CLOSE", "CLOSE_IMMEDIATELY"}
      /\ flagged_at_end("c1", flags["c1"]) \in SUBSET {"SEND_AND_CLOSE", "CLOSE_IMMEDIATELY"}
  BY Zenon DEF Shape, flagged_at_end
<1>2. /\ \E n \in Nat : said' = said + n /\ send'["c1"] = send["c1"] \o [i \in 1 .. n |-> said + i]
      /\ \A x \in {"nc", "c0"} : send'[x] = send[x] /\ flags'[x] = flags[x]
  <2>1. CASE read_c1 /\ inbox["c1"] = <<>>
    <3>1. said' = said /\ send' = send /\ said \in Nat /\ \A x \in {"nc", "c0"} : flags'[x] = flags[x]
      BY <2>1, ThreadsAssumption DEF read_c1, Shape
    <3>2. said' = said + 0 /\ send'["c1"] = send["c1"] \o [i \in 1 .. 0 |-> said + i]
      BY <3>1, Typed
    <3>3. QED
      BY <3>1, <3>2
  <2>2. CASE (read_c1 /\ inbox["c1"] # <<>>) \/ poll_c1
    BY <1>1, <2>2, UserHandler, Zenon DEF read_c1, poll_c1
  <2>3. QED
    BY Zenon, <2>1, <2>2
<1>3. CASE read_c1
  BY Zenon, <1>2, <1>3 DEF read_c1, works, runs, Shape
<1>4. CASE poll_c1
  BY Zenon, <1>2, <1>4 DEF poll_c1, works, runs
<1>5. QED
  BY Zenon, <1>3, <1>4

\* Steps that only drop bytes, if any.
LEMMA Dropping ==
    ASSUME Shape, [Next]_vars,
           \/ spawn_handling_thread \/ thread_starts \/ (\E x \in Conn : write_fails(x))
           \/ CloseNc \/ CloseC0 \/ close_c1 \/ client_closes \/ OnlyMain
    PROVE  /\ \A x \in Conn : send'[x] \in {send[x], <<>>} /\ inbox'[x] \in {inbox[x], <<>>}
           /\ UNCHANGED <<up, taken, got, said, out>>
<1> USE DEF Conn
<1>1. CASE spawn_handling_thread \/ thread_starts \/ client_closes \/ OnlyMain
  BY <1>1 DEF spawn_handling_thread, thread_starts, client_closes, OnlyMain
<1>2. CASE \E x \in Conn : write_fails(x)
  <2>1. PICK x \in Conn : write_fails(x)
    BY <1>2
  <2>2. /\ send' = send \/ send' = [send EXCEPT ![x] = <<>>]
        /\ inbox' = inbox \/ inbox' = [inbox EXCEPT ![x] = <<>>]
        /\ UNCHANGED <<up, taken, got, said, out>>
    BY <2>1, Zenon DEF write_fails
  <2>3. QED
    BY Zenon, <2>2 DEF Shape
<1>3. CASE CloseNc
  BY <1>3 DEF CloseNc, close_nc, Shape
<1>4. CASE CloseC0
  <2>1. PICK cut \in BOOLEAN : close_c0(cut)
    BY <1>4, Zenon DEF CloseC0
  <2>2. \A x \in Conn : inbox'[x] \in {inbox[x], <<>>}
    BY Zenon, <2>1, CloseSocket DEF close_c0
  <2>3. QED
    BY <2>1, <2>2 DEF close_c0, Shape
<1>5. CASE close_c1
  <2>1. \A x \in Conn : inbox'[x] \in {inbox[x], <<>>}
    BY <1>5, CloseSocket, Zenon DEF close_c1
  <2>2. QED
    BY <1>5, <2>1 DEF close_c1, Shape
<1>6. QED
  BY <1>1, <1>2, <1>3, <1>4, <1>5

\* Steps double no byte.
LEMMA LengthsStep == Shape /\ Links /\ Lengths /\ [Next]_vars => Lengths'
<1> SUFFICES ASSUME Shape, Links, Lengths, [Next]_vars PROVE Lengths'
  OBVIOUS
<1> USE ThreadsAssumption DEF Conn
<1>0. up \in Nat /\ taken \in Nat /\ said \in Nat /\ Room \in Nat
  BY DEF Shape
<1>a. /\ send \in [Conn -> Seq(Nat)] /\ inbox \in [Conn -> Seq(Nat)]
      /\ send' \in [Conn -> Seq(Nat)] /\ inbox' \in [Conn -> Seq(Nat)]
  BY ShapeStep DEF Shape
<1>b. got \in Seq(Nat) /\ out \in Seq(Nat) /\ got' \in Seq(Nat)
  BY ShapeStep DEF Shape
<1>c. /\ \A x \in Conn : Len(send[x]) \in Nat /\ Len(inbox[x]) \in Nat
      /\ Len(got) \in Nat /\ Len(out) \in Nat
  BY Typed
<1>1. CASE read("nc")
  <2>1. Len(inbox'["nc"]) = 0 /\ Len(send'["c0"]) \in Nat
        /\ Len(send'["c0"]) <= Len(send["c0"]) + Len(inbox["nc"])
    BY <1>1, <1>a, <1>c, Read_nc
  <2>2. QED
    BY SMTT(20), <1>0, <1>1, <1>a, <1>c, <2>1, Read_nc DEF Lengths
<1>2. CASE read("c0")
  <2>1. Len(inbox'["c0"]) = 0 /\ Len(send'["nc"]) \in Nat
        /\ Len(send'["nc"]) <= Len(send["nc"]) + Len(inbox["c0"])
    BY <1>2, <1>a, <1>c, Read_c0
  <2>2. QED
    BY SMTT(20), <1>0, <1>2, <1>a, <1>c, <2>1, Read_c0 DEF Lengths
<1>3. CASE write_nc
  BY <1>0, <1>3, Typed, Assoc DEF write_nc, Lengths, Shape
<1>4. CASE write("c0")
  <2>1. PICK p, q \in Seq(Nat) : /\ send["c0"] = p \o q /\ send'["c0"] = q
                                 /\ inbox'["c1"] = inbox["c1"] \o p /\ Len(inbox["c1"]) + Len(p) <= Room
    BY Zenon, <1>4, Write_c0
  <2>2. /\ Len(send["c0"]) = Len(p) + Len(q) /\ Len(send'["c0"]) = Len(q) /\ Len(p) \in Nat /\ Len(q) \in Nat
        /\ Len(inbox'["c1"]) = Len(inbox["c1"]) + Len(p)
    BY SMTT(20), <1>a, <2>1
  <2>3. QED
    BY <1>0, <1>4, <1>a, <1>c, <2>1, <2>2, Write_c0 DEF Lengths
<1>5. CASE write("c1")
  <2>1. PICK p, q \in Seq(Nat) : /\ send["c1"] = p \o q /\ send'["c1"] = q
                                 /\ inbox'["c0"] = inbox["c0"] \o p /\ Len(inbox["c0"]) + Len(p) <= Room
    BY Zenon, <1>5, Write_c1
  <2>2. /\ Len(send["c1"]) = Len(p) + Len(q) /\ Len(send'["c1"]) = Len(q) /\ Len(p) \in Nat /\ Len(q) \in Nat
        /\ Len(inbox'["c0"]) = Len(inbox["c0"]) + Len(p)
    BY SMTT(20), <1>a, <2>1
  <2>3. QED
    BY <1>0, <1>5, <1>a, <1>c, <2>1, <2>2, Write_c1 DEF Lengths
<1>6. CASE read_c1 \/ poll_c1
  <2>1. PICK n \in Nat : said' = said + n /\ send'["c1"] = send["c1"] \o [i \in 1 .. n |-> said + i]
    BY Zenon, <1>6, Handling
  <2>2. Len(send'["c1"]) = Len(send["c1"]) + n
    BY <1>0, <1>a, <2>1, CountMore
  <2>3. \/ got' = got \o inbox["c1"] /\ inbox'["c1"] = <<>>
        \/ got' = got /\ inbox'["c1"] = inbox["c1"]
    BY <1>6, Handling
  <2>4. /\ send'["nc"] = send["nc"] /\ inbox'["nc"] = inbox["nc"]
        /\ send'["c0"] = send["c0"] /\ inbox'["c0"] = inbox["c0"]
        /\ up' = up /\ taken' = taken /\ out' = out
    BY <1>6, Handling
  <2>5. /\ Len(got') + Len(inbox'["c1"]) = Len(got) + Len(inbox["c1"]) /\ Len(inbox'["c1"]) <= Len(inbox["c1"])
        /\ Len(got') \in Nat /\ Len(inbox'["c1"]) \in Nat
    <3>1. CASE got' = got \o inbox["c1"] /\ inbox'["c1"] = <<>>
      BY SMTT(20), <1>a, <1>b, <3>1
    <3>2. CASE got' = got /\ inbox'["c1"] = inbox["c1"]
      BY <1>a, <1>b, <3>2
    <3>3. QED
      BY <2>3, <3>1, <3>2
  <2>6. said' = said + n
    BY <2>1
  <2>7. taken' + Len(inbox'["nc"]) <= up' /\ Len(inbox'["c0"]) <= Room /\ Len(inbox'["c1"]) <= Room
    BY <1>0, <1>a, <1>c, <2>4, <2>5 DEF Lengths
  <2>8. Len(got') + Len(inbox'["c1"]) + Len(send'["c0"]) <= taken'
    BY Zenon, <1>0, <1>a, <1>c, <2>4, <2>5 DEF Lengths
  <2>9. Len(out') + Len(send'["nc"]) + Len(inbox'["c0"]) + Len(send'["c1"]) <= said'
    BY <1>0, <1>a, <1>c, <2>2, <2>4, <2>6 DEF Lengths
  <2>10. QED
    BY Zenon, <2>7, <2>8, <2>9 DEF Lengths
<1>7. CASE client_sends
  <2>1. Len(inbox'["nc"]) = Len(inbox["nc"]) + 1
    BY <1>7, Typed DEF client_sends, Shape
  <2>2. QED
    BY <1>0, <1>7, <2>1, Typed DEF client_sends, Lengths, Shape
<1>8. CASE \/ spawn_handling_thread \/ thread_starts \/ (\E x \in Conn : write_fails(x))
           \/ CloseNc \/ CloseC0 \/ close_c1 \/ client_closes \/ OnlyMain
  <2>1. /\ \A x \in Conn : send'[x] \in {send[x], <<>>} /\ inbox'[x] \in {inbox[x], <<>>}
        /\ UNCHANGED <<up, taken, got, said, out>>
    BY <1>8, Dropping
  <2>2. ASSUME NEW x \in Conn
        PROVE  /\ Len(send'[x]) \in Nat /\ Len(send'[x]) <= Len(send[x])
               /\ Len(inbox'[x]) \in Nat /\ Len(inbox'[x]) <= Len(inbox[x])
    <3>1. /\ Len(send'[x]) \in Nat /\ Len(send'[x]) <= Len(send[x])
      <4>1. CASE send'[x] = send[x]
        BY <1>a, <4>1
      <4>2. CASE send'[x] = <<>>
        BY <1>a, <4>2
      <4>3. QED
        BY <2>1, <4>1, <4>2
    <3>2. /\ Len(inbox'[x]) \in Nat /\ Len(inbox'[x]) <= Len(inbox[x])
      <4>1. CASE inbox'[x] = inbox[x]
        BY <1>a, <4>1
      <4>2. CASE inbox'[x] = <<>>
        BY <1>a, <4>2
      <4>3. QED
        BY <2>1, <4>1, <4>2
    <3>3. QED
      BY <3>1, <3>2
  <2>3. up' = up /\ taken' = taken /\ got' = got /\ said' = said /\ out' = out
    BY <2>1
  <2>4. taken' + Len(inbox'["nc"]) <= up'
    BY <1>0, <1>a, <1>c, <2>2, <2>3 DEF Lengths
  <2>8. Len(inbox'["c0"]) <= Room /\ Len(inbox'["c1"]) <= Room
    <3>1. Len(inbox["c0"]) <= Room /\ Len(inbox["c1"]) <= Room
      BY DEF Lengths
    <3>2. /\ Len(inbox'["c0"]) \in Nat /\ Len(inbox'["c0"]) <= Len(inbox["c0"])
          /\ Len(inbox'["c1"]) \in Nat /\ Len(inbox'["c1"]) <= Len(inbox["c1"])
      BY <2>2
    <3>3. QED
      BY SMTT(20), <1>0, <1>a, <1>c, <3>1, <3>2
  <2>5. Len(got') + Len(inbox'["c1"]) + Len(send'["c0"]) <= taken'
    BY <1>0, <1>a, <1>c, <2>2, <2>3 DEF Lengths
  <2>6. Len(out') + Len(send'["nc"]) + Len(inbox'["c0"]) + Len(send'["c1"]) <= said'
    BY <1>0, <1>a, <1>c, <2>2, <2>3 DEF Lengths
  <2>7. QED
    BY Zenon, <2>4, <2>5, <2>6, <2>8 DEF Lengths
<1>9. QED
  BY <1>1, <1>2, <1>3, <1>4, <1>5, <1>6, <1>7, <1>8, Steps

\* What the steps of the two loops do to the flags of c0 and to the end of the
\* stream it sees.
LEMMA EndsStep == Shape /\ Before /\ Links /\ Lengths /\ Ends /\ [Next]_vars => Ends'
<1> SUFFICES ASSUME Shape, Before, Links, Lengths, Ends, [Next]_vars PROVE Ends'
  OBVIOUS
<1> USE DEF Conn
<1>0. up \in Nat /\ taken \in Nat /\ said \in Nat /\ inbox["nc"] \in Seq(Nat)
  BY ThreadsAssumption DEF Shape
<1>1. CASE spawn_handling_thread
  BY <1>1 DEF spawn_handling_thread, Before, Ends
<1>2. CASE thread_starts \/ OnlyMain
  BY Zenon, <1>2 DEF thread_starts, OnlyMain, Ends
<1>3. CASE client_closes
  <2>1. fin'["c0"] = fin["c0"]
    BY Zenon, <1>3 DEF client_closes, Shape
  <2>2. QED
    BY <1>3, <2>1 DEF client_closes, Ends
<1>4. CASE read("nc")
  <2>1. flags'["c0"] = flags["c0"]
    BY Zenon, <1>4 DEF read, Shape
  <2>2. ~lost /\ st["nc"] = "open" => inbox'["nc"] = [i \in 1 .. up' - taken' |-> taken' + i]
    <3>1. SUFFICES ASSUME ~lost, st["nc"] = "open"
                   PROVE  up' - taken' = 0 /\ inbox'["nc"] = <<>>
      OBVIOUS
    <3>2. up - taken \in Nat /\ inbox["nc"] = [i \in 1 .. up - taken |-> taken + i]
      BY <1>0, <3>1 DEF Ends, Lengths
    <3>3. Len(inbox["nc"]) = up - taken
      BY <1>0, <3>2
    <3>4. QED
      BY <1>0, <1>4, <3>3, Read_nc
  <2>3. UNCHANGED <<st, fin, thread, lost>> /\ inbox'["c0"] = inbox["c0"]
    BY Zenon, <1>4, Read_nc
  <2>4. QED
    BY Zenon, <2>1, <2>2, <2>3 DEF Ends
<1>5. CASE read("c0")
  <2>1. flags'["c0"] = IF fin["c0"] THEN flags["c0"] \cup {"CLOSE_IMMEDIATELY"} ELSE flags["c0"]
    BY Zenon, <1>5 DEF read, flagged_at_end, Shape
  <2>2. UNCHANGED <<st, fin, thread, lost, up, taken>> /\ inbox'["c0"] = <<>> /\ inbox'["nc"] = inbox["nc"]
    BY Zenon, <1>5, Read_c0
  <2>3. QED
    BY <2>1, <2>2 DEF Ends
<1>6. CASE write_nc
  BY Zenon, <1>6 DEF write_nc, Ends
<1>7. CASE write("c0")
  BY Zenon, <1>7, Write_c0 DEF Ends
<1>8. CASE write("c1")
  <2>1. thread = "polls"
    BY <1>8 DEF write, works, runs
  <2>2. ~fin["c0"]
    BY Zenon, <2>1 DEF Ends
  <2>3. QED
    BY Zenon, <1>8, <2>2, Write_c1 DEF Ends
<1>9. CASE \E x \in Conn : write_fails(x)
  <2>1. PICK x \in Conn : write_fails(x)
    BY <1>9
  <2>2. flags'["c0"] \in {flags["c0"], flags["c0"] \cup {"CLOSE_IMMEDIATELY"}}
    <3>1. flags' = flags \/ flags' = [flags EXCEPT ![x] = @ \cup {"CLOSE_IMMEDIATELY"}]
      BY <2>1, Zenon DEF write_fails
    <3>2. QED
      BY Zenon, <3>1 DEF Shape
  <2>3. UNCHANGED <<st, fin, thread>> /\ lost'
    BY Zenon, <2>1 DEF write_fails
  <2>4. QED
    BY <2>2, <2>3 DEF Ends
<1>10. CASE read_c1 \/ poll_c1
  <2>1. UNCHANGED <<st, fin, thread, lost, up, taken>> /\ flags'["c0"] = flags["c0"]
        /\ inbox'["c0"] = inbox["c0"] /\ inbox'["nc"] = inbox["nc"]
    BY Zenon, <1>10, Handling
  <2>2. QED
    BY Zenon, <2>1 DEF Ends
<1>11. CASE CloseNc
  <2>1. st'["nc"] = "closed" /\ st'["c0"] = st["c0"] /\ st'["c1"] = st["c1"] /\ inbox'["c0"] = inbox["c0"]
        /\ UNCHANGED <<fin, thread, lost>>
    BY Zenon, <1>11 DEF CloseNc, close_nc, Shape
  <2>2. flags'["c0"] \subseteq flags["c0"] \cup {"SEND_AND_CLOSE"}
    BY Zenon, <1>11 DEF CloseNc, close_nc, unlink_conns, Shape
  <2>3. QED
    BY Zenon, <2>1, <2>2 DEF Ends
<1>12. CASE CloseC0
  <2>1. PICK cut \in BOOLEAN : close_c0(cut) /\ (cut \/ to_be_closed("c0"))
    BY <1>12, Zenon DEF CloseC0
  <2>2. /\ fin'["c0"] = fin["c0"] /\ inbox'["c0"] = <<>> /\ inbox'["nc"] = inbox["nc"]
        /\ ~lost' => ~lost /\ ~cut
    BY Zenon, <2>1, CloseSocket DEF close_c0, Far
  <2>3. st'["c0"] = "closed" /\ st'["nc"] = st["nc"] /\ st'["c1"] = st["c1"] /\ UNCHANGED <<thread, up, taken>>
    BY Zenon, <2>1 DEF close_c0, Shape
  <2>4. flags'["c0"] = flags["c0"]
    BY Zenon, <1>12, <2>1 DEF CloseC0, close_c0, unlink_conns, Links, Peer, Shape
  <2>5. ~lost' /\ st'["nc"] = "open" => thread' = "done"
    BY Zenon, <2>1, <2>2, <2>3 DEF to_be_closed, Ends
  <2>6. QED
    BY <2>2, <2>3, <2>4, <2>5 DEF Ends
<1>13. CASE close_c1
  <2>1. inbox'["nc"] = inbox["nc"] /\ (~lost' => ~lost /\ inbox'["c0"] = inbox["c0"])
    BY <1>13, CloseSocket, Zenon DEF close_c1, Far
  <2>2. fin'["c0"] = TRUE
    BY Zenon, <1>13 DEF close_c1, closesocket, Far, Shape
  <2>3. st'["c1"] = "closed" /\ st'["nc"] = st["nc"] /\ st'["c0"] = st["c0"] /\ thread' = "done"
        /\ UNCHANGED <<flags, up, taken>>
    BY <1>13 DEF close_c1, Shape
  <2>4. QED
    BY <2>1, <2>2, <2>3 DEF Ends
<1>14. CASE client_sends
  <2>1. /\ inbox'["c0"] = inbox["c0"] /\ inbox'["nc"] = Append(inbox["nc"], up + 1)
        /\ up' = up + 1 /\ UNCHANGED <<st, flags, fin, thread, lost, taken>>
    BY Zenon, <1>14 DEF client_sends, Shape
  <2>2. ~lost /\ st["nc"] = "open" => inbox'["nc"] = [i \in 1 .. up' - taken' |-> taken' + i]
    <3>1. SUFFICES ASSUME ~lost, st["nc"] = "open"
                   PROVE  inbox'["nc"] = [i \in 1 .. up' - taken' |-> taken' + i]
      OBVIOUS
    <3>2. up - taken \in Nat /\ inbox["nc"] = [i \in 1 .. up - taken |-> taken + i]
      BY <1>0, <3>1 DEF Ends, Lengths
    <3>3. ASSUME NEW k \in Nat PROVE Append([i \in 1 .. k |-> taken + i], taken + k + 1) = [i \in 1 .. k + 1 |-> taken + i]
      BY <1>0
    <3>4. QED
      BY <1>0, <2>1, <3>2, <3>3
  <2>3. QED
    BY Zenon, <2>1, <2>2 DEF Ends
<1>15. QED
  BY Zenon, <1>1, <1>2, <1>3, <1>4, <1>5, <1>6, <1>7, <1>8, <1>9, <1>10, <1>11, <1>12, <1>13, <1>14, Steps

-----------------------------------------------------------------------------
(* The two streams *)

\* From the client to the handler in the thread, and back.
Up == ~lost /\ thread # "done" => (got \o inbox["c1"]) \o send["c0"] = Count(taken)
Down == ~lost /\ st["nc"] = "open" => ((out \o send["nc"]) \o inbox["c0"]) \o send["c1"] = Count(said)

\* Steps keep the stream from the client whole and in order.
LEMMA UpStep == Inv /\ Up /\ [Next]_vars => Up'
<1> SUFFICES ASSUME Inv, Up, [Next]_vars, ~lost', thread' # "done"
             PROVE  (got' \o inbox'["c1"]) \o send'["c0"] = Count(taken')
  BY Zenon DEF Up
<1> USE DEF Conn
<1>a. Shape /\ Before /\ Links /\ Ends
  BY Zenon DEF Inv
<1>b. /\ got \in Seq(Nat) /\ inbox["c1"] \in Seq(Nat) /\ send["c0"] \in Seq(Nat) /\ inbox["nc"] \in Seq(Nat)
      /\ taken \in Nat /\ up \in Nat
  BY <1>a, ThreadsAssumption DEF Shape
<1>1. ASSUME ~lost, thread # "done", got' \o inbox'["c1"] = got \o inbox["c1"],
             UNCHANGED <<send["c0"], taken>>
      PROVE  (got' \o inbox'["c1"]) \o send'["c0"] = Count(taken')
  BY Zenon, <1>1 DEF Up, Count
<1>2. CASE spawn_handling_thread
  BY Zenon, <1>1, <1>2, <1>a DEF spawn_handling_thread, Before
<1>3. CASE thread_starts \/ client_closes \/ OnlyMain \/ write_nc
  <2>1. UNCHANGED <<got, inbox, taken, lost>> /\ thread # "done" /\ send'["c0"] = send["c0"]
    BY Zenon, <1>3, <1>a DEF thread_starts, client_closes, OnlyMain, write_nc, Shape
  <2>2. QED
    BY Zenon, <1>1, <2>1
<1>4. CASE read("nc")
  <2>1. st["nc"] = "open" /\ ~lost /\ thread # "done"
    BY Zenon, <1>4, <1>a, Read_nc DEF read, works, runs
  <2>2. st["c0"] = "open"
    BY <1>a, <2>1 DEF Ends, Links, Shape
  <2>3. /\ send'["c0"] = send["c0"] \o inbox["nc"] /\ inbox'["c1"] = inbox["c1"] /\ got' = got
        /\ taken' = taken + Len(inbox["nc"])
    BY Zenon, <1>4, <1>a, <2>2, Read_nc
  <2>4. up - taken \in Nat /\ inbox["nc"] = [i \in 1 .. up - taken |-> taken + i]
    BY <1>a, <1>b, <2>1 DEF Inv, Ends, Lengths
  <2>5. PICK n \in Nat : n = up - taken /\ inbox["nc"] = [i \in 1 .. n |-> taken + i]
    BY <2>4
  <2>6. Len(inbox["nc"]) = n /\ Count(taken) \o inbox["nc"] = Count(taken + n)
    BY Zenon, <1>b, <2>5, CountMore
  <2>7. (got \o inbox["c1"]) \o send["c0"] = Count(taken)
    BY Zenon, <2>1 DEF Up
  <2>8. (got \o inbox["c1"]) \o (send["c0"] \o inbox["nc"]) = ((got \o inbox["c1"]) \o send["c0"]) \o inbox["nc"]
    <3>1. Regroup(got, inbox["c1"], send["c0"], inbox["nc"])
      BY <1>b, Regrouped
    <3>2. QED
      BY <3>1, Zenon DEF Regroup
  <2>9. QED
    BY <2>3, <2>6, <2>7, <2>8
<1>5. CASE read("c0")
  <2>1. UNCHANGED <<got, lost, thread, taken>> /\ inbox'["c1"] = inbox["c1"] /\ send'["c0"] = send["c0"]
    BY Zenon, <1>5, <1>a, Read_c0
  <2>2. QED
    BY Zenon, <1>1, <2>1
<1>6. CASE write("c0")
  <2>1. PICK p, q \in Seq(Nat) : send["c0"] = p \o q /\ send'["c0"] = q /\ inbox'["c1"] = inbox["c1"] \o p
    BY Zenon, <1>6, <1>a, Write_c0
  <2>2. UNCHANGED <<got, lost, thread, taken>>
    BY <1>6, <1>a, Write_c0
  <2>3. (got \o (inbox["c1"] \o p)) \o q = (got \o inbox["c1"]) \o (p \o q)
    <3>1. Regroup(got, inbox["c1"], p, q)
      BY Zenon, <1>b, Regrouped
    <3>2. QED
      BY <3>1, Zenon DEF Regroup
  <2>4. QED
    BY Zenon, <2>1, <2>2, <2>3 DEF Up, Count
<1>7. CASE write("c1")
  <2>1. UNCHANGED <<got, lost, thread, taken>> /\ inbox'["c1"] = inbox["c1"] /\ send'["c0"] = send["c0"]
    BY Zenon, <1>7, <1>a, Write_c1
  <2>2. QED
    BY Zenon, <1>1, <2>1
<1>8. CASE \E x \in Conn : write_fails(x)
  BY <1>8 DEF write_fails
<1>9. CASE read_c1 \/ poll_c1
  <2>1. \/ got' = got \o inbox["c1"] /\ inbox'["c1"] = <<>>
        \/ got' = got /\ inbox'["c1"] = inbox["c1"]
    BY <1>9, <1>a, Handling
  <2>2. got' \o inbox'["c1"] = got \o inbox["c1"]
    <3>1. (got \o inbox["c1"]) \o <<>> = got \o inbox["c1"]
      <4>1. Regroup(got, inbox["c1"], got, got)
        BY Zenon, <1>b, Regrouped
      <4>2. QED
        BY <4>1, Zenon DEF Regroup
    <3>2. QED
      BY <3>1, <2>1, Zenon
  <2>3. UNCHANGED <<lost, thread, taken>> /\ send'["c0"] = send["c0"]
    BY Zenon, <1>9, <1>a, Handling
  <2>4. QED
    BY Zenon, <1>1, <2>2, <2>3
<1>10. CASE CloseNc
  <2>1. UNCHANGED <<got, lost, thread, taken>> /\ inbox'["c1"] = inbox["c1"] /\ send'["c0"] = send["c0"]
    BY Zenon, <1>10, <1>a DEF CloseNc, close_nc, Shape
  <2>2. QED
    BY Zenon, <1>1, <2>1
<1>11. CASE CloseC0
  <2>1. PICK cut \in BOOLEAN : close_c0(cut) /\ (cut \/ to_be_closed("c0"))
    BY <1>11, Zenon DEF CloseC0
  <2>2. inbox'["c1"] = inbox["c1"] /\ ~lost /\ ~cut
    BY Zenon, <1>a, <2>1, CloseSocket DEF close_c0, Far
  <2>3. UNCHANGED <<got, thread, taken>> /\ send'["c0"] = <<>>
    BY Zenon, <1>a, <2>1 DEF close_c0, Shape
  <2>4. send["c0"] = <<>>
    BY Zenon, <1>a, <2>1, <2>2, <2>3 DEF to_be_closed, Ends
  <2>5. QED
    BY Zenon, <1>1, <2>2, <2>3, <2>4
<1>12. CASE close_c1
  BY <1>12 DEF close_c1
<1>13. CASE client_sends
  <2>1. UNCHANGED <<got, lost, thread, taken, send>> /\ inbox'["c1"] = inbox["c1"]
    BY <1>13, <1>a DEF client_sends, Shape
  <2>2. QED
    BY Zenon, <1>1, <2>1
<1>14. QED
  BY <1>2, <1>3, <1>4, <1>5, <1>6, <1>7, <1>8, <1>9, <1>10, <1>11, <1>12, <1>13, <1>a, Steps, Zenon

\* Steps keep the stream to the client whole and in order.
LEMMA DownStep == Inv /\ Down /\ [Next]_vars => Down'
<1> SUFFICES ASSUME Inv, Down, [Next]_vars, ~lost', st'["nc"] = "open"
             PROVE  ((out' \o send'["nc"]) \o inbox'["c0"]) \o send'["c1"] = Count(said')
  BY Zenon DEF Down
<1> USE DEF Conn
<1>a. Shape /\ Before /\ Links /\ Ends
  BY Zenon DEF Inv
<1>b. /\ out \in Seq(Nat) /\ send["nc"] \in Seq(Nat) /\ inbox["c0"] \in Seq(Nat) /\ send["c1"] \in Seq(Nat)
      /\ said \in Nat
  BY <1>a, ThreadsAssumption DEF Shape
<1>c. out \o send["nc"] \in Seq(Nat)
  BY <1>b, Assoc
<1>1. ASSUME ~lost, st["nc"] = "open", UNCHANGED <<send["c1"], said>>,
             (out' \o send'["nc"]) \o inbox'["c0"] = (out \o send["nc"]) \o inbox["c0"]
      PROVE  ((out' \o send'["nc"]) \o inbox'["c0"]) \o send'["c1"] = Count(said')
  BY Zenon, <1>1 DEF Down, Count
<1>2. CASE spawn_handling_thread
  <2>1. /\ said' = 0 /\ out' = <<>> /\ send'["nc"] = <<>> /\ inbox'["c0"] = <<>> /\ send'["c1"] = <<>>
    BY Zenon, <1>2, <1>a DEF spawn_handling_thread, Before
  <2>2. ((<<>> \o <<>>) \o <<>>) \o <<>> = Count(0)
    BY DEF Count
  <2>3. QED
    BY Zenon, <2>1, <2>2
<1>3. CASE thread_starts \/ client_closes \/ OnlyMain
  <2>1. UNCHANGED <<out, inbox, send, said, lost, st>>
    BY <1>3 DEF thread_starts, client_closes, OnlyMain
  <2>2. QED
    BY Zenon, <1>1, <2>1
<1>4. CASE read("nc")
  <2>1. UNCHANGED <<out, lost, st, said>> /\ inbox'["c0"] = inbox["c0"]
        /\ send'["nc"] = send["nc"] /\ send'["c1"] = send["c1"]
    BY <1>4, <1>a, Read_nc
  <2>2. QED
    BY Zenon, <1>1, <2>1
<1>5. CASE read("c0")
  <2>1. UNCHANGED <<out, lost, st, said>> /\ inbox'["c0"] = <<>> /\ send'["c1"] = send["c1"]
    BY <1>5, <1>a, Read_c0
  <2>2. send'["nc"] = send["nc"] \o inbox["c0"]
    BY Zenon, <1>5, <1>a, <2>1, Read_c0
  <2>3. Regroup(out, send["nc"] \o inbox["c0"], out, out) /\ Regroup(out, send["nc"], inbox["c0"], <<>>)
    <3>1. send["nc"] \o inbox["c0"] \in Seq(Nat) /\ <<>> \in Seq(Nat)
      BY <1>b, Assoc
    <3>2. QED
      BY Zenon, <3>1, <1>b, Regrouped
  <2>4. (out \o (send["nc"] \o inbox["c0"])) \o <<>> = out \o (send["nc"] \o inbox["c0"])
    BY <2>3, Zenon DEF Regroup
  <2>5. out \o (send["nc"] \o inbox["c0"]) = (out \o send["nc"]) \o inbox["c0"]
    BY <2>3, Zenon DEF Regroup
  <2>6. QED
    BY Zenon, <1>1, <2>1, <2>2, <2>4, <2>5
<1>6. CASE write_nc
  <2>1. out' = out \o send["nc"] /\ send'["nc"] = <<>> /\ send'["c1"] = send["c1"]
        /\ UNCHANGED <<lost, st, said, inbox>>
    BY Zenon, <1>6, <1>a DEF write_nc, Shape
  <2>2. Regroup(out, send["nc"], out, out)
    BY <1>b, Regrouped
  <2>3. (out \o send["nc"]) \o <<>> = out \o send["nc"]
    BY <2>2, Zenon DEF Regroup
  <2>4. QED
    BY Zenon, <1>1, <2>1, <2>3
<1>7. CASE write("c0")
  <2>1. UNCHANGED <<out, lost, st, said>> /\ inbox'["c0"] = inbox["c0"]
        /\ send'["nc"] = send["nc"] /\ send'["c1"] = send["c1"]
    BY <1>7, <1>a, Write_c0
  <2>2. QED
    BY Zenon, <1>1, <2>1
<1>8. CASE write("c1")
  <2>1. PICK p, q \in Seq(Nat) : send["c1"] = p \o q /\ send'["c1"] = q /\ inbox'["c0"] = inbox["c0"] \o p
    BY Zenon, <1>8, <1>a, Write_c1
  <2>2. UNCHANGED <<out, lost, st, said>> /\ send'["nc"] = send["nc"]
    BY <1>8, <1>a, Write_c1
  <2>3. Regroup(out \o send["nc"], inbox["c0"], p, q)
    BY Zenon, <1>b, <1>c, Regrouped
  <2>4. ((out \o send["nc"]) \o (inbox["c0"] \o p)) \o q = ((out \o send["nc"]) \o inbox["c0"]) \o (p \o q)
    BY <2>3, Zenon DEF Regroup
  <2>5. QED
    BY Zenon, <2>1, <2>2, <2>4 DEF Down, Count
<1>9. CASE \E x \in Conn : write_fails(x)
  BY <1>9 DEF write_fails
<1>10. CASE read_c1 \/ poll_c1
  <2>1. PICK n \in Nat : said' = said + n /\ send'["c1"] = send["c1"] \o [i \in 1 .. n |-> said + i]
    BY Zenon, <1>10, <1>a, Handling
  <2>2. UNCHANGED <<out, lost, st>> /\ send'["nc"] = send["nc"] /\ inbox'["c0"] = inbox["c0"]
    BY <1>10, <1>a, Handling
  <2>3. PICK m \in Seq(Nat) : m = [i \in 1 .. n |-> said + i] /\ Count(said) \o m = Count(said + n)
    BY Zenon, <1>b, CountMore
  <2>4. Regroup(out \o send["nc"], inbox["c0"], send["c1"], m)
    BY Zenon, <1>b, <1>c, Regrouped
  <2>5. ((out \o send["nc"]) \o inbox["c0"]) \o (send["c1"] \o m)
           = (((out \o send["nc"]) \o inbox["c0"]) \o send["c1"]) \o m
    BY <2>4, Zenon DEF Regroup
  <2>6. ((out \o send["nc"]) \o inbox["c0"]) \o send["c1"] = Count(said)
    BY Zenon, <2>2 DEF Down
  <2>7. QED
    BY Zenon, <2>1, <2>2, <2>3, <2>5, <2>6
<1>11. CASE CloseNc
  BY <1>11, <1>a DEF CloseNc, close_nc, Shape
<1>12. CASE CloseC0
  <2>1. PICK cut \in BOOLEAN : close_c0(cut) /\ (cut \/ to_be_closed("c0"))
    BY <1>12, Zenon DEF CloseC0
  <2>2. inbox'["c0"] = <<>> /\ ~lost /\ ~cut
    BY Zenon, <1>a, <2>1, CloseSocket DEF close_c0, Far
  <2>3. UNCHANGED <<out, said>> /\ send'["nc"] = send["nc"] /\ send'["c1"] = send["c1"]
        /\ st["nc"] = "open"
    BY Zenon, <1>a, <2>1 DEF close_c0, Shape
  <2>4. inbox["c0"] = <<>>
    BY <1>a, <2>1, <2>2, <2>3 DEF to_be_closed, Ends
  <2>5. QED
    BY Zenon, <1>1, <2>2, <2>3, <2>4
<1>13. CASE close_c1
  <2>1. closesocket("c1", send["c1"] # <<>>)
    BY <1>13 DEF close_c1
  <2>2. inbox'["c0"] = inbox["c0"] /\ ~lost /\ send["c1"] = <<>>
    BY Zenon, <1>a, <2>1, CloseSocket DEF Far
  <2>3. UNCHANGED <<out, said>> /\ send'["nc"] = send["nc"] /\ send'["c1"] = <<>> /\ st["nc"] = "open"
    BY <1>13, <1>a DEF close_c1, Shape
  <2>4. QED
    BY Zenon, <1>1, <2>2, <2>3
<1>14. CASE client_sends
  <2>1. UNCHANGED <<out, lost, st, said, send>> /\ inbox'["c0"] = inbox["c0"]
    BY <1>14, <1>a DEF client_sends, Shape
  <2>2. QED
    BY Zenon, <1>1, <2>1
<1>15. QED
  BY <1>2, <1>3, <1>4, <1>5, <1>6, <1>7, <1>8, <1>9, <1>10, <1>11, <1>12, <1>13, <1>14, <1>a, Steps, Zenon

-----------------------------------------------------------------------------

\* The threads of ns_enable_multithreading() keep the links, the lengths, the
\* order of the endings and both streams, whatever the bounds.
THEOREM RelayInvariance == Spec => [](Inv /\ Up /\ Down)
<1>1. Init => Inv /\ Up /\ Down
  <2> SUFFICES ASSUME Init
               PROVE  Inv /\ Up /\ Down
    OBVIOUS
  <2> USE ThreadsAssumption DEF Init, Conn
  <2>1. Shape
    <3>1. fin \in [Conn -> BOOLEAN] /\ lost \in BOOLEAN
      BY Zenon
    <3>2. send \in [Conn -> Seq(Nat)] /\ inbox \in [Conn -> Seq(Nat)] /\ got \in Seq(Nat) /\ out \in Seq(Nat)
      OBVIOUS
    <3>3. st \in [Conn -> {"none", "open", "closed"}] /\ priv_2 \in [Conn -> {"nc", "c0", "null"}]
          /\ flags \in [Conn -> SUBSET {"SEND_AND_CLOSE", "CLOSE_IMMEDIATELY"}]
      BY Zenon
    <3>4. up \in 0 .. MaxUp /\ taken \in Nat /\ said \in 0 .. MaxDown
      OBVIOUS
    <3>5. QED
      BY <3>1, <3>2, <3>3, <3>4, Zenon DEF Shape
  <2>2. Before
    BY Zenon DEF Before
  <2>3. Links
    BY DEF Links, Peer
  <2>4. Lengths
    BY DEF Lengths
  <2>5. Ends
    BY DEF Ends
  <2>6. Up
    BY DEF Up, Count
  <2>7. Down
    BY DEF Down
  <2>8. QED
    BY Zenon, <2>1, <2>2, <2>3, <2>4, <2>5, <2>6, <2>7 DEF Inv
<1>2. Inv /\ Up /\ Down /\ [Next]_vars => (Inv /\ Up /\ Down)'
  <2> SUFFICES ASSUME Inv, Up, Down, [Next]_vars
               PROVE  (Inv /\ Up /\ Down)'
    OBVIOUS
  <2>1. Inv'
    BY ShapeStep, LinksStep, LengthsStep, EndsStep, Zenon DEF Inv
  <2>2. QED
    BY <2>1, UpStep, DownStep, Zenon
<1>3. QED
  BY <1>1, <1>2, PTL DEF Spec

\* Linked always holds: no pointer to a freed peer, whichever connection
\* ns_close_conn() takes first, and who is left alone closes.
THEOREM LinkedAlways == Spec => []Linked
<1>1. Inv => Linked
  <2> SUFFICES ASSUME Inv
               PROVE  Linked
    OBVIOUS
  <2> USE DEF Conn
  <2>a. Shape /\ Links /\ Lengths
    BY DEF Inv
  <2>b. send \in [Conn -> Seq(Nat)] /\ inbox \in [Conn -> Seq(Nat)] /\ Len(got) \in Nat /\ Len(out) \in Nat
        /\ MaxUp \in Nat /\ MaxDown \in Nat /\ Room \in Nat
        /\ up \in 0 .. MaxUp /\ taken \in Nat /\ said \in 0 .. MaxDown
    BY <2>a, ThreadsAssumption DEF Shape
  <2>1. taken \in 0 .. up /\ Len(inbox["nc"]) <= MaxUp
    BY SMTT(20), <2>a, <2>b DEF Lengths
  <2>2. Len(inbox["c0"]) <= Room /\ Len(inbox["c1"]) <= Room
    BY <2>a DEF Lengths
  <2>3. Len(send["c0"]) <= MaxUp + MaxDown
    BY <2>a, <2>b, <2>1 DEF Lengths
  <2>4. Len(send["nc"]) <= MaxUp + MaxDown
    BY <2>a, <2>b DEF Lengths
  <2>5. Len(send["c1"]) <= MaxUp + MaxDown
    BY <2>a, <2>b DEF Lengths
  <2>6. TypeOK
    BY Zenon, <2>a, <2>1, <2>2, <2>3, <2>4, <2>5 DEF TypeOK, Shape
  <2>7. \A x \in Conn : priv_2[x] # "null" => st[priv_2[x]] = "open" /\ priv_2[priv_2[x]] = x
    BY Zenon, <2>a DEF Links, Peer
  <2>8. \A x \in {"nc", "c0"} : st[x] = "open" /\ priv_2[x] = "null" => flags[x] # {}
    BY <2>a DEF Links, Peer
  <2>9. QED
    BY <2>6, <2>7, <2>8 DEF Linked
<1>2. QED
  BY <1>1, RelayInvariance, PTL

\* Relayed always holds: ns_forward() and the buffers of two threads lose,
\* double and reorder no byte in either direction, for any number of bytes and
\* any size of the sockets.
THEOREM RelayedAlways == Spec => []Relayed
<1>1. Up /\ Down => Relayed
  BY Zenon DEF Up, Down, Relayed
<1>2. QED
  BY <1>1, RelayInvariance, PTL

=============================================================================
