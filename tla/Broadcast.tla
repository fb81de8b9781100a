------------------------------ MODULE Broadcast ------------------------------
(***************************************************************************)
(* ns_broadcast(): threads hand a message to the event loop through the    *)
(* socket pair mgr->ctl and block until the loop acknowledges; the loop    *)
(* acknowledges first and then runs the callback on every connection.      *)
(* Acknowledgements carry no name: any blocked thread may take any of      *)
(* them.  A message is named after the thread that sent it.                *)
(***************************************************************************)
EXTENDS Integers, Sequences, FiniteSets, SequencesExt

CONSTANTS
    Threads,    \* threads that call ns_broadcast()
    Conn,       \* memory blocks of connections
    None        \* no thread, no connection

ASSUME BroadcastAssumption == IsFiniteSet(Threads) /\ None \notin Threads /\ None \notin Conn

VARIABLES
    tpc,        \* "out", "send" (past the check of ctl[0]), "recv" (blocked)
    q,          \* messages waiting at ctl[1]
    acks,       \* acknowledgements waiting at ctl[0]
    io,         \* loop thread: "poll", "ack", "call"; "closed" after ns_mgr_free()
    msg,        \* the message being handled
    list,       \* mgr->active_connections, in list order
    at,         \* where the walk over the list is
    seen,       \* history: the connections the callback has been run on
    due         \* history: the connections there when the message was read

vars == <<tpc, q, acks, io, msg, list, at, seen, due>>
walk == <<msg, at, seen, due>>

Init ==
    /\ tpc = [t \in Threads |-> "out"]
    /\ q = <<>> /\ acks = 0
    /\ io = "poll" /\ msg = None /\ at = None /\ seen = <<>> /\ due = {}
    /\ list = <<>>

-----------------------------------------------------------------------------
(* The threads.  mgr->ctl[0] is read three times, unprotected. *)

\* data # NULL and len fits, and the callback is not NULL: otherwise nothing is
\* sent, or nothing is run on the connections.
begin(t) ==
    /\ tpc[t] = "out" /\ io # "closed"
    /\ tpc' = [tpc EXCEPT ![t] = "send"]
    /\ UNCHANGED <<q, acks, io, walk, list>>

\* After ns_mgr_free() both calls fail and ns_broadcast() returns.
send(t) ==
    /\ tpc[t] = "send"
    /\ IF io = "closed" THEN tpc' = [tpc EXCEPT ![t] = "out"] /\ UNCHANGED q
       ELSE tpc' = [tpc EXCEPT ![t] = "recv"] /\ q' = Append(q, t)
    /\ UNCHANGED <<acks, io, walk, list>>

recv(t) ==
    /\ tpc[t] = "recv" /\ acks > 0 /\ io # "closed"
    /\ acks' = acks - 1
    /\ tpc' = [tpc EXCEPT ![t] = "out"]
    /\ UNCHANGED <<q, io, walk, list>>

\* The socket is closed between send() and recv(): recv() fails.  (A thread
\* that is already blocked in recv() stays there: it may never take this step.)
recv_fails(t) ==
    /\ tpc[t] = "recv" /\ io = "closed"
    /\ tpc' = [tpc EXCEPT ![t] = "out"]
    /\ UNCHANGED <<q, acks, io, walk, list>>

-----------------------------------------------------------------------------
(* The loop thread. *)

\* Mutant: everything queued is taken as one message.
recv_msg_drains ==
    /\ io = "poll" /\ q # <<>>
    /\ msg' = Head(q) /\ q' = <<>>
    /\ io' = "ack"
    /\ UNCHANGED <<tpc, acks, at, seen, due, list>>

\* ns_mgr_handle_ctl_sock(): receive.
recv_msg ==
    /\ io = "poll" /\ q # <<>>
    /\ msg' = Head(q) /\ q' = Tail(q)
    /\ io' = "ack"
    /\ UNCHANGED <<tpc, acks, at, seen, due, list>>

\* Mutant: no acknowledgement when there is no connection to tell.
ack_if_any ==
    /\ io = "ack"
    /\ acks' = IF list = <<>> THEN acks ELSE acks + 1
    /\ io' = "call" /\ seen' = <<>> /\ due' = ToSet(list)
    /\ at' = IF list = <<>> THEN None ELSE Head(list)
    /\ UNCHANGED <<tpc, q, msg, list>>

\* Acknowledge, then start with the head of the list.
ack ==
    /\ io = "ack"
    /\ acks' = acks + 1
    /\ io' = "call" /\ seen' = <<>> /\ due' = ToSet(list)
    /\ at' = IF list = <<>> THEN None ELSE Head(list)
    /\ UNCHANGED <<tpc, q, msg, list>>

successor(l, c) ==
    LET i == CHOOSE i \in DOMAIN l : l[i] = c IN IF i = Len(l) THEN None ELSE l[i + 1]

\* The callback on one connection: it may open others, which go to the head.
opened(l) == {l} \cup {<<c>> \o l : c \in Conn \ ToSet(l)}

\* Mutant: the successor is taken from a position in the list, not from nc.
call_by_index ==
    /\ io = "call" /\ at # None
    /\ seen' = Append(seen, at)
    /\ list' \in opened(list)
    /\ at' = IF Len(seen') < Len(list') THEN list'[Len(seen') + 1] ELSE None
    /\ UNCHANGED <<tpc, q, acks, io, msg, due>>

call ==
    /\ io = "call" /\ at # None
    /\ seen' = Append(seen, at)
    /\ list' \in opened(list)
    /\ at' = successor(list', at)
    /\ UNCHANGED <<tpc, q, acks, io, msg, due>>

call_done ==
    /\ io = "call" /\ at = None
    /\ io' = "poll" /\ msg' = None
    /\ UNCHANGED <<tpc, q, acks, at, seen, due, list>>

\* The rest of a poll: handlers open connections, the last loop closes some.
other ==
    /\ io = "poll"
    /\ \/ list' \in opened(list)
       \/ \E i \in DOMAIN list : list' = RemoveAt(list, i)
    /\ UNCHANGED <<tpc, q, acks, io, walk>>

\* ns_mgr_free() closes the pair and forgets it, after its last poll.
free ==
    /\ io = "poll"
    /\ io' = "closed" /\ list' = <<>>
    /\ UNCHANGED <<tpc, q, acks, walk>>

Next ==
    \/ \E t \in Threads : begin(t) \/ send(t) \/ recv(t) \/ recv_fails(t)
    \/ recv_msg \/ ack \/ call \/ call_done \/ other \/ free

Spec == Init /\ [][Next]_vars

\* The loop polls for ever and callbacks return.  A thread inside the library
\* goes on.  That one that again and again could take an acknowledgement does
\* take one is an assumption on the kernel, which chooses among blocked readers.
FairSpec ==
    /\ Spec
    /\ WF_vars(recv_msg) /\ WF_vars(ack \/ call \/ call_done)
    /\ \A t \in Threads : WF_vars(send(t)) /\ SF_vars(recv(t))

-----------------------------------------------------------------------------
(* Properties *)

\* Every variable has its type.
TypeOK ==
    /\ tpc \in [Threads -> {"out", "send", "recv"}]
    /\ q \in Seq(Threads) /\ acks \in Nat
    /\ io \in {"poll", "ack", "call", "closed"}
    /\ msg \in Threads \cup {None} /\ at \in Conn \cup {None}
    /\ list \in Seq(Conn) /\ seen \in Seq(Conn) /\ due \subseteq Conn

Blocked == {t \in Threads : tpc[t] = "recv"}

\* net.c:952 and 1427.  There are exactly as many blocked threads as messages
\* unread, acknowledgements on their way and messages about to be
\* acknowledged: no thread waits for nothing, none leaves without the loop
\* having read a message for it.
AckBalance ==
    io # "closed" => Cardinality(Blocked) = Len(q) + acks + (IF io = "ack" THEN 1 ELSE 0)

\* net.c:955-957.  The walk with ns_next() runs the callback once on every
\* connection that was there, though callbacks open connections meanwhile.
OnEachOnce ==
    /\ \A i, j \in DOMAIN seen : seen[i] = seen[j] => i = j
    /\ io = "call" /\ at = None => ToSet(seen) = due

\* Every ns_broadcast() returns, and every message sent is read and its
\* callback run, unless the manager is freed meanwhile; a message read by the
\* last poll is still delivered.
Served ==
    \A t \in Threads :
       /\ tpc[t] = "recv" ~> tpc[t] = "out" \/ io = "closed"
       /\ tpc[t] = "send" ~> (msg = t /\ io = "call") \/ io = "closed"

=============================================================================
