--------------------------- MODULE Multithreading ---------------------------
(***************************************************************************)
(* ns_enable_multithreading(): a client's connection nc is handled by a    *)
(* thread of its own.  The main thread keeps nc and one end c0 of a socket *)
(* pair and copies bytes between them; the other end c1 looks like nc to   *)
(* the user's handler, in a manager on the new thread's stack.             *)
(*                                                                         *)
(* One accepted connection, in the select() build (ns_add_sock() on the    *)
(* dummy manager needs a ns_ev_mgr_add_conn() that does nothing).  The     *)
(* loop of each thread is reduced to its steps on one connection, taken in *)
(* any order; EventLoop has the loop.                                      *)
(***************************************************************************)
EXTENDS Integers, Sequences

CONSTANTS
    MaxUp,      \* bound: bytes the client sends
    MaxDown,    \* bound: bytes the user's handler sends
    Room        \* bytes a socket of the pair can hold

ASSUME ThreadsAssumption == MaxUp \in Nat /\ MaxDown \in Nat /\ Room \in Nat \ {0}

VARIABLES
    st,         \* per connection: "none", "open", "closed"
    flags,
    send,       \* send_mbuf
    priv_2,     \* the linked connection, or "null"
    inbox,      \* what waits in the connection's socket
    fin,        \* the other side of the socket is closed
    thread,     \* "none", "new" (ns_start_thread() called), "polls", "done"
    main,       \* the main manager: "polls", "frees" (in ns_mgr_free()), "gone"
    up, taken,  \* bytes the client sent, and those of them nc received
    got,        \* bytes the user's handler received
    said,       \* bytes the user's handler sent
    out,        \* bytes written to the client
    lost        \* history: the kernel, the handler or ns_mgr_free() dropped bytes

vars == <<st, flags, send, priv_2, inbox, fin, thread, main, up, taken, got, said, out, lost>>

Conn == {"nc", "c0", "c1"}
Far(x) == IF x = "c0" THEN "c1" ELSE "c0"       \* of the socket pair
Count(n) == [i \in 1 .. n |-> i]

Init ==
    /\ st = [x \in Conn |-> "none"] /\ flags = [x \in Conn |-> {}] /\ send = [x \in Conn |-> <<>>]
    /\ priv_2 = [x \in Conn |-> "null"] /\ inbox = [x \in Conn |-> <<>>] /\ fin = [x \in Conn |-> FALSE]
    /\ thread = "none" /\ main = "polls"
    /\ up = 0 /\ taken = 0 /\ got = <<>> /\ said = 0 /\ out = <<>> /\ lost = FALSE

-----------------------------------------------------------------------------
(* multithreading.c *)

link_conns(x, y) == priv_2' = [priv_2 EXCEPT ![x] = y, ![y] = x]

\* NS_ACCEPT of nc.
spawn_handling_thread ==
    /\ main = "polls" /\ st["nc"] = "none"
    /\ st' = [x \in Conn |-> "open"]
    /\ link_conns("c0", "nc")
    /\ thread' = "new"
    /\ UNCHANGED <<flags, send, inbox, fin, main, up, taken, got, said, out, lost>>

\* per_connection_thread_function(): c1 enters the thread's manager.
thread_starts ==
    /\ thread = "new"
    /\ thread' = "polls"
    /\ UNCHANGED <<st, flags, send, priv_2, inbox, fin, main, up, taken, got, said, out, lost>>

\* Mutants: the peer is not told to close; it is closed at once.
unlink_conns_quiet(x) ==
    /\ priv_2' = [y \in Conn |-> IF y \in {x, priv_2[x]} THEN "null" ELSE priv_2[y]]
    /\ flags' = flags
unlink_conns_abrupt(x) ==
    /\ priv_2' = [y \in Conn |-> IF y \in {x, priv_2[x]} THEN "null" ELSE priv_2[y]]
    /\ flags' = [y \in Conn |-> IF y = priv_2[x] THEN flags[y] \cup {"CLOSE_IMMEDIATELY"} ELSE flags[y]]

unlink_conns(x) ==
    /\ priv_2' = [y \in Conn |-> IF y \in {x, priv_2[x]} THEN "null" ELSE priv_2[y]]
    /\ flags' = [y \in Conn |-> IF y = priv_2[x] THEN flags[y] \cup {"SEND_AND_CLOSE"} ELSE flags[y]]

\* forwarder_ev_handler() on NS_RECV; without a peer the bytes stay unused in
\* recv_mbuf.
ns_forward(x, bytes) ==
    send' = [y \in Conn |-> IF y = priv_2[x] THEN send[y] \o bytes ELSE send[y]]

-----------------------------------------------------------------------------
(* Steps of ns_mgr_poll() on one connection *)

main_runs == main = "polls"
runs(x) == st[x] = "open" /\ IF x = "c1" THEN thread = "polls" ELSE main_runs
works(x) == runs(x) /\ "CLOSE_IMMEDIATELY" \notin flags[x]

\* Mutant: the end of the stream is not noticed.
flagged_at_end_never(x, fl) == fl

\* The last lines of ns_read_from_socket(), fl being the flags so far.
flagged_at_end(x, fl) == IF fin[x] THEN fl \cup {"CLOSE_IMMEDIATELY"} ELSE fl

\* ns_read_from_socket() of nc or c0.
read(x) ==
    /\ works(x) /\ (inbox[x] # <<>> \/ fin[x])
    /\ ns_forward(x, inbox[x])
    /\ taken' = IF x = "nc" THEN taken + Len(inbox[x]) ELSE taken
    /\ inbox' = [inbox EXCEPT ![x] = <<>>]
    /\ flags' = [flags EXCEPT ![x] = flagged_at_end(x, @)]
    /\ UNCHANGED <<st, priv_2, fin, thread, main, up, got, said, out, lost>>

\* What the user's handler may do in a call: send, and ask for the end.
HandlerFlags == {{}, {"SEND_AND_CLOSE"}, {"CLOSE_IMMEDIATELY"}}
user_handler(fl) ==
    /\ \E n \in 0 .. MaxDown - said :
          /\ said' = said + n
          /\ send' = [send EXCEPT !["c1"] = @ \o [i \in 1 .. n |-> said + i]]
    /\ \E asks \in HandlerFlags : flags' = [flags EXCEPT !["c1"] = fl \cup asks]

\* ns_read_from_socket() of c1.
read_c1 ==
    /\ works("c1") /\ (inbox["c1"] # <<>> \/ fin["c1"])
    /\ got' = got \o inbox["c1"]
    /\ inbox' = [inbox EXCEPT !["c1"] = <<>>]
    /\ IF inbox["c1"] = <<>>
       THEN flags' = [flags EXCEPT !["c1"] = flagged_at_end("c1", @)] /\ UNCHANGED <<send, said>>
       ELSE user_handler(flagged_at_end("c1", flags["c1"]))
    /\ UNCHANGED <<st, priv_2, fin, thread, main, up, taken, out, lost>>

\* NS_POLL of c1.
poll_c1 ==
    /\ works("c1")
    /\ user_handler(flags["c1"])
    /\ UNCHANGED <<st, priv_2, inbox, fin, thread, main, up, taken, got, out, lost>>

\* ns_write_to_socket() of nc, to a client that reads.
write_nc ==
    /\ works("nc") /\ send["nc"] # <<>>
    /\ out' = out \o send["nc"]
    /\ send' = [send EXCEPT !["nc"] = <<>>]
    /\ UNCHANGED <<st, flags, priv_2, inbox, fin, thread, main, up, taken, got, said, lost>>

\* The same of c0 or c1: as much as the pair's socket takes.
write(x) ==
    LET y == Far(x)
        n == IF Len(send[x]) < Room - Len(inbox[y]) THEN Len(send[x]) ELSE Room - Len(inbox[y])
    IN  /\ works(x) /\ send[x] # <<>> /\ ~fin[x] /\ n > 0
        /\ inbox' = [inbox EXCEPT ![y] = @ \o SubSeq(send[x], 1, n)]
        /\ send' = [send EXCEPT ![x] = SubSeq(@, n + 1, Len(@))]
        /\ UNCHANGED <<st, flags, priv_2, fin, thread, main, up, taken, got, said, out, lost>>

\* The other end is closed: send() succeeds and causes a reset, which may
\* take unread bytes with it, or it fails.
write_fails(x) ==
    /\ works(x) /\ send[x] # <<>> /\ fin[x]
    /\ \/ send' = [send EXCEPT ![x] = <<>>] /\ UNCHANGED flags
       \/ flags' = [flags EXCEPT ![x] = @ \cup {"CLOSE_IMMEDIATELY"}] /\ UNCHANGED send
    /\ \/ UNCHANGED inbox
       \/ inbox' = [inbox EXCEPT ![x] = <<>>]
    /\ lost' = TRUE
    /\ UNCHANGED <<st, priv_2, fin, thread, main, up, taken, got, said, out>>

-----------------------------------------------------------------------------
(* Closing *)

\* closesocket() of one end of the pair; with unread bytes it is a reset,
\* which may discard what the other end has not read yet.
closesocket(x, cut) ==
    LET y == Far(x) IN
    /\ fin' = [fin EXCEPT ![y] = TRUE]
    /\ \/ inbox' = [inbox EXCEPT ![x] = <<>>] /\ lost' = (lost \/ cut)
       \/ /\ inbox[x] # <<>> /\ inbox[y] # <<>>
          /\ inbox' = [inbox EXCEPT ![x] = <<>>, ![y] = <<>>] /\ lost' = TRUE

\* The condition in the last loop of ns_mgr_poll().
to_be_closed(x) ==
    "CLOSE_IMMEDIATELY" \in flags[x] \/ (send[x] = <<>> /\ "SEND_AND_CLOSE" \in flags[x])

\* ns_close_conn() of nc: NS_CLOSE, then the memory is freed.
close_nc ==
    /\ unlink_conns("nc")
    /\ st' = [st EXCEPT !["nc"] = "closed"]
    /\ send' = [send EXCEPT !["nc"] = <<>>]
    /\ inbox' = [inbox EXCEPT !["nc"] = <<>>]
    /\ UNCHANGED <<fin, thread, up, taken, got, said, out, lost>>

\* ns_close_conn() of c0; cut: ns_mgr_free() does not wait for
\* the buffers to empty.
close_c0(cut) ==
    /\ unlink_conns("c0")
    /\ st' = [st EXCEPT !["c0"] = "closed"]
    /\ closesocket("c0", cut)
    /\ send' = [send EXCEPT !["c0"] = <<>>]
    /\ UNCHANGED <<thread, up, taken, got, said, out>>

close(x) ==
    /\ runs(x) /\ to_be_closed(x)
    /\ IF x = "nc" THEN close_nc ELSE close_c0(FALSE)
    /\ UNCHANGED main

\* ns_close_conn() of c1, after which the thread's manager is empty and the
\* thread ends.
close_c1 ==
    /\ runs("c1") /\ to_be_closed("c1")
    /\ st' = [st EXCEPT !["c1"] = "closed"]
    /\ closesocket("c1", send["c1"] # <<>>)
    /\ send' = [send EXCEPT !["c1"] = <<>>]
    /\ thread' = "done"
    /\ UNCHANGED <<flags, priv_2, main, up, taken, got, said, out>>

\* ns_mgr_free() of the main manager closes the list, newest first.
ns_mgr_free ==
    \/ /\ main = "polls" /\ st["nc"] # "none"
       /\ main' = "frees"
       /\ IF st["c0"] = "open" THEN close_c0(TRUE)
          ELSE UNCHANGED <<st, flags, send, priv_2, inbox, fin, thread, up, taken, got, said, out, lost>>
    \/ /\ main = "frees"
       /\ main' = "gone"
       /\ IF st["nc"] = "open" THEN close_nc
          ELSE UNCHANGED <<st, flags, send, priv_2, inbox, fin, thread, up, taken, got, said, out, lost>>

-----------------------------------------------------------------------------
(* The client *)

client_sends ==
    /\ st["nc"] = "open" /\ ~fin["nc"] /\ up < MaxUp
    /\ up' = up + 1
    /\ inbox' = [inbox EXCEPT !["nc"] = Append(@, up')]
    /\ UNCHANGED <<st, flags, send, priv_2, fin, thread, main, taken, got, said, out, lost>>

client_closes ==
    /\ st["nc"] = "open" /\ ~fin["nc"]
    /\ fin' = [fin EXCEPT !["nc"] = TRUE]
    /\ UNCHANGED <<st, flags, send, priv_2, inbox, thread, main, up, taken, got, said, out, lost>>

MainStep(x) == read(x) \/ write_fails(x) \/ close(x)

Next ==
    \/ spawn_handling_thread \/ thread_starts
    \/ MainStep("nc") \/ MainStep("c0") \/ write_nc \/ write("c0")
    \/ read_c1 \/ poll_c1 \/ write("c1") \/ write_fails("c1") \/ close_c1
    \/ ns_mgr_free
    \/ client_sends \/ client_closes

\* Each thread goes on polling every connection it has, so a step that stays
\* possible is taken; the user's handler returns.
Fairness ==
    /\ WF_vars(thread_starts)
    /\ \A x \in {"nc", "c0"} : WF_vars(read(x)) /\ WF_vars(close(x))
    /\ WF_vars(write_nc) /\ WF_vars(read_c1) /\ WF_vars(close_c1)
    /\ \A x \in {"c0", "c1"} : WF_vars(write(x)) /\ WF_vars(write_fails(x))
    /\ WF_vars(main = "frees" /\ ns_mgr_free)

Spec == Init /\ [][Next]_vars /\ Fairness

-----------------------------------------------------------------------------
(* Properties *)

\* Type invariant.
TypeOK ==
    /\ st \in [Conn -> {"none", "open", "closed"}]
    /\ flags \in [Conn -> SUBSET {"SEND_AND_CLOSE", "CLOSE_IMMEDIATELY"}]
    /\ \A x \in Conn : Len(send[x]) <= MaxUp + MaxDown /\ Len(inbox[x]) <= IF x = "nc" THEN MaxUp ELSE Room
    /\ priv_2 \in [Conn -> {"nc", "c0", "null"}]
    /\ thread \in {"none", "new", "polls", "done"} /\ main \in {"polls", "frees", "gone"}
    /\ up \in 0 .. MaxUp /\ taken \in 0 .. up /\ said \in 0 .. MaxDown

\* The two linked connections close in either order: a pointer to the peer is
\* never one to freed memory, and a connection that has lost its peer has been
\* told to close.  (With the type invariant.)
Linked ==
    /\ TypeOK
    /\ \A x \in Conn : priv_2[x] # "null" => st[priv_2[x]] = "open" /\ priv_2[priv_2[x]] = x
    /\ \A x \in {"nc", "c0"} : st[x] = "open" /\ priv_2[x] = "null" => flags[x] # {}

\* The handler in the thread gets the client's bytes as if it had the client's
\* connection, and the client gets the handler's: across two threads, three
\* buffers and either side's closing, none is lost, doubled or out of order,
\* unless a reset, the handler itself or ns_mgr_free() drops some.
Relayed ==
    ~lost =>
       /\ thread # "done" => got \o inbox["c1"] \o send["c0"] = Count(taken)
       /\ st["nc"] = "open" => out \o send["nc"] \o inbox["c0"] \o send["c1"] = Count(said)

\* The two sides end together: when the client's connection is gone the thread
\* comes to its end, and when the thread has ended (its side is closed) the
\* client's connection is closed.
EndTogether ==
    /\ (st["nc"] = "closed") ~> (thread = "done")
    /\ (thread = "done") ~> (st["nc"] = "closed")

=============================================================================
