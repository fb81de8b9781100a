------------------------------ MODULE Lifecycle ------------------------------
(***************************************************************************)
(* What the event manager promises the application about one connection:   *)
(* which events its handler sees, in which order, and when the memory of   *)
(* the connection goes away.  Nothing here knows about sockets, buffers,   *)
(* polling or the list of connections; module EventLoop implements it.     *)
(*                                                                         *)
(*   client   made by ns_connect()                                         *)
(*   server   accept()-ed on a plain listener                              *)
(*   tls      accept()-ed on an SSL listener                               *)
(*   sock     made by ns_bind() or ns_add_sock()                           *)
(***************************************************************************)
EXTENDS Sequences

CONSTANT Conn

VARIABLES
    kind,   \* what each memory block holds: a connection, or nothing ("free")
    evts    \* the events the handler of that connection has seen

vars == <<kind, evts>>

Kind == {"client", "server", "tls", "sock"}

\* NS_POLL, NS_RECV and NS_SEND are one event here; runs of it are one entry.
Event == {"CONNECT_OK", "CONNECT_ERR", "ACCEPT", "IO", "CLOSE"}

Log(s, e) == IF e = "IO" /\ s # <<>> /\ s[Len(s)] = "IO" THEN s ELSE Append(s, e)

Has(s, e) == \E i \in DOMAIN s : s[i] = e

\* What the handler may already have seen when a connection is created: an
\* accepted plain connection is announced at once, an SSL one whose session
\* cannot be set up is closed at once.
FirstEvents(k) == CASE k = "server" -> {<<"ACCEPT">>}
                    [] k = "tls"    -> {<<>>, <<"CLOSE">>}
                    [] OTHER        -> {<<>>}

\* The events a live connection of kind k that has seen s may see next.
MayFollow(k, s, e) ==
    /\ ~Has(s, "CLOSE")
    /\ CASE k = "client" -> IF s = <<>> THEN e \in {"CONNECT_OK", "CONNECT_ERR"}
                            ELSE s[1] = "CONNECT_OK" /\ e \in {"IO", "CLOSE"}
         [] k = "tls"    -> e \in {"IO", "CLOSE"} \/ (e = "ACCEPT" /\ ~Has(s, "ACCEPT"))
         [] OTHER        -> e \in {"IO", "CLOSE"}

\* A connection may be freed once its handler knows; only a client whose
\* connect() never succeeded goes without NS_CLOSE.
MayFree(k, s) == Has(s, "CLOSE") \/ (k = "client" /\ s \in {<<>>, <<"CONNECT_ERR">>})

Init ==
    /\ kind = [c \in Conn |-> "free"]
    /\ evts = [c \in Conn |-> <<>>]

Open(c) ==
    /\ kind[c] = "free"
    /\ \E k \in Kind : \E s \in FirstEvents(k) :
           /\ kind' = [kind EXCEPT ![c] = k]
           /\ evts' = [evts EXCEPT ![c] = s]

Notify(c) ==
    /\ kind[c] # "free"
    /\ \E e \in Event :
           /\ MayFollow(kind[c], evts[c], e)
           /\ evts' = [evts EXCEPT ![c] = Log(@, e)]
    /\ UNCHANGED kind

Free(c) ==
    /\ kind[c] # "free"
    /\ MayFree(kind[c], evts[c])
    /\ kind' = [kind EXCEPT ![c] = "free"]
    /\ evts' = [evts EXCEPT ![c] = <<>>]

Next == \E c \in Conn : Open(c) \/ Notify(c) \/ Free(c)

Spec == Init /\ [][Next]_vars

=============================================================================
