---------------------------- MODULE MCEventLoop ----------------------------
(* EventLoop for TLC: the programs of each run, a build and a set of calls. *)
EXTENDS EventLoop, TLC

\* Memory blocks are interchangeable (used by the safety runs only).
Blocks == Permutations(Conn)

\* A program that makes three of the given calls, with n steps of its peers.
program(build, made, n) == [epoll |-> build, calls |-> made, maxapi |-> 3, maxenv |-> n]

\* Clients in both builds, with a listener in that of select(), a server with
\* two clients that may free the manager, and one with SSL that may.
LoopPrograms ==
    { program(TRUE, {"connect", "send", "DONT_SEND", "CLOSE_IMMEDIATELY"}, 2),
      program(FALSE, {"bind", "connect", "send", "consume", "DONT_SEND", "resume_send", "limit"}, 2),
      program(TRUE, {"bind", "send", "SEND_AND_CLOSE", "CLOSE_IMMEDIATELY", "broadcast", "free"}, 2),
      program(TRUE, {"bind", "connect", "SEND_AND_CLOSE", "free", "ssl"}, 1) }

\* Everything that changes which events a handler sees.
LifecyclePrograms ==
    { program(TRUE, {"bind", "connect", "connect_udp", "send", "ssl", "CLOSE_IMMEDIATELY", "free"}, 2) }

\* Programs whose requests must be served.
LivePrograms ==
    { program(TRUE, {"connect", "add_sock", "send", "SEND_AND_CLOSE", "CLOSE_IMMEDIATELY"}, 1),
      program(FALSE, {"bind", "bind_udp", "send", "SEND_AND_CLOSE"}, 3) }

\* A program that limits its receive buffers, in the epoll() build.
LimitPrograms == { program(TRUE, {"add_sock", "limit", "send"}, 2) }

=============================================================================
