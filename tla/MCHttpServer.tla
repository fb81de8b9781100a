---------------------------- MODULE MCHttpServer ----------------------------
EXTENDS HttpServer

\* No range, ranges inside a file of three units, to its end, past it, and empty.
MCRanges == {<<>>, <<1>>, <<3>>, <<0, 0>>, <<1, 2>>, <<0, 3>>, <<2, 1>>}

\* Every list of at most two entries over addresses of two bits, with entries
\* that have a host part, a sign, a mask or a network that cannot be read.
Zero == [k \in Bit |-> 0]
Entries == [sign : {"+", "-"}, net : Address, slash : 0 .. 2]
             \cup {[sign |-> "*", net |-> Zero, slash |-> 0], [sign |-> "+", net |-> Zero, slash |-> 3],
                   [sign |-> "+", net |-> NoNet, slash |-> 1]}
MCAcls == {<<>>} \cup {<<e>> : e \in Entries} \cup {<<e, f>> : e, f \in Entries}

=============================================================================
