------------------------------- MODULE IpAcl -------------------------------
(***************************************************************************)
(* ns_check_ip_acl(): a list of networks, each with a sign.  An entry is   *)
(* given as what its text says: sign, four numbers (the address they make, *)
(* or NoNet when one is not a byte) and the number after the slash.  An    *)
(* address is given by its bits, on which << and & are defined.            *)
(***************************************************************************)
EXTENDS Integers, Sequences

CONSTANT Width      \* bits of an address: 32 in the code

Bit == 0 .. Width - 1
Address == [Bit -> {0, 1}]
NoNet == <<>>

\* 0xffffffff << (32 - slash), and 0 for slash = 0, where the shift is undefined.
mask(slash) == [k \in Bit |-> IF slash # 0 /\ k >= Width - slash THEN 1 ELSE 0]

\* ip & mask
masked(ip, slash) == [k \in Bit |-> IF mask(slash)[k] = 1 THEN ip[k] ELSE 0]

parse_net(e) == e.net \in Address /\ e.slash >= 0 /\ e.slash < Width + 1

\* Mutant: once an entry has let the address in, the later ones are not looked at.
check_entry_first(allowed, e, ip) ==
    IF allowed = "error" \/ e.sign \notin {"+", "-"} \/ ~parse_net(e) THEN "error"
    ELSE IF allowed = "-" /\ e.net = masked(ip, e.slash) THEN e.sign ELSE allowed

\* One turn of the loop.
check_entry(allowed, e, ip) ==
    IF allowed = "error" \/ e.sign \notin {"+", "-"} \/ ~parse_net(e) THEN "error"
    ELSE IF e.net = masked(ip, e.slash) THEN e.sign ELSE allowed

\* "+" is returned as 1, "-" as 0, "error" as -1: the verdict after the loop,
\* turns(acl, ip)[k] being the one after k entries.
turns(acl, ip) ==
    LET allowed[k \in 0 .. Len(acl)] ==
          IF k = 0 THEN IF acl = <<>> THEN "+" ELSE "-" ELSE check_entry(allowed[k - 1], acl[k], ip)
    IN  allowed

ns_check_ip_acl(acl, ip) == turns(acl, ip)[Len(acl)]

\* Reference: who may in.  A list with an entry nobody can read admits no one;
\* an empty list everyone; otherwise the last entry whose network has the
\* address (its bits before the slash, and no others) decides, and without one
\* the answer is no.
Readable(e) == e.sign \in {"+", "-"} /\ e.net \in Address /\ e.slash \in 0 .. Width
Covers(e, ip) == \A k \in Bit : e.net[k] = IF k < Width - e.slash THEN 0 ELSE ip[k]
Entitled(acl, ip) ==
    /\ \A i \in DOMAIN acl : Readable(acl[i])
    /\ acl # <<>> => \E i \in DOMAIN acl :
          /\ acl[i].sign = "+" /\ Covers(acl[i], ip)
          /\ \A j \in i + 1 .. Len(acl) : ~Covers(acl[j], ip)

=============================================================================
