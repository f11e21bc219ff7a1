------------------------------ MODULE MCReader ------------------------------
(***************************************************************************)
(* A small instance of Reader for TLC: IPv4 of two bits in an IPv6 of five, *)
(* ::ffff:0:0/96 beside it and a shorter alias, like 6to4, further up; a    *)
(* stream of cloud entries followed by one of reputation entries.           *)
(***************************************************************************)
EXTENDS Reader

CONSTANTS aws, gcp, tor, east, west, s1, s2, exit, v1, v2, key

MCMapped == [base |-> 4, bits |-> 3]
MC6to4 == [base |-> 16, bits |-> 2]
MCAlias == {MCMapped, MC6to4}
MCAddr == (0..3) \cup (8..15) \cup (24..31)

P(f, a, n) == [family |-> f, addr |-> a, bits |-> n]
MCRaw == { P(4, 1, 1),      \* an IPv4 network with its host bit set
           P(6, 6, 5),      \* 4-in-6, an IPv4 address
           P(6, 6, 2),      \* 4-in-6 and shorter than /96
           P(6, 0, 0),      \* ::/0
           P(6, 9, 3),      \* IPv6 with host bits set
           P(6, 20, 3) }    \* inside 6to4
MCPrefix == SUBSET MCAddr

MCTime == {-1, 1, 2}

Rec(p, g, s, c, v, t) ==
    [provider |-> p, region |-> g, services |-> s, categories |-> c,
     ext |-> [k \in {key} |-> v], synced |-> t]

CloudRecord == { Rec(aws, east, {s1}, {}, v1, 2),
                 Rec(gcp, west, {s2}, {exit}, Empty, -1) }
ReputationRecord == { Rec(tor, east, {}, {exit}, v1, 1),
                      Rec(tor, west, {s2}, {exit}, NoValue, 2) }

MCFeed(s) == IF s = 1 THEN CloudRecord ELSE ReputationRecord
=============================================================================
