----------------------------- MODULE PrefixTree -----------------------------
(***************************************************************************)
(* From the prefixes the feeds list to the slots of the tree that Merge     *)
(* fills: normalizePrefix, prefixToIPNet and the insert (Build in           *)
(* attribution/build.go).                                                   *)
(*                                                                          *)
(* Addresses are numbers of V6Bits bits.  IPv4 is the low block (::/96),    *)
(* and each alias (::ffff:0:0/96, 2002::/16, 2001::/32) is a pointer of the *)
(* tree to it.  mmdbwriter is modelled from what build.go and its tests say *)
(* of it: it refuses a network inside an alias, and of a larger network     *)
(* leaves out the aliases.                                                  *)
(***************************************************************************)
EXTENDS MergeTree

CONSTANTS
    V4Bits,        \* 32
    V6Bits,        \* 128
    Alias,         \* the aliased networks, as [base, bits]
    V4Mapped,      \* the one of them that is ::ffff:0:0/96
    Raw            \* the networks the feeds list, host bits and all

ASSUME BitsAssumption == V4Bits \in Nat \ {0} /\ V6Bits \in Nat /\ V4Bits < V6Bits

Root == V6Bits - V4Bits    \* the length of ::/96
Width(family) == IF family = 4 THEN V4Bits ELSE V6Bits

\* The first n of the width bits of x and y agree.
Agree(width, x, y, n) == x \div (2^(width - n)) = y \div (2^(width - n))
Mask(width, x, n) == x - (x % (2^(width - n)))

InAlias(al, a) == Agree(V6Bits, a, al.base, al.bits)

V4Addr == 0 .. (2^V4Bits) - 1
V6Addr == 0 .. (2^V6Bits) - 1
NetPrefix == [family : {4}, addr : V4Addr, bits : 0..V4Bits]
             \cup [family : {6}, addr : V6Addr, bits : 0..V6Bits]

\* Which sets of addresses are networks is decided here, by Slots.
ASSUME SlotsAssumption == Prefix = SUBSET Addr
ASSUME RawAssumption == Raw \subseteq NetPrefix
ASSUME AddrAssumption == Addr = {a \in V6Addr : \A al \in Alias : ~InAlias(al, a)}
ASSUME AliasAssumption ==
    \A al \in Alias : /\ al.base \in V6Addr /\ al.bits \in 1..Root
                      /\ \A a \in V4Addr : ~InAlias(al, a)
ASSUME MappedAssumption ==
    /\ V4Mapped \in Alias /\ V4Mapped.bits = Root
    /\ V4Mapped.base % (2^V4Bits) = 0

\* What the proofs need to know of powers: the provers know nothing of ^.
ASSUME PowerAssumption ==
    \A m \in 0..V6Bits :
        /\ 2^m \in Nat \ {0}
        /\ \A n \in 0 .. V6Bits - m : 2^(m + n) = (2^m) * (2^n)

VARIABLE fed       \* the networks Build has consumed

treeVars == <<tree, log, skipped, stream, pc, fed>>

-----------------------------------------------------------------------------
(***************************************************************************)
(* normalizePrefix: a 4-in-6 network becomes native IPv4 and is refused if  *)
(* it is shorter than /96.                                                  *)
(***************************************************************************)
Is4In6(p) == p.family = 6 /\ InAlias(V4Mapped, p.addr)
Unmap(p) == [family |-> 4, addr |-> p.addr % (2^V4Bits), bits |-> p.bits - Root]

\* Variant: the length is not looked at.
NormalizableAlways(p) == p \in Raw

Normalizable(p) == Is4In6(p) => p.bits >= Root

NormalizePrefix(p) == IF Is4In6(p) THEN Unmap(p) ELSE p

\* CIDRMask of a negative length is nil, which InsertFunc takes for no bits;
\* it puts IPv4 below ::/96.
PrefixToIPNet(p) ==
    [base |-> p.addr,
     bits |-> Larger(0, p.bits) + (IF p.family = 4 THEN Root ELSE 0)]

Net(p) == PrefixToIPNet(NormalizePrefix(p))

InsideAlias(net) ==
    \E al \in Alias : net.bits >= al.bits /\ InAlias(al, net.base)
Slots(net) == {a \in Addr : Agree(V6Bits, a, net.base, net.bits)}

(***************************************************************************)
(* One round of Build's loop over the entries.                              *)
(***************************************************************************)
Consume(p, r) ==
    /\ fed' = fed \cup {p}
    /\ IF Normalizable(p) /\ ~InsideAlias(Net(p))
       THEN Insert(Slots(Net(p)), r)
       ELSE Skip

TreeInit == Init /\ fed = {}

TreeNext ==
    \/ \E p \in Raw, r \in StreamRecords(stream) : Consume(p, r)
    \/ NextStream /\ UNCHANGED fed
    \/ Write /\ UNCHANGED fed
    \/ Abort /\ UNCHANGED fed

TreeSpec == TreeInit /\ [][TreeNext]_treeVars

-----------------------------------------------------------------------------
(***************************************************************************)
(* What a listed network claims: an IPv4 network or a 4-in-6 one of /96 or  *)
(* longer the IPv4 addresses it contains, natively or mapped; any other     *)
(* IPv6 network the addresses it contains outside the aliases, and IPv4 if  *)
(* that is below it.                                                        *)
(***************************************************************************)
Mapped(a) == V4Mapped.base + a

Claims(p, a) ==
    \/ /\ p.family = 4
       /\ a \in V4Addr
       /\ Agree(V4Bits, a, p.addr, p.bits)
    \/ /\ Is4In6(p) /\ p.bits >= Root
       /\ a \in V4Addr
       /\ Agree(V6Bits, Mapped(a), p.addr, p.bits)
    \/ /\ p.family = 6 /\ ~Is4In6(p)
       /\ Agree(V6Bits, a, p.addr, p.bits)

(***************************************************************************)
(* An address has a record exactly if a network that was consumed claims    *)
(* it.  A malformed 4-in-6 network attributes nothing ("never poison the v4 *)
(* default route"), a well-formed one the IPv4 network it maps, and a       *)
(* network inside an alias nothing of IPv4 (build.go:72-77, 86-91).         *)
(***************************************************************************)
ClaimsHonoured ==
    \A a \in Addr : tree[a] # NoRecord <=> \E p \in fed : Claims(p, a)
=============================================================================
