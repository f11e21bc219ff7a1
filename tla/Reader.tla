------------------------------- MODULE Reader -------------------------------
(***************************************************************************)
(* What a reader of a finished database finds: Lookup, LookupProvider and   *)
(* its index, the tree walk (attribution/reader.go), Verify (verify.go) and *)
(* the rows of the CSV (export.go).                                         *)
(*                                                                          *)
(* maxminddb is external: a lookup of an aliased address goes on in IPv4    *)
(* and its prefix stays in the alias (the comment on DB.Lookup); the walk   *)
(* visits every leaf once, in the order of the addresses.  A leaf is the    *)
(* largest block of one content that contains neither the root of IPv4 nor  *)
(* an alias, which are fixed nodes.                                         *)
(*                                                                          *)
(* The loops of BuildIndex, Verify and ExportCSV range over the same leaves *)
(* of a file that does not change any more and share nothing, so one walk   *)
(* drives the three of them, a step for each round.                         *)
(***************************************************************************)
EXTENDS PrefixTree, FiniteSets

\* Two aliases are no part of each other.
ASSUME DisjointAssumption ==
    \A al, bl \in Alias, a \in V6Addr : InAlias(al, a) /\ InAlias(bl, a) => al = bl

VARIABLES
    at,      \* the first address the walk has not passed
    done,    \* the loops have ended, and d.idx is set
    idx,     \* BuildIndex: the identity at each offset met
    rep,     \* Verify: its report
    csv      \* ExportCSV: the rows written

walkVars == <<at, done, idx, rep, csv>>
readerVars == <<tree, log, skipped, stream, pc, fed, at, done, idx, rep, csv>>

Ip == [family : {4}, addr : V4Addr] \cup [family : {6}, addr : V6Addr]

-----------------------------------------------------------------------------
(***************************************************************************)
(* The file, as maxminddb presents it.                                      *)
(***************************************************************************)
V4Root == [base |-> 0, bits |-> Root]

Leaf(a, n) ==
    /\ \A f \in Alias \cup {V4Root} :
          n > f.bits \/ ~Agree(V6Bits, a, f.base, n)
    /\ \A b \in Addr : tree[b] = tree[a] \/ ~Agree(V6Bits, a, b, n)
Depth(a) == CHOOSE n \in 0..V6Bits : Leaf(a, n) /\ (n > 0 => ~Leaf(a, n - 1))

AliasesOf(ip) == {al \in Alias : ip.family = 6 /\ InAlias(al, ip.addr)}

\* The address of the tree a query ends at, and the bits it took to get from
\* there to where IPv4 is.
SlotOf(ip) ==
    IF AliasesOf(ip) = {} THEN ip.addr
    ELSE LET al == CHOOSE al \in AliasesOf(ip) : TRUE
         IN  (ip.addr \div (2^(Root - al.bits))) % (2^V4Bits)
Shift(ip) ==
    IF ip.family = 4 THEN Root
    ELSE IF AliasesOf(ip) = {} THEN 0
    ELSE Root - (CHOOSE al \in AliasesOf(ip) : TRUE).bits

ResultPrefix(ip) ==
    LET n == Depth(SlotOf(ip)) - Shift(ip)
    IN  [family |-> ip.family, addr |-> Mask(Width(ip.family), ip.addr, n), bits |-> n]

\* DB.Networks: the leaves with a record; IPv4 natively, the aliases not at all.
Starts == {a \in Addr : tree[a] # NoRecord /\ a = Mask(V6Bits, a, Depth(a))}
IpOf(a) == [family |-> IF a \in V4Addr THEN 4 ELSE 6, addr |-> a]
Row(a) == [network |-> ResultPrefix(IpOf(a)), record |-> tree[a]]

\* Records are deduplicated: equal records have one offset.
Offset(record) == record

-----------------------------------------------------------------------------
(***************************************************************************)
(* Contains and Lookup; unmapPrefix reports a 4-in-6 match natively.        *)
(***************************************************************************)
Contains(ip) == tree[SlotOf(ip)] # NoRecord

\* Variant: the match is not unmapped.
UnmapNothing(p) == p

UnmapPrefix(p) == IF Is4In6(p) /\ p.bits >= Root THEN Unmap(p) ELSE p

Lookup(ip) == [record |-> tree[SlotOf(ip)], network |-> UnmapPrefix(ResultPrefix(ip))]

(***************************************************************************)
(* BuildIndex decodes each record once; LookupProvider reads the index if   *)
(* there is one, where an offset that is missing is a blank identity.       *)
(***************************************************************************)
Identity(record) == [provider |-> record.provider, region |-> record.region]
Blank == [provider |-> Empty, region |-> Empty]

Decoded(found, row) ==
    [off \in DOMAIN found \cup {Offset(row.record)} |->
        IF off \in DOMAIN found THEN found[off] ELSE Identity(row.record)]

\* Variant: a record is skipped if its provider has been met.
IndexedByProvider(found, row) ==
    IF \E off \in DOMAIN found : found[off].provider = row.record.provider
    THEN found ELSE Decoded(found, row)

Indexed(found, row) ==
    IF Offset(row.record) \in DOMAIN found THEN found ELSE Decoded(found, row)

LookupProvider(ip) ==
    LET off == Offset(tree[SlotOf(ip)])
    IN  IF ~done THEN Identity(tree[SlotOf(ip)])
        ELSE IF off \in DOMAIN idx THEN idx[off] ELSE Blank

(***************************************************************************)
(* Verify: the networks of each provider, and the oldest and the newest of  *)
(* the timestamps there are.                                                *)
(***************************************************************************)
NoReport == [networks |-> 0, byProvider |-> [v \in Provider |-> 0],
             oldest |-> 0, newest |-> 0]

\* Variant: a record without a timestamp is the oldest.
OlderOrNone(old, t) == IF t < old THEN t ELSE old

Older(old, t) == IF t # 0 /\ (old = 0 \/ t < old) THEN t ELSE old

Counted(sum, row) ==
    [sum EXCEPT !.networks = @ + 1,
                !.byProvider[row.record.provider] = @ + 1,
                !.oldest = Older(@, row.record.synced),
                !.newest = Larger(@, row.record.synced)]

(***************************************************************************)
(* ExportCSV: the first and the last address of each network.               *)
(***************************************************************************)
\* Variant: end is start + 2^hostBits.
RangeBoundsOneMore(p) ==
    LET start == Mask(Width(p.family), p.addr, p.bits)
    IN  [start |-> start, end |-> start + (2^(Width(p.family) - p.bits))]

RangeBounds(p) ==
    LET start == Mask(Width(p.family), p.addr, p.bits)
    IN  [start |-> start, end |-> start + (2^(Width(p.family) - p.bits)) - 1]

CsvRow(row) == [network |-> row.network, range |-> RangeBounds(row.network),
                record |-> row.record]

-----------------------------------------------------------------------------
(***************************************************************************)
(* The loops over the finished file: a round for each leaf, and the end.    *)
(***************************************************************************)
Upcoming == {a \in Starts : at <= a}

Visit ==
    /\ pc = "written" /\ ~done
    /\ LET up == Upcoming
       IN  \E a \in up :
          /\ \A b \in up : a <= b
          /\ at' = a + 1
          /\ idx' = Indexed(idx, Row(a))
          /\ rep' = Counted(rep, Row(a))
          /\ csv' = Append(csv, CsvRow(Row(a)))
    /\ UNCHANGED <<treeVars, done>>

Finish ==
    /\ pc = "written" /\ ~done
    /\ Upcoming = {}
    /\ done' = TRUE
    /\ UNCHANGED <<treeVars, at, idx, rep, csv>>

ReaderInit ==
    /\ TreeInit
    /\ at = 0 /\ done = FALSE
    /\ idx = <<>> /\ rep = NoReport /\ csv = <<>>

ReaderNext == (TreeNext /\ UNCHANGED walkVars) \/ Visit \/ Finish

ReaderSpec == ReaderInit /\ [][ReaderNext]_readerVars

-----------------------------------------------------------------------------
(***************************************************************************)
(* The network of an answer is "always a range that contains the queried IP *)
(* and resolves to exactly this record" (attribution.go:46-53), and a       *)
(* mapped query gets the answer of the native one (reader.go:76-79).        *)
(***************************************************************************)
Inside(ip, p) == /\ ip.family = p.family
                 /\ Agree(Width(p.family), ip.addr, p.addr, p.bits)

NetworkHonest ==
    pc = "written" =>
        \A ip \in Ip : Contains(ip) =>
            LET got == Lookup(ip)
                q == IF Is4In6(ip) THEN [family |-> 4, addr |-> SlotOf(ip)] ELSE ip
            IN  /\ Inside(q, got.network)
                /\ q # ip => got = Lookup(q)
                /\ \A o \in Ip : Inside(o, got.network) =>
                      tree[SlotOf(o)] = got.record

(***************************************************************************)
(* The index answers like the decoder: every record a lookup can reach,     *)
(* through an alias too, is one the walk has met (reader.go:150-168).       *)
(***************************************************************************)
IndexAgrees ==
    pc = "written" =>
        \A ip \in Ip : Contains(ip) =>
            LookupProvider(ip) = Identity(Lookup(ip).record)

\* The addresses the walk lists: IPv4 natively, IPv6 outside the aliases.
Listed == {ip \in Ip : ip.family = 6 => AliasesOf(ip) = {} /\ ip.addr \notin V4Addr}

\* The rows a range join finds for an address.
Hits(ip) == {i \in DOMAIN csv : /\ csv[i].network.family = ip.family
                                /\ csv[i].range.start <= ip.addr
                                /\ ip.addr <= csv[i].range.end}

(***************************************************************************)
(* The CSV is the database: a range join finds for each address the one row *)
(* Lookup answers from, and none for an address Lookup does not find (the   *)
(* comments on csvHeader and ExportCSV).                                    *)
(***************************************************************************)
ExportMatches ==
    done =>
        \A ip \in Listed :
            IF Contains(ip)
            THEN \E i \in DOMAIN csv : /\ Hits(ip) = {i}
                                       /\ csv[i].network = Lookup(ip).network
                                       /\ csv[i].record = Lookup(ip).record
            ELSE Hits(ip) = {}

(***************************************************************************)
(* Verify reports what lookups can find: as many networks, of each          *)
(* provider, as there are different answers, and as oldest and newest the   *)
(* extremes of the timestamps in them (verify.go:15-18, 26-55).  The counts *)
(* of IPv4 and IPv6 and the error for a record without a provider are left  *)
(* out.                                                                     *)
(***************************************************************************)
VerifyHonest ==
    done =>
        LET answers == {Lookup(ip) : ip \in {i \in Listed : Contains(i)}}
            stamps == {x.record.synced : x \in answers} \ {0}
        IN  /\ rep.networks = Cardinality(answers)
            /\ \A v \in Provider : rep.byProvider[v] =
                  Cardinality({x \in answers : x.record.provider = v})
            /\ IF stamps = {} THEN rep.oldest = 0 /\ rep.newest = 0
               ELSE /\ {rep.oldest, rep.newest} \subseteq stamps
                    /\ \A t \in stamps : rep.oldest <= t /\ t <= rep.newest
=============================================================================
