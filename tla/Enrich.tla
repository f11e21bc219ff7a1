-------------------------------- MODULE Enrich --------------------------------
(***************************************************************************)
(* The ASN table and the enrichment that splits an entry at announcement    *)
(* boundaries (attribution/asn.go): CoalesceASNRanges, one row a step, and  *)
(* then enrichEntry, one announcement a step.                               *)
(*                                                                          *)
(* Addresses are integers, IPv4 below IPv6 as netip.Addr.Compare orders     *)
(* them; Next of the last address of a family is not an address.  Rows have *)
(* both bounds in one family and in order: NewASNTable drops the others.    *)
(* It also splits the table by family, which here is a restriction of the   *)
(* search.                                                                  *)
(***************************************************************************)
EXTENDS Integers, Sequences

CONSTANTS
    NV4,           \* IPv4 addresses: 0..NV4 - 1
    NAddr,         \* all addresses: 0..NAddr - 1
    AS,            \* origins: an AS number with its description
    None,          \* no origin
    Network,       \* networks of entries, as <<first, last>>
    MaxRow         \* bound on the rows of the table's input

Addr == 0..(NAddr - 1)
Is4(a) == a < NV4
Invalid == -1

ASSUME AddrAssumption == NAddr \in Nat /\ NV4 \in 0..NAddr
ASSUME OriginAssumption == None \notin AS
ASSUME RowBoundAssumption == MaxRow \in Nat
ASSUME NetworkAssumption ==
    \A n \in Network : n[1] \in Addr /\ n[2] \in Addr /\ n[1] <= n[2]
                       /\ Is4(n[1]) = Is4(n[2])

Row == {r \in [first : Addr, last : Addr, as : AS] :
          r.first <= r.last /\ Is4(r.first) = Is4(r.last)}
Piece == [first : Addr, last : Addr, as : AS \cup {None}]

VARIABLES
    taken,         \* the input rows consumed, sorted by first
    table,         \* out of CoalesceASNRanges
    phase,         \* "coalesce", "split" or "done"
    network,       \* the entry being enriched
    i,             \* the loop variable of enrichEntry
    cur,           \* the first address not yielded yet
    pieces         \* what enrichEntry has yielded

vars == <<taken, table, phase, network, i, cur, pieces>>
loop == <<phase, network, i, cur, pieces>>

TypeOK ==
    /\ taken \in Seq(Row) /\ table \in Seq(Row)
    /\ phase \in {"coalesce", "split", "done"}
    /\ network \in Network
    /\ i \in 1..(MaxRow + 1)
    /\ cur \in Addr
    /\ pieces \in Seq(Piece)

Init ==
    /\ taken = <<>> /\ table = <<>> /\ pieces = <<>>
    /\ phase = "coalesce"
    /\ network \in Network
    /\ i = 1
    /\ cur = network[1]

NextAddr(a) == IF a \in {NV4 - 1, NAddr - 1} THEN Invalid ELSE a + 1

-----------------------------------------------------------------------------
(***************************************************************************)
(* One turn of CoalesceASNRanges: the row is clamped to start after the     *)
(* previous one, dropped if nothing is left, merged if it goes on where the *)
(* previous one of the same origin ends.                                    *)
(***************************************************************************)
\* Variant: an overlapping row is kept as it is.
AbsorbWhole(t, r) ==
    IF t # <<>> /\ NextAddr(t[Len(t)].last) = r.first /\ t[Len(t)].as = r.as
    THEN [t EXCEPT ![Len(t)].last = r.last] ELSE Append(t, r)

\* Variant: a contained row cuts the previous one short (last row wins).
AbsorbLast(t, r) ==
    IF t # <<>> /\ t[Len(t)].first < r.first /\ r.first <= t[Len(t)].last
    THEN Append([t EXCEPT ![Len(t)].last = r.first - 1], r)
    ELSE IF t # <<>> /\ t[Len(t)].first = r.first THEN t ELSE Append(t, r)

Absorb(t, r) ==
    IF t = <<>> THEN <<r>>
    ELSE LET prev     == t[Len(t)]
             next     == NextAddr(prev.last)
             same     == Is4(prev.last) = Is4(r.first)
             overlaps == same /\ r.first <= prev.last
             first    == IF overlaps THEN next ELSE r.first
         IN  IF overlaps /\ (next = Invalid \/ next > r.last) THEN t
             ELSE IF same /\ prev.as = r.as /\ next = first
             THEN [t EXCEPT ![Len(t)].last = r.last]
             ELSE Append(t, [r EXCEPT !.first = first])

\* sort.Slice is not stable: rows that start together come in any order.
Take(r) ==
    /\ phase = "coalesce"
    /\ Len(taken) < MaxRow
    /\ taken # <<>> => taken[Len(taken)].first <= r.first
    /\ taken' = Append(taken, r)
    /\ table' = Absorb(table, r)
    /\ UNCHANGED loop

-----------------------------------------------------------------------------
(***************************************************************************)
(* enrichEntry.                                                             *)
(***************************************************************************)
lo == network[1]
hi == network[2]

\* The rows of the entry's family.
Family == {k \in DOMAIN table : Is4(table[k].first) = Is4(lo)}

Lo(a, b) == IF a <= b THEN a ELSE b
Hi(a, b) == IF a >= b THEN a ELSE b

\* Variant: the search is for a row that starts at or after the entry.
FirstStarting == {k \in Family : table[k].first >= lo}

\* What the binary search looks for: a row that ends at or after the entry's
\* first address.
Candidates == {k \in Family : table[k].last >= lo}

Touches(k) == k \in Family /\ table[k].first <= hi

\* Variant: nothing is yielded for the addresses before a row.
NoGap(to) == <<>>

\* The unannounced addresses from cur up to an announcement.
Gap(to) == IF cur < to THEN <<[first |-> cur, last |-> to - 1, as |-> None]>>
                       ELSE <<>>

\* The search: the first candidate, or the entry passes through unchanged.
Search ==
    /\ phase = "coalesce"
    /\ \/ \E k \in Candidates :
            /\ \A j \in Candidates : k <= j
            /\ Touches(k)
            /\ i' = k
            /\ phase' = "split"
            /\ UNCHANGED pieces
       \/ /\ \A k \in Candidates : (\A j \in Candidates : k <= j) => ~Touches(k)
          /\ pieces' = <<[first |-> lo, last |-> hi, as |-> None]>>
          /\ phase' = "done"
          /\ UNCHANGED i
    /\ UNCHANGED <<taken, table, network, cur>>

\* A turn of the loop: the gap before the row, then the overlap.  (The code
\* also skips a row with no overlap; TableNormal leaves it none to skip.)
Split ==
    /\ phase = "split"
    /\ Touches(i)
    /\ LET first == Hi(table[i].first, cur)
           last  == Lo(table[i].last, hi)
       IN  /\ pieces' = pieces \o Gap(first)
                          \o <<[first |-> first, last |-> last, as |-> table[i].as]>>
           /\ IF last >= hi THEN phase' = "done" /\ UNCHANGED <<i, cur>>
              ELSE i' = i + 1 /\ cur' = NextAddr(last) /\ UNCHANGED phase
    /\ UNCHANGED <<taken, table, network>>

\* The loop ends before the entry does: the trailing gap.
Trail ==
    /\ phase = "split"
    /\ ~Touches(i)
    /\ pieces' = Append(pieces, [first |-> cur, last |-> hi, as |-> None])
    /\ phase' = "done"
    /\ UNCHANGED <<taken, table, network, i, cur>>

Next ==
    \/ \E r \in Row : Take(r)
    \/ Search
    \/ Split
    \/ Trail

Spec == Init /\ [][Next]_vars

-----------------------------------------------------------------------------
(***************************************************************************)
(* The table is what the binary search needs and no larger than it must be: *)
(* rows in strictly ascending order, disjoint, and no two that could be one *)
(* ("a strictly non-overlapping, minimal set").                             *)
(***************************************************************************)
TableNormal ==
    /\ \A k, j \in DOMAIN table : k < j => table[k].last < table[j].first
    /\ \A k \in 1..(Len(table) - 1) :
          ~(table[k].as = table[k+1].as /\ NextAddr(table[k].last) = table[k+1].first)

(***************************************************************************)
(* Coalescing moves no address to another origin: each belongs to the first *)
(* input row, in sorted order, that covered it, and to none if no row did.  *)
(***************************************************************************)
Covers(r, a) == r.first <= a /\ a <= r.last
FirstRowWins ==
    \A a \in Addr :
        LET Covering == {k \in DOMAIN taken : Covers(taken[k], a)}
            Listed   == {k \in DOMAIN table : Covers(table[k], a)}
        IN  /\ Covering = {} <=> Listed = {}
            /\ \A k \in Covering, j \in Listed :
                  (\A m \in Covering : k <= m) => table[j].as = taken[k].as

(***************************************************************************)
(* What has been yielded is exactly the entry up to cur, in ascending       *)
(* disjoint pieces, and all of the entry in the end.                        *)
(***************************************************************************)
PiecesPartitionEntry ==
    LET upto == CASE phase = "coalesce" -> lo - 1
                  [] phase = "split"    -> cur - 1
                  [] phase = "done"     -> hi
    IN  /\ \A a \in Addr : (\E k \in DOMAIN pieces : Covers(pieces[k], a))
                             <=> lo <= a /\ a <= upto
        /\ \A k, j \in DOMAIN pieces : k < j => pieces[k].last < pieces[j].first

(***************************************************************************)
(* Every piece carries the origin the table has for each of its addresses,  *)
(* and none exactly where nothing is announced.                             *)
(***************************************************************************)
PiecesMatchTable ==
    \A k \in DOMAIN pieces : \A a \in pieces[k].first..pieces[k].last :
        IF pieces[k].as = None THEN \A j \in Family : ~Covers(table[j], a)
        ELSE \E j \in Family : Covers(table[j], a) /\ table[j].as = pieces[k].as
=============================================================================
