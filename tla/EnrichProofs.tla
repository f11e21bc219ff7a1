---------------------------- MODULE EnrichProofs ----------------------------
(***************************************************************************)
(* Proofs about Enrich for address spaces, tables and networks of any size. *)
(***************************************************************************)
EXTENDS Enrich, SequenceTheorems, WellFoundedInduction, TLAPS

(***************************************************************************)
(* The parts of the inductive invariant.                                    *)
(***************************************************************************)
\* The table gives a the origin o.
Says(t, a, o) == \E k \in DOMAIN t : Covers(t[k], a) /\ t[k].as = o

Ascending(t) == \A k, j \in DOMAIN t : k < j => t[k].last < t[j].first
Minimal(t) ==
    \A k \in 1..(Len(t) - 1) :
        ~(t[k].as = t[k + 1].as /\ NextAddr(t[k].last) = t[k + 1].first)

Bounds ==
    /\ Len(taken) <= MaxRow /\ Len(table) <= Len(taken)
    /\ taken = <<>> <=> table = <<>>
    /\ phase = "coalesce" => pieces = <<>> /\ cur = lo

\* From the start of the newest row to the end of the table no address is free:
\* what the next row may overlap is covered, by whatever row.
Newest ==
    taken # <<>> =>
        /\ Is4(taken[Len(taken)].first) = Is4(table[Len(table)].last)
        /\ \A a \in Addr :
              taken[Len(taken)].first <= a /\ a <= table[Len(table)].last =>
                \E o \in AS : Says(table, a, o)

\* FirstRowWins in terms of what the table says.
Firsts ==
    \A a \in Addr :
        /\ (\E k \in DOMAIN taken : Covers(taken[k], a)) <=> \E o \in AS : Says(table, a, o)
        /\ \A k \in DOMAIN taken, o \in AS :
              /\ Covers(taken[k], a)
              /\ \A m \in DOMAIN taken : Covers(taken[m], a) => k <= m
              /\ Says(table, a, o)
              => o = taken[k].as

Coalesced == Bounds /\ TableNormal /\ Newest /\ Firsts

\* Where enrichEntry is in the table: every row before it is done with, it has
\* not passed the end of the row it looks at, and past the family's rows none is
\* left.
Position ==
    phase = "split" =>
        /\ cur \in lo..hi
        /\ \A j \in Family : j < i => table[j].last < cur
        /\ i \in Family => cur <= table[i].last
        /\ i \notin Family => \A j \in Family : j < i

\* The origin the table has for a.
Right(o, a) ==
    IF o = None THEN \A j \in Family : ~Covers(table[j], a)
    ELSE \E j \in Family : Covers(table[j], a) /\ table[j].as = o

\* p is a correct cut of the entry up to the address upto.
Cut(p, upto) ==
    /\ p \in Seq(Piece)
    /\ \A a \in Addr : (\E k \in DOMAIN p : Covers(p[k], a)) <=> lo <= a /\ a <= upto
    /\ \A k, j \in DOMAIN p : k < j => p[k].last < p[j].first
    /\ \A k \in DOMAIN p : p[k].last <= upto
    /\ \A k \in DOMAIN p : \A a \in p[k].first..p[k].last : Right(p[k].as, a)

Upto == CASE phase = "coalesce" -> lo - 1
          [] phase = "split"    -> cur - 1
          [] phase = "done"     -> hi

Inv == TypeOK /\ Coalesced /\ Position /\ Cut(pieces, Upto)

-----------------------------------------------------------------------------
(***************************************************************************)
(* Addresses.                                                               *)
(***************************************************************************)
\* Next leads to the address after one, or off the end of its family.
LEMMA NextFacts ==
    ASSUME NEW a \in Addr
    PROVE  /\ NextAddr(a) = Invalid => \A b \in Addr : Is4(b) = Is4(a) => b <= a
           /\ NextAddr(a) # Invalid =>
                NextAddr(a) = a + 1 /\ a + 1 \in Addr /\ Is4(a + 1) = Is4(a)
  BY AddrAssumption DEF NextAddr, Invalid, Addr, Is4

\* A family has every address between two of its own.
LEMMA Ordered ==
    ASSUME NEW a \in Addr, NEW b \in Addr, a <= b
    PROVE  \A c \in Addr : a <= c /\ c <= b /\ Is4(a) = Is4(b) => Is4(c) = Is4(a)
  BY AddrAssumption DEF Addr, Is4

\* What NewASNTable has checked of a row.
LEMMA RowFacts ==
    ASSUME NEW r \in Row
    PROVE  /\ r.first \in Addr /\ r.last \in Addr /\ r.as \in AS
           /\ r.first <= r.last /\ Is4(r.first) = Is4(r.last)
           /\ r.first \in Int /\ r.last \in Int
  BY AddrAssumption DEF Row, Addr

\* The rows of an ascending table end before its last one.
LEMMA LastIsLast ==
    ASSUME NEW t \in Seq(Row), t # <<>>, Ascending(t), NEW k \in DOMAIN t
    PROVE  t[k].last <= t[Len(t)].last
<1>1. Len(t) \in DOMAIN t /\ t[k] \in Row /\ t[Len(t)] \in Row
  OBVIOUS
<1>2. k < Len(t) \/ k = Len(t)
  OBVIOUS
<1> QED
  BY <1>1, <1>2, RowFacts DEF Ascending

(***************************************************************************)
(* What one turn of CoalesceASNRanges does to a normal table: what it said  *)
(* it goes on saying, and it says of the addresses of the new row past its  *)
(* end what the row says.                                                   *)
(***************************************************************************)
LEMMA AbsorbMerge ==
    ASSUME NEW t \in Seq(Row), t # <<>>, Ascending(t), Minimal(t), NEW r \in Row,
           Is4(t[Len(t)].last) = Is4(r.first), t[Len(t)].as = r.as,
           r.first <= t[Len(t)].last + 1, t[Len(t)].last < r.last
    PROVE  LET u == [t EXCEPT ![Len(t)].last = r.last]
           IN  /\ u \in Seq(Row) /\ Len(u) = Len(t) /\ Ascending(u) /\ Minimal(u)
               /\ u[Len(u)].last = r.last
               /\ \A a \in Addr, o \in AS :
                     Says(u, a, o) <=> \/ Says(t, a, o)
                                       \/ t[Len(t)].last < a /\ Covers(r, a) /\ o = r.as
<1> DEFINE n == Len(t)
           p == t[n]
           q == [p EXCEPT !.last = r.last]
           u == [t EXCEPT ![n].last = r.last]
<1>1. n \in DOMAIN t /\ p \in Row /\ DOMAIN t = 1..n /\ n \in Nat \ {0}
  OBVIOUS
<1>2. /\ p.first \in Int /\ p.last \in Int /\ r.last \in Int /\ r.first \in Int
      /\ p.first <= p.last /\ p.as = r.as /\ Is4(p.first) = Is4(r.last)
      /\ p.last < r.last /\ r.first <= p.last + 1
  BY <1>1, RowFacts
<1>3. q \in Row /\ q.first = p.first /\ q.last = r.last /\ q.as = p.as
  BY <1>1, <1>2, RowFacts DEF Row
<1>4. u = [t EXCEPT ![n] = q]
  OBVIOUS
<1> HIDE DEF q, u
<1>5. /\ u \in Seq(Row) /\ Len(u) = n /\ DOMAIN u = DOMAIN t
      /\ u[n] = q /\ \A k \in DOMAIN t : k # n => u[k] = t[k]
  BY <1>1, <1>3, <1>4
<1>6. Ascending(u)
  <2> SUFFICES ASSUME NEW k \in DOMAIN t, NEW j \in DOMAIN t, k < j
               PROVE  u[k].last < u[j].first
    BY <1>5 DEF Ascending
  <2>1. k # n /\ u[k] = t[k]
    BY <1>1, <1>5
  <2>2. u[j].first = t[j].first
    BY <1>3, <1>5
  <2> QED
    BY <2>1, <2>2 DEF Ascending
<1>7. Minimal(u)
  <2> SUFFICES ASSUME NEW k \in 1..(n - 1)
               PROVE  ~(u[k].as = u[k + 1].as /\ NextAddr(u[k].last) = u[k + 1].first)
    BY <1>5 DEF Minimal
  <2>1. k \in DOMAIN t /\ k # n /\ k + 1 \in DOMAIN t
    <3> HIDE DEF n
    <3>1. k \in 1..n /\ k + 1 \in 1..n /\ k # n
      BY <1>1
    <3> QED
      BY <1>1, <3>1
  <2>2. u[k] = t[k] /\ u[k + 1].as = t[k + 1].as /\ u[k + 1].first = t[k + 1].first
    BY <1>3, <1>5, <2>1
  <2> QED
    BY <2>2 DEF Minimal
<1>8. ASSUME NEW a \in Addr, NEW o \in AS
      PROVE  Says(u, a, o) <=> Says(t, a, o) \/ (p.last < a /\ Covers(r, a) /\ o = r.as)
  <2>1. a \in Int
    BY AddrAssumption DEF Addr
  <2>2. Covers(q, a) <=> Covers(p, a) \/ (p.last < a /\ Covers(r, a))
    BY <1>2, <1>3, <2>1 DEF Covers
  <2>3. Says(u, a, o) <=> \/ \E k \in DOMAIN t : k # n /\ Covers(t[k], a) /\ t[k].as = o
                          \/ Covers(q, a) /\ q.as = o
    BY <1>1, <1>5 DEF Says
  <2>4. Says(t, a, o) <=> \/ \E k \in DOMAIN t : k # n /\ Covers(t[k], a) /\ t[k].as = o
                          \/ Covers(p, a) /\ p.as = o
    BY <1>1 DEF Says
  <2> QED
    BY <1>2, <1>3, <2>2, <2>3, <2>4
<1>9. u[Len(u)].last = r.last
  BY <1>3, <1>5
<1> QED
  BY <1>5, <1>6, <1>7, <1>8, <1>9 DEF u

\* A row, or what is left of it, goes to the end of the table.
LEMMA AbsorbAppend ==
    ASSUME NEW t \in Seq(Row), t # <<>>, Ascending(t), Minimal(t), NEW r \in Row,
           NEW x \in Row, x.last = r.last, x.as = r.as,
           t[Len(t)].last < x.first,
           r.first <= x.first /\ (r.first = x.first \/ x.first = t[Len(t)].last + 1),
           ~(t[Len(t)].as = x.as /\ NextAddr(t[Len(t)].last) = x.first)
    PROVE  LET u == Append(t, x)
           IN  /\ u \in Seq(Row) /\ Len(u) = Len(t) + 1 /\ Ascending(u) /\ Minimal(u)
               /\ u[Len(u)].last = r.last
               /\ \A a \in Addr, o \in AS :
                     Says(u, a, o) <=> \/ Says(t, a, o)
                                       \/ t[Len(t)].last < a /\ Covers(r, a) /\ o = r.as
<1> DEFINE n == Len(t)
           p == t[n]
           u == Append(t, x)
<1>1. n \in DOMAIN t /\ p \in Row /\ DOMAIN t = 1..n /\ n \in Nat \ {0}
  OBVIOUS
<1>2. /\ p.last \in Int /\ x.first \in Int /\ x.last \in Int /\ r.first \in Int
      /\ r.last = x.last
  BY <1>1, RowFacts
<1>3. /\ u \in Seq(Row) /\ Len(u) = n + 1 /\ DOMAIN u = 1..(n + 1)
      /\ u[n + 1] = x /\ \A k \in DOMAIN t : u[k] = t[k]
  BY <1>1
<1> HIDE DEF u
<1>4. Ascending(u)
  <2> SUFFICES ASSUME NEW k \in 1..(n + 1), NEW j \in 1..(n + 1), k < j
               PROVE  u[k].last < u[j].first
    BY <1>3 DEF Ascending
  <2>1. k \in DOMAIN t /\ u[k] = t[k] /\ t[k].last \in Int
    <3>1. k \in DOMAIN t
      <4> HIDE DEF n
      <4> QED
        BY <1>1
    <3> QED
      BY <1>3, <3>1, RowFacts
  <2>2. CASE j = n + 1
    <3>1. t[k].last <= p.last
      BY <2>1, LastIsLast
    <3> QED
      BY <1>2, <1>3, <2>1, <2>2, <3>1
  <2>3. CASE j # n + 1
    <3>1. j \in DOMAIN t /\ u[j] = t[j]
      BY <1>1, <1>3, <2>3
    <3> QED
      BY <2>1, <3>1 DEF Ascending
  <2> QED
    BY <2>2, <2>3
<1>5. Minimal(u)
  <2> SUFFICES ASSUME NEW k \in 1..n
               PROVE  ~(u[k].as = u[k + 1].as /\ NextAddr(u[k].last) = u[k + 1].first)
    BY <1>1, <1>3 DEF Minimal
  <2>1. CASE k = n
    BY <1>1, <1>3, <2>1
  <2>2. CASE k # n
    <3>1. k \in 1..(n - 1) /\ k \in DOMAIN t /\ k + 1 \in DOMAIN t
      <4> HIDE DEF n
      <4>1. k \in 1..(n - 1) /\ k \in 1..n /\ k + 1 \in 1..n
        BY <1>1, <2>2
      <4> QED
        BY <1>1, <4>1
    <3> QED
      BY <1>3, <3>1 DEF Minimal
  <2> QED
    BY <2>1, <2>2
<1>6. ASSUME NEW a \in Addr, NEW o \in AS
      PROVE  Says(u, a, o) <=> Says(t, a, o) \/ (p.last < a /\ Covers(r, a) /\ o = r.as)
  <2>1. a \in Int
    BY AddrAssumption DEF Addr
  <2>2. Covers(x, a) <=> p.last < a /\ Covers(r, a)
    BY <1>2, <2>1 DEF Covers
  <2>3. Says(u, a, o) <=> Says(t, a, o) \/ (Covers(x, a) /\ x.as = o)
    <3>1. n + 1 \in DOMAIN u /\ \A k \in DOMAIN u : k \in DOMAIN t \/ k = n + 1
      BY <1>1, <1>3
    <3>2. \A k \in DOMAIN t : k \in DOMAIN u
      BY <1>1, <1>3
    <3> QED
      BY <1>3, <3>1, <3>2 DEF Says
  <2> QED
    BY <2>2, <2>3
<1>7. u[Len(u)].last = r.last
  BY <1>3
<1> QED
  BY <1>3, <1>4, <1>5, <1>6, <1>7 DEF u

\* The first row of a table, and a row that starts no earlier than the newest.
LEMMA AbsorbFirst ==
    ASSUME NEW r \in Row
    PROVE  /\ <<r>> \in Seq(Row) /\ Ascending(<<r>>) /\ Minimal(<<r>>)
           /\ \A a \in Addr, o \in AS : Says(<<r>>, a, o) <=> Covers(r, a) /\ o = r.as
<1>1. <<r>> \in Seq(Row) /\ DOMAIN <<r>> = {1} /\ <<r>>[1] = r /\ Len(<<r>>) = 1
  OBVIOUS
<1>2. \A a \in Addr, o \in AS : Says(<<r>>, a, o) <=> Covers(r, a) /\ o = r.as
  BY <1>1 DEF Says
<1> QED
  BY <1>1, <1>2 DEF Ascending, Minimal

\* The three outcomes of a turn: nothing left, merged, appended.
LEMMA AbsorbInv ==
    ASSUME NEW t \in Seq(Row), t # <<>>, Ascending(t), Minimal(t), NEW r \in Row,
           Is4(t[Len(t)].last) = Is4(r.first) \/ t[Len(t)].last < r.first
    PROVE  LET u == Absorb(t, r)
           IN  /\ u \in Seq(Row) /\ Len(u) \in {Len(t), Len(t) + 1}
               /\ Ascending(u) /\ Minimal(u)
               /\ \/ u = t /\ r.last <= t[Len(t)].last
                     /\ Is4(t[Len(t)].last) = Is4(r.first)
                  \/ u[Len(u)].last = r.last
               /\ \A a \in Addr, o \in AS :
                     Says(u, a, o) <=> \/ Says(t, a, o)
                                       \/ t[Len(t)].last < a /\ Covers(r, a) /\ o = r.as
<1> DEFINE p == t[Len(t)]
           next == NextAddr(p.last)
           same == Is4(p.last) = Is4(r.first)
           overlaps == same /\ r.first <= p.last
           first == IF overlaps THEN next ELSE r.first
<1>1. /\ p \in Row /\ p.last \in Addr /\ p.last \in Int /\ Is4(p.first) = Is4(p.last)
      /\ r.first \in Addr /\ r.last \in Addr /\ r.first \in Int /\ r.last \in Int
      /\ r.first <= r.last /\ Is4(r.first) = Is4(r.last)
      /\ same \/ p.last < r.first
  <2>1. p \in Row
    OBVIOUS
  <2> QED
    BY <2>1, RowFacts
<1>2. /\ next = Invalid => \A b \in Addr : Is4(b) = Is4(p.last) => b <= p.last
      /\ next # Invalid => next = p.last + 1 /\ next \in Addr /\ Is4(next) = Is4(p.last)
  BY <1>1, NextFacts
<1>3. Len(t) \in Nat
  OBVIOUS
<1> HIDE DEF p
<1>4. CASE overlaps /\ (next = Invalid \/ next > r.last)
  <2>1. r.last <= p.last
    BY <1>1, <1>2, <1>4
  <2>2. \A a \in Addr : ~(p.last < a /\ Covers(r, a))
    BY <1>1, <2>1, AddrAssumption DEF Addr, Covers
  <2>3. Absorb(t, r) = t
    BY <1>4 DEF Absorb, p
  <2> QED
    BY <1>4, <2>1, <2>2, <2>3 DEF p
<1>5. CASE ~(overlaps /\ (next = Invalid \/ next > r.last)) /\ same /\ p.as = r.as /\ next = first
  <2>1. next # Invalid
    BY <1>1, <1>5, AddrAssumption DEF Invalid, Addr
  <2>2. r.first <= p.last + 1 /\ p.last < r.last
    BY <1>1, <1>2, <1>5, <2>1
  <2> DEFINE u == [t EXCEPT ![Len(t)].last = r.last]
  <2>3. Absorb(t, r) = u
    BY <1>5 DEF Absorb, p
  <2>4. /\ u \in Seq(Row) /\ Len(u) = Len(t) /\ Ascending(u) /\ Minimal(u)
        /\ u[Len(u)].last = r.last
        /\ \A a \in Addr, o \in AS :
              Says(u, a, o) <=> \/ Says(t, a, o)
                                \/ t[Len(t)].last < a /\ Covers(r, a) /\ o = r.as
    BY <1>5, <2>2, AbsorbMerge DEF p
  <2> HIDE DEF u
  <2> QED
    BY <2>3, <2>4
<1>6. CASE ~(overlaps /\ (next = Invalid \/ next > r.last)) /\ ~(same /\ p.as = r.as /\ next = first)
  <2> DEFINE x == [r EXCEPT !.first = first]
  <2>1. /\ first \in Addr /\ first <= r.last /\ p.last < first /\ r.first <= first
        /\ Is4(first) = Is4(r.last) /\ (r.first = first \/ first = p.last + 1)
    BY <1>1, <1>2, <1>6
  <2>2. x \in Row /\ x.first = first /\ x.last = r.last /\ x.as = r.as
    BY <2>1 DEF Row
  <2>3. ~(p.as = x.as /\ NextAddr(p.last) = x.first)
    <3>1. CASE same
      BY <1>6, <2>2, <3>1
    <3>2. CASE ~same
      <4>1. next # Invalid => Is4(next) # Is4(r.first)
        BY <1>2, <3>2
      <4>2. first = r.first /\ r.first # Invalid
        BY <1>1, <3>2, AddrAssumption DEF Invalid, Addr
      <4> QED
        BY <2>2, <4>1, <4>2
    <3> QED
      BY <3>1, <3>2
  <2>4. Absorb(t, r) = Append(t, x)
    BY <1>6 DEF Absorb, p
  <2> HIDE DEF x
  <2> QED
    BY <1>3, <2>1, <2>2, <2>3, <2>4, AbsorbAppend DEF p
<1> QED
  BY <1>4, <1>5, <1>6

-----------------------------------------------------------------------------
(***************************************************************************)
(* The coalescing turn keeps Coalesced.                                     *)
(***************************************************************************)
\* An empty table is normal and right about no row.
LEMMA InitCoalesced ==
    ASSUME Init
    PROVE  TypeOK /\ Coalesced
<1>1. network \in Network /\ network[1] \in Addr
  BY NetworkAssumption DEF Init
<1>2. TypeOK
  BY <1>1, RowBoundAssumption DEF Init, TypeOK
<1>3. taken = <<>> /\ table = <<>> /\ pieces = <<>> /\ cur = lo
  BY DEF Init, lo
<1>4. Len(taken) = 0 /\ Len(table) = 0 /\ DOMAIN taken = {} /\ DOMAIN table = {}
  BY <1>3
<1> QED
  BY <1>2, <1>3, <1>4, RowBoundAssumption
  DEF Coalesced, Bounds, TableNormal, Newest, Firsts, Says

\* It goes on being normal and right with one row more.
LEMMA TakeInv ==
    ASSUME TypeOK, Coalesced, NEW r \in Row, Take(r)
    PROVE  table' \in Seq(Row) /\ Coalesced'
<1> USE DEF Take
<1>1. /\ taken \in Seq(Row) /\ table \in Seq(Row)
      /\ taken' = Append(taken, r) /\ table' = Absorb(table, r)
  BY DEF TypeOK
<1>2. /\ taken' \in Seq(Row) /\ Len(taken') = Len(taken) + 1 /\ taken' # <<>>
      /\ Len(taken) \in Nat /\ Len(taken) + 1 <= MaxRow
      /\ taken'[Len(taken')] = r /\ taken'[Len(taken) + 1] = r
      /\ \A k \in DOMAIN taken : taken'[k] = taken[k] /\ k \in DOMAIN taken'
                                   /\ k < Len(taken) + 1
      /\ Len(taken) + 1 \in DOMAIN taken'
      /\ \A k \in DOMAIN taken' : k \in DOMAIN taken \/ k = Len(taken) + 1
  BY <1>1, RowBoundAssumption
<1>3. (phase = "coalesce" => pieces = <<>> /\ cur = lo)'
  BY DEF Coalesced, Bounds, loop, lo
<1>4. /\ r.first \in Addr /\ r.last \in Addr /\ r.as \in AS /\ r.first <= r.last
      /\ Is4(r.first) = Is4(r.last) /\ r.first \in Int /\ r.last \in Int
  BY RowFacts
<1>5. CASE table = <<>>
  <2>1. taken = <<>> /\ table' = <<r>> /\ DOMAIN taken = {} /\ Len(taken) = 0
    BY <1>1, <1>5 DEF Absorb, Coalesced, Bounds
  <2>2. /\ table' \in Seq(Row) /\ Ascending(table') /\ Minimal(table')
        /\ \A a \in Addr, o \in AS : Says(table', a, o) <=> Covers(r, a) /\ o = r.as
    BY <2>1, AbsorbFirst
  <2>3. Len(table') = 1 /\ table' # <<>> /\ table'[Len(table')] = r
    BY <2>1
  <2>4. Bounds'
    BY <1>2, <1>3, <2>1, <2>3 DEF Bounds
  <2>5. TableNormal'
    BY <2>2 DEF TableNormal, Ascending, Minimal
  <2>6. Newest'
    BY <1>2, <1>4, <2>2, <2>3 DEF Newest, Covers
  <2>7. Firsts'
    <3>1. \A k \in DOMAIN taken' : taken'[k] = r
      BY <1>2, <2>1
    <3>2. Len(taken) + 1 \in DOMAIN taken'
      BY <1>2
    <3> QED
      BY <1>4, <2>2, <3>1, <3>2 DEF Firsts
  <2> QED
    BY <2>2, <2>4, <2>5, <2>6, <2>7 DEF Coalesced
<1>6. CASE table # <<>>
  <2> DEFINE p == table[Len(table)]
             s == taken[Len(taken)]
  <2>1. /\ taken # <<>> /\ Len(taken) \in DOMAIN taken /\ s \in Row /\ p \in Row
        /\ Len(table) \in Nat \ {0} /\ Len(table) <= Len(taken)
    BY <1>1, <1>6 DEF Coalesced, Bounds
  <2>2. /\ s.first \in Addr /\ p.last \in Addr /\ s.first \in Int /\ p.last \in Int
        /\ s.first <= r.first /\ Is4(s.first) = Is4(p.last)
        /\ \A a \in Addr : s.first <= a /\ a <= p.last => \E o \in AS : Says(table, a, o)
    <3>1. s.first <= r.first
      BY <2>1
    <3>2. Is4(s.first) = Is4(p.last)
          /\ \A a \in Addr : s.first <= a /\ a <= p.last => \E o \in AS : Says(table, a, o)
      BY <2>1 DEF Coalesced, Newest
    <3> HIDE DEF s, p
    <3> QED
      BY <2>1, <3>1, <3>2, RowFacts
  <2>3. Is4(p.last) = Is4(r.first) \/ p.last < r.first
    BY <1>4, <2>2, AddrAssumption DEF Is4, Addr
  <2>4. Ascending(table) /\ Minimal(table)
    BY DEF Coalesced, TableNormal, Ascending, Minimal
  <2>5. /\ table' \in Seq(Row) /\ Len(table') \in {Len(table), Len(table) + 1}
        /\ Ascending(table') /\ Minimal(table')
        /\ \/ table' = table /\ r.last <= p.last /\ Is4(p.last) = Is4(r.first)
           \/ table'[Len(table')].last = r.last
        /\ \A a \in Addr, o \in AS :
              Says(table', a, o) <=> \/ Says(table, a, o)
                                     \/ p.last < a /\ Covers(r, a) /\ o = r.as
    BY <1>1, <1>6, <2>3, <2>4, AbsorbInv
  <2>6. table' # <<>>
    BY <2>1, <2>5
  <2>7. \A a \in Addr, o \in AS : Says(table, a, o) => a <= p.last
    <3> SUFFICES ASSUME NEW a \in Addr, NEW k \in DOMAIN table, Covers(table[k], a)
                 PROVE  a <= p.last
      BY DEF Says
    <3>1. table[k].last <= p.last
      BY <1>1, <1>6, <2>4, LastIsLast
    <3>2. table[k] \in Row
      BY <1>1
    <3>3. a <= table[k].last /\ table[k].last \in Int /\ a \in Int
      BY <3>2, RowFacts, AddrAssumption DEF Covers, Addr
    <3> HIDE DEF p
    <3> QED
      BY <2>2, <3>1, <3>3
  <2> HIDE DEF p, s
  <2>8. Bounds'
    BY <1>2, <1>3, <2>1, <2>5, <2>6 DEF Bounds
  <2>9. TableNormal'
    BY <2>5 DEF TableNormal, Ascending, Minimal
  <2>10. Newest'
    <3>1. Is4(r.first) = Is4(table'[Len(table')].last)
      BY <1>4, <2>5 DEF p
    <3>2. ASSUME NEW a \in Addr, r.first <= a, a <= table'[Len(table')].last
          PROVE  \E o \in AS : Says(table', a, o)
      <4>0. a \in Int
        BY AddrAssumption DEF Addr
      <4>1. CASE a <= p.last
        <5>1. s.first <= a
          BY <1>4, <2>2, <3>2, <4>0
        <5> QED
          BY <2>2, <2>5, <4>1, <5>1
      <4>2. CASE ~(a <= p.last)
        <5>1. table'[Len(table')].last = r.last
          BY <2>5, <3>2, <4>2 DEF p
        <5> QED
          BY <1>4, <2>2, <2>5, <3>2, <4>0, <4>2, <5>1 DEF Covers
      <4> QED
        BY <4>1, <4>2
    <3> QED
      BY <1>2, <3>1, <3>2 DEF Newest
  <2>11. Firsts'
    <3> SUFFICES ASSUME NEW a \in Addr
        PROVE  /\ (\E k \in DOMAIN taken' : Covers(taken'[k], a))
                    <=> \E o \in AS : Says(table', a, o)
               /\ \A k \in DOMAIN taken', o \in AS :
                     /\ Covers(taken'[k], a)
                     /\ \A m \in DOMAIN taken' : Covers(taken'[m], a) => k <= m
                     /\ Says(table', a, o)
                     => o = taken'[k].as
      BY DEF Firsts
    <3>0. a \in Int
      BY AddrAssumption DEF Addr
    <3>1. (\E k \in DOMAIN taken' : Covers(taken'[k], a))
             <=> (\E k \in DOMAIN taken : Covers(taken[k], a)) \/ Covers(r, a)
      BY <1>2
    <3>2. (\E k \in DOMAIN taken : Covers(taken[k], a)) <=> \E o \in AS : Says(table, a, o)
      BY DEF Coalesced, Firsts
    <3>3. Covers(r, a) /\ a <= p.last => \E o \in AS : Says(table, a, o)
      BY <1>4, <2>2, <3>0 DEF Covers
    <3>4. (\E k \in DOMAIN taken' : Covers(taken'[k], a)) <=> \E o \in AS : Says(table', a, o)
      <4>1. a <= p.last \/ p.last < a
        BY <2>2, <3>0
      <4> QED
        BY <1>4, <2>5, <3>1, <3>2, <3>3, <4>1
    <3>5. ASSUME NEW k \in DOMAIN taken', NEW o \in AS, Covers(taken'[k], a),
                 \A m \in DOMAIN taken' : Covers(taken'[m], a) => k <= m,
                 Says(table', a, o)
          PROVE  o = taken'[k].as
      <4>1. CASE k \in DOMAIN taken
        <5>1. taken'[k] = taken[k]
          BY <1>2, <4>1
        <5>2. \A m \in DOMAIN taken : Covers(taken[m], a) => k <= m
          BY <1>2, <3>5
        <5>3. a <= p.last
          BY <2>7, <3>2, <3>5, <4>1, <5>1
        <5>4. Says(table, a, o)
          BY <2>2, <2>5, <3>0, <3>5, <5>3
        <5> QED
          BY <3>5, <4>1, <5>1, <5>2, <5>4 DEF Coalesced, Firsts
      <4>2. CASE k \notin DOMAIN taken
        <5>1. k = Len(taken) + 1 /\ taken'[k] = r
          BY <1>2, <4>2
        <5>2. \A m \in DOMAIN taken : ~Covers(taken[m], a)
          <6> SUFFICES ASSUME NEW m \in DOMAIN taken, Covers(taken[m], a)
                       PROVE  FALSE
            OBVIOUS
          <6>1. m \in Nat /\ m < Len(taken) + 1 /\ m \in DOMAIN taken' /\ taken'[m] = taken[m]
            BY <1>1, <1>2
          <6>2. k <= m
            BY <3>5, <6>1
          <6> QED
            BY <1>2, <5>1, <6>1, <6>2
        <5>3. ~Says(table, a, o)
          BY <3>2, <5>2
        <5> QED
          BY <2>5, <3>5, <5>1, <5>3
      <4> QED
        BY <4>1, <4>2
    <3> QED
      BY <3>4, <3>5
  <2> QED
    BY <2>5, <2>8, <2>9, <2>10, <2>11 DEF Coalesced
<1> QED
  BY <1>5, <1>6

-----------------------------------------------------------------------------
(***************************************************************************)
(* enrichEntry.                                                             *)
(***************************************************************************)
\* An entry is a range within one family.
LEMMA EntryFacts ==
    ASSUME TypeOK
    PROVE  /\ lo \in Addr /\ hi \in Addr /\ lo \in Int /\ hi \in Int
           /\ lo <= hi /\ Is4(lo) = Is4(hi) /\ Addr \subseteq Int
           /\ \A c \in Addr : lo <= c /\ c <= hi => Is4(c) = Is4(lo)
  BY NetworkAssumption, AddrAssumption, Ordered DEF TypeOK, lo, hi, Addr

\* The rows of the entry's family.
LEMMA FamilyFacts ==
    ASSUME TypeOK, Coalesced
    PROVE  /\ Family \subseteq DOMAIN table /\ DOMAIN table \subseteq Nat
           /\ \A k \in Family : /\ table[k].first \in Addr /\ table[k].last \in Addr
                                /\ table[k].first \in Int /\ table[k].last \in Int
                                /\ table[k].as \in AS /\ table[k].first <= table[k].last
                                /\ Is4(table[k].first) = Is4(lo)
                                /\ Is4(table[k].last) = Is4(lo)
                                /\ k \in 1..MaxRow
           /\ \A j, k \in Family : j < k => table[j].last < table[k].first
           /\ \A j, k \in Family, m \in Int : j <= m /\ m <= k => m \in Family
<1>1. table \in Seq(Row) /\ DOMAIN table = 1..Len(table) /\ Len(table) \in Nat
  BY DEF TypeOK
<1>2. Family \subseteq DOMAIN table /\ DOMAIN table \subseteq Nat
  BY <1>1 DEF Family
<1>3. \A k \in DOMAIN table :
         /\ table[k].first \in Addr /\ table[k].last \in Addr
         /\ table[k].first \in Int /\ table[k].last \in Int
         /\ table[k].as \in AS /\ table[k].first <= table[k].last
         /\ Is4(table[k].first) = Is4(table[k].last)
  <2> TAKE k \in DOMAIN table
  <2>1. table[k] \in Row
    BY <1>1
  <2> QED
    BY <2>1, RowFacts
<1>4. \A k \in Family : k \in 1..MaxRow
  <2>1. Len(table) <= MaxRow
    BY <1>1, RowBoundAssumption DEF TypeOK, Coalesced, Bounds
  <2> QED
    BY <1>1, <1>2, <2>1, RowBoundAssumption
<1>5. \A j, k \in DOMAIN table : j < k => table[j].last < table[k].first
  BY DEF Coalesced, TableNormal
<1>6. ASSUME NEW j \in Family, NEW k \in Family, NEW m \in Int, j <= m, m <= k
      PROVE  m \in Family
  <2>1. m \in DOMAIN table
    BY <1>1, <1>2, <1>6
  <2>2. table[j].first <= table[m].first /\ table[m].first <= table[k].first
    BY <1>2, <1>3, <1>5, <1>6, <2>1
  <2>3. Is4(table[m].first) = Is4(lo)
    <3>1. Is4(table[j].first) = Is4(lo) /\ Is4(table[k].first) = Is4(lo)
      BY DEF Family
    <3>2. /\ table[j].first \in Addr /\ table[k].first \in Addr /\ table[m].first \in Addr
          /\ table[j].first <= table[k].first
      BY <1>2, <1>3, <2>1, <2>2, AddrAssumption DEF Addr
    <3> QED
      BY <2>2, <3>1, <3>2, Ordered
  <2> QED
    BY <2>1, <2>3 DEF Family
<1> QED
  BY <1>2, <1>3, <1>4, <1>5, <1>6 DEF Family

\* One piece more: it goes on where the cut ends, with the right origin.
LEMMA Extend ==
    ASSUME TypeOK, NEW p, NEW c \in Addr, NEW d \in Addr, NEW o \in AS \cup {None},
           Cut(p, c - 1), lo <= c, c <= d, \A a \in c..d : Right(o, a)
    PROVE  Cut(Append(p, [first |-> c, last |-> d, as |-> o]), d)
<1> DEFINE x == [first |-> c, last |-> d, as |-> o]
           q == Append(p, x)
           n == Len(p)
<1>1. x \in Piece /\ x.first = c /\ x.last = d /\ x.as = o
  BY DEF Piece
<1>2. p \in Seq(Piece)
  BY DEF Cut
<1> HIDE DEF x
<1>3. /\ q \in Seq(Piece) /\ n \in Nat /\ q[n + 1] = x /\ n + 1 \in DOMAIN q
      /\ \A k \in DOMAIN p : q[k] = p[k] /\ k \in DOMAIN q /\ k \in Nat /\ k < n + 1
      /\ \A k \in DOMAIN q : k \in DOMAIN p \/ k = n + 1
  BY <1>1, <1>2
<1>4. \A k \in DOMAIN p : p[k].last \in Int /\ p[k].last < c
  <2> TAKE k \in DOMAIN p
  <2>1. p[k] \in Piece
    BY <1>2
  <2>2. p[k].last <= c - 1
    BY DEF Cut
  <2> QED
    BY <2>1, <2>2, AddrAssumption DEF Piece, Addr
<1> HIDE DEF q, n
<1>5. ASSUME NEW a \in Addr
      PROVE  (\E k \in DOMAIN q : Covers(q[k], a)) <=> lo <= a /\ a <= d
  <2>1. (\E k \in DOMAIN q : Covers(q[k], a))
           <=> (\E k \in DOMAIN p : Covers(p[k], a)) \/ Covers(x, a)
    BY <1>3
  <2>2. (\E k \in DOMAIN p : Covers(p[k], a)) <=> lo <= a /\ a <= c - 1
    BY DEF Cut
  <2>3. a \in Int /\ c \in Int /\ d \in Int /\ lo \in Int
    BY EntryFacts
  <2> QED
    BY <1>1, <2>1, <2>2, <2>3 DEF Covers
<1>6. ASSUME NEW k \in DOMAIN q, NEW j \in DOMAIN q, k < j
      PROVE  q[k].last < q[j].first
  <2>1. k \in DOMAIN p /\ q[k] = p[k]
    BY <1>3, <1>6
  <2>2. CASE j = n + 1
    BY <1>1, <1>3, <1>4, <2>1, <2>2
  <2>3. CASE j \in DOMAIN p
    BY <1>3, <1>6, <2>1, <2>3 DEF Cut
  <2> QED
    BY <1>3, <2>2, <2>3
<1>7. ASSUME NEW k \in DOMAIN q
      PROVE  q[k].last <= d
  <2>1. CASE k = n + 1
    BY <1>1, <1>3, <2>1, AddrAssumption DEF Addr
  <2>2. CASE k \in DOMAIN p
    BY <1>3, <1>4, <2>2, AddrAssumption DEF Addr
  <2> QED
    BY <1>3, <2>1, <2>2
<1>8. ASSUME NEW k \in DOMAIN q, NEW a \in q[k].first..q[k].last
      PROVE  Right(q[k].as, a)
  <2>1. CASE k = n + 1
    BY <1>1, <1>3, <1>8, <2>1
  <2>2. CASE k \in DOMAIN p
    BY <1>3, <1>8, <2>2 DEF Cut
  <2> QED
    BY <1>3, <2>1, <2>2
<1> QED
  BY <1>3, <1>5, <1>6, <1>7, <1>8 DEF Cut, q, x

\* Before the loop nothing is cut.
LEMMA NothingCut ==
    ASSUME TypeOK, phase = "coalesce", pieces = <<>>
    PROVE  Cut(pieces, lo - 1)
<1>1. pieces \in Seq(Piece) /\ DOMAIN pieces = {}
  OBVIOUS
<1>2. \A a \in Addr : ~(lo <= a /\ a <= lo - 1)
  BY EntryFacts
<1> QED
  BY <1>1, <1>2 DEF Cut

-----------------------------------------------------------------------------
\* The least-number principle.
LEMMA LeastNat ==
    ASSUME NEW T, T \subseteq Nat, T # {}
    PROVE  \E k \in T : \A m \in T : k <= m
<1> DEFINE R == {ss \in Nat \X Nat : ss[1] < ss[2]}
<1>1. IsWellFoundedOn(R, Nat)
  BY NatLessThanWellFounded DEF OpToRel
<1>2. PICK k \in T : \A m \in T : ~(<<m, k>> \in R)
  <2> HIDE DEF R
  <2> QED
    BY <1>1, WFMin
<1>3. \A m \in T : ~(m < k)
  BY <1>2
<1> QED
  BY <1>3

\* The search finds the row the loop starts with, or that there is none.
LEMMA SearchInv ==
    ASSUME Inv, Search
    PROVE  Inv'
<1> USE DEF Search
<1>1. TypeOK /\ Coalesced /\ pieces = <<>> /\ cur = lo /\ Cut(pieces, lo - 1)
  BY NothingCut DEF Inv, Coalesced, Bounds
<1>2. lo' = lo /\ hi' = hi /\ Family' = Family /\ Coalesced'
  <2>1. lo' = lo /\ hi' = hi /\ Family' = Family
    BY DEF lo, hi, Family
  <2>2. phase' # "coalesce"
    OBVIOUS
  <2> QED
    BY <1>1, <2>1, <2>2 DEF Coalesced, Bounds, TableNormal, Newest, Firsts, Says
<1>3. CASE \E k \in Candidates :
             /\ \A j \in Candidates : k <= j
             /\ Touches(k)
             /\ i' = k
             /\ phase' = "split"
             /\ UNCHANGED pieces
  <2>1. PICK k \in Candidates :
             /\ \A j \in Candidates : k <= j
             /\ Touches(k)
             /\ i' = k
             /\ phase' = "split"
             /\ UNCHANGED pieces
    BY <1>3
  <2>2. k \in Family /\ lo <= table[k].last
    BY EntryFacts, <1>1 DEF Candidates
  <2>3. TypeOK'
    BY <1>1, <2>1, <2>2, FamilyFacts, RowBoundAssumption DEF TypeOK
  <2>4. ASSUME NEW j \in Family, j < k
        PROVE  table[j].last < lo
    <3>1. j \notin Candidates
      BY <1>1, <2>1, <2>2, <2>4, FamilyFacts
    <3> QED
      BY <1>1, <3>1, FamilyFacts, EntryFacts DEF Candidates
  <2>5. Position'
    BY <1>1, <1>2, <2>1, <2>2, <2>4, EntryFacts DEF Position
  <2>6. Cut(pieces, Upto)'
    <3>1. Upto' = lo - 1 /\ pieces' = pieces
      BY <1>1, <2>1 DEF Upto
    <3> QED
      BY <1>1, <1>2, <3>1 DEF Cut, Right
  <2> QED
    BY <1>2, <2>3, <2>5, <2>6 DEF Inv
<1>4. CASE /\ \A k \in Candidates : (\A j \in Candidates : k <= j) => ~Touches(k)
           /\ pieces' = <<[first |-> lo, last |-> hi, as |-> None]>>
           /\ phase' = "done"
           /\ UNCHANGED i
  <2>1. ASSUME NEW a \in lo..hi, NEW j \in Family, Covers(table[j], a)
        PROVE  FALSE
    <3>1. lo \in Int /\ hi \in Int /\ a \in Int
      BY <1>1, EntryFacts
    <3>2. j \in Candidates /\ table[j].first <= hi
      BY <1>1, <2>1, <3>1, FamilyFacts DEF Candidates, Covers
    <3>3. Candidates \subseteq Nat /\ Candidates \subseteq Family
      BY <1>1, FamilyFacts DEF Candidates
    <3>4. PICK k \in Candidates : \A m \in Candidates : k <= m
      BY <3>2, <3>3, LeastNat
    <3>5. table[k].first <= hi
      <4>1. k = j \/ k < j
        BY <3>2, <3>3, <3>4
      <4> QED
        BY <1>1, <3>1, <3>2, <3>3, <4>1, FamilyFacts
    <3> QED
      BY <1>4, <3>3, <3>4, <3>5 DEF Touches
  <2>2. Cut(pieces', hi)
    <3>1. pieces' = Append(pieces, [first |-> lo, last |-> hi, as |-> None])
      BY <1>1, <1>4
    <3>2. \A a \in lo..hi : Right(None, a)
      BY <2>1 DEF Right
    <3>3. Cut(Append(pieces, [first |-> lo, last |-> hi, as |-> None]), hi)
      <4>1. lo \in Addr /\ hi \in Addr /\ lo <= lo /\ lo <= hi
        BY <1>1, EntryFacts
      <4> HIDE DEF Search
      <4> QED
        BY <1>1, <3>2, <4>1, Extend
    <3> QED
      BY <3>1, <3>3
  <2>3. TypeOK'
    BY <1>1, <1>4, <2>2 DEF TypeOK, Cut
  <2>4. Position'
    BY <1>4 DEF Position
  <2>5. Cut(pieces, Upto)'
    <3>1. Upto' = hi
      BY <1>2, <1>4 DEF Upto
    <3> QED
      BY <1>2, <2>2, <3>1 DEF Cut, Right
  <2> QED
    BY <1>2, <2>3, <2>4, <2>5 DEF Inv
<1> QED
  BY <1>3, <1>4

\* A turn of the loop cuts off the gap before the row and the overlap with it.
LEMMA SplitInv ==
    ASSUME Inv, Split
    PROVE  Inv'
<1> DEFINE first == Hi(table[i].first, cur)
           last == Lo(table[i].last, hi)
           row == [first |-> first, last |-> last, as |-> table[i].as]
<1>1. /\ TypeOK /\ Coalesced /\ Position /\ Cut(pieces, cur - 1)
      /\ phase = "split" /\ i \in Family /\ table[i].first <= hi
      /\ pieces' = pieces \o Gap(first) \o <<row>>
      /\ \/ last >= hi /\ phase' = "done" /\ i' = i /\ cur' = cur
         \/ ~(last >= hi) /\ i' = i + 1 /\ cur' = NextAddr(last) /\ phase' = phase
      /\ UNCHANGED <<taken, table, network>>
  BY DEF Inv, Split, Touches, Upto
<1>2. lo' = lo /\ hi' = hi /\ Family' = Family /\ Coalesced' /\ \A o, a : Right(o, a)' = Right(o, a)
  <2>1. lo' = lo /\ hi' = hi /\ Family' = Family
    BY <1>1 DEF lo, hi, Family
  <2>2. phase' # "coalesce"
    BY <1>1
  <2> QED
    BY <1>1, <2>1, <2>2 DEF Coalesced, Bounds, TableNormal, Newest, Firsts, Says, Right
<1>3. /\ table[i].first \in Addr /\ table[i].last \in Addr
      /\ table[i].first \in Int /\ table[i].last \in Int /\ table[i].first <= table[i].last
      /\ table[i].as \in AS /\ i \in 1..MaxRow /\ table[i].as # None
      /\ Is4(table[i].last) = Is4(lo)
  BY <1>1, FamilyFacts, OriginAssumption
<1>4. /\ lo \in Int /\ hi \in Int /\ cur \in Int /\ lo <= cur /\ cur <= hi
      /\ cur \in Addr /\ hi \in Addr /\ cur <= table[i].last
      /\ \A j \in Family : j < i => table[j].last < cur
  BY <1>1, EntryFacts DEF Position, TypeOK
<1>5. /\ first \in Addr /\ last \in Addr /\ first \in Int /\ last \in Int
      /\ cur <= first /\ first <= last /\ last <= hi
      /\ table[i].first <= first /\ last <= table[i].last
      /\ cur < first => first = table[i].first
      /\ last < hi => last = table[i].last
  BY <1>1, <1>3, <1>4 DEF Hi, Lo
<1> HIDE DEF first, last
<1>6. \A a \in first..last : Right(table[i].as, a)
  BY <1>1, <1>3, <1>5 DEF Right, Covers
<1>7. Cut(pieces', last)
  <2>1. pieces \in Seq(Piece) /\ pieces \in Seq(AS \cup Piece)
    BY <1>1 DEF TypeOK
  <2>2. CASE cur < first
    <3> DEFINE gap == [first |-> cur, last |-> first - 1, as |-> None]
    <3>1. first - 1 \in Addr /\ cur <= first - 1
      BY <1>4, <1>5, <2>2, AddrAssumption DEF Addr
    <3>2. ASSUME NEW a \in cur..(first - 1), NEW j \in Family, Covers(table[j], a)
          PROVE  FALSE
      <4>1. /\ a \in Int /\ cur <= a /\ a < table[i].first /\ j \in Nat /\ i \in Nat
            /\ table[j].first \in Int /\ table[j].last \in Int
            /\ table[j].first <= a /\ a <= table[j].last
        BY <1>1, <1>4, <1>5, <2>2, <3>2, FamilyFacts DEF Covers
      <4>2. j < i \/ j = i \/ i < j
        BY <4>1
      <4>3. i < j => table[i].last < table[j].first
        BY <1>1, FamilyFacts
      <4> QED
        BY <1>3, <1>4, <4>1, <4>2, <4>3
    <3>3. \A a \in cur..(first - 1) : Right(None, a)
      BY <3>2 DEF Right
    <3>4. Cut(Append(pieces, gap), first - 1)
      BY <1>1, <1>4, <3>1, <3>3, Extend
    <3>5. Cut(Append(Append(pieces, gap), row), last)
      <4> DEFINE p == Append(pieces, gap)
      <4> HIDE DEF p
      <4>1. Cut(p, first - 1) /\ lo <= first
        BY <1>4, <1>5, <3>4 DEF p
      <4> SUFFICES Cut(Append(p, row), last)
        BY DEF p
      <4> QED
        BY <1>1, <1>3, <1>5, <1>6, <4>1, Extend
    <3>6. pieces' = Append(Append(pieces, gap), row)
      <4> HIDE DEF gap, row
      <4>1. Gap(first) = <<gap>>
        BY <2>2 DEF Gap, gap
      <4> QED
        BY <1>1, <2>1, <4>1
    <3> QED
      BY <3>5, <3>6
  <2>3. CASE ~(cur < first)
    <3>1. cur = first
      BY <1>4, <1>5, <2>3
    <3>2. Cut(Append(pieces, row), last)
      BY <1>1, <1>3, <1>4, <1>5, <1>6, <3>1, Extend
    <3>3. pieces' = Append(pieces, row)
      <4> HIDE DEF row
      <4>1. Gap(first) = <<>>
        BY <2>3 DEF Gap
      <4> QED
        BY <1>1, <2>1, <4>1
    <3> QED
      BY <3>2, <3>3
  <2> QED
    BY <2>2, <2>3
<1>8. pieces' \in Seq(Piece)
  BY <1>7 DEF Cut
<1>9. CASE last >= hi /\ phase' = "done" /\ i' = i /\ cur' = cur
  <2>1. last = hi
    BY <1>4, <1>5, <1>9
  <2>2. Upto' = hi
    BY <1>2, <1>9 DEF Upto
  <2>3. Cut(pieces, Upto)'
    BY <1>2, <1>7, <2>1, <2>2 DEF Cut
  <2>4. TypeOK'
    BY <1>1, <1>8, <1>9 DEF TypeOK
  <2>5. Position'
    BY <1>9 DEF Position
  <2> QED
    BY <1>2, <2>3, <2>4, <2>5 DEF Inv
<1>10. CASE ~(last >= hi) /\ i' = i + 1 /\ cur' = NextAddr(last) /\ phase' = phase
  <2>1. last < hi /\ last = table[i].last /\ Is4(last) = Is4(hi)
    BY <1>1, <1>3, <1>4, <1>5, <1>10, EntryFacts
  <2>2. cur' = last + 1 /\ cur' \in Addr
    <3>1. NextAddr(last) # Invalid
      BY <1>4, <1>5, <2>1, NextFacts
    <3> QED
      BY <1>5, <1>10, <3>1, NextFacts
  <2>3. TypeOK'
    BY <1>1, <1>3, <1>8, <1>10, <2>2, RowBoundAssumption DEF TypeOK
  <2>4. Cut(pieces, Upto)'
    <3>1. Upto' = last
      BY <1>1, <1>5, <1>10, <2>2 DEF Upto
    <3> QED
      BY <1>2, <1>7, <3>1 DEF Cut
  <2>5. Position'
    <3>1. cur' \in lo..hi
      BY <1>4, <1>5, <2>1, <2>2
    <3>2. ASSUME NEW j \in Family, j < i + 1
          PROVE  table[j].last < cur'
      <4>1. j = i \/ j < i
        BY <1>1, <1>3, <3>2, FamilyFacts
      <4>2. table[j].last \in Int
        BY <1>1, FamilyFacts
      <4> QED
        BY <1>4, <1>5, <2>1, <2>2, <4>1, <4>2
    <3>3. i + 1 \in Family => cur' <= table[i + 1].last
      <4>1. i < i + 1
        BY <1>3
      <4>2. ASSUME i + 1 \in Family
            PROVE  cur' <= table[i + 1].last
        <5>1. /\ table[i].last < table[i + 1].first
              /\ table[i + 1].first <= table[i + 1].last
              /\ table[i + 1].first \in Int /\ table[i + 1].last \in Int
          BY <1>1, <4>1, <4>2, FamilyFacts
        <5> QED
          BY <1>3, <2>1, <2>2, <5>1
      <4> QED
        BY <4>2
    <3>4. ASSUME i + 1 \notin Family, NEW j \in Family
          PROVE  j < i + 1
      <4>1. j \in Nat /\ i \in Nat
        BY <1>1, FamilyFacts
      <4>2. ~(i + 1 <= j)
        <5>1. i + 1 \in Int /\ i <= i + 1
          BY <4>1
        <5> QED
          BY <1>1, <3>4, <5>1, FamilyFacts
      <4> QED
        BY <4>1, <4>2
    <3> QED
      BY <1>2, <1>10, <1>1, <3>1, <3>2, <3>3, <3>4 DEF Position
  <2> QED
    BY <1>2, <2>3, <2>4, <2>5 DEF Inv
<1> QED
  BY <1>1, <1>9, <1>10

\* Past the last announcement the rest of the entry is cut off unannounced.
LEMMA TrailInv ==
    ASSUME Inv, Trail
    PROVE  Inv'
<1> DEFINE rest == [first |-> cur, last |-> hi, as |-> None]
<1>1. /\ TypeOK /\ Coalesced /\ Position /\ Cut(pieces, cur - 1)
      /\ phase = "split" /\ ~Touches(i)
      /\ pieces' = Append(pieces, rest)
      /\ phase' = "done" /\ UNCHANGED <<taken, table, network, i, cur>>
  BY DEF Inv, Trail, Upto
<1>2. lo' = lo /\ hi' = hi /\ Family' = Family /\ Coalesced' /\ \A o, a : Right(o, a)' = Right(o, a)
  <2>1. lo' = lo /\ hi' = hi /\ Family' = Family
    BY <1>1 DEF lo, hi, Family
  <2>2. phase' # "coalesce"
    BY <1>1
  <2> QED
    BY <1>1, <2>1, <2>2 DEF Coalesced, Bounds, TableNormal, Newest, Firsts, Says, Right
<1>3. /\ lo \in Int /\ hi \in Int /\ cur \in Int /\ lo <= cur /\ cur <= hi
      /\ cur \in Addr /\ hi \in Addr /\ i \in Nat
      /\ \A j \in Family : j < i => table[j].last < cur
      /\ i \notin Family => \A j \in Family : j < i
  BY <1>1, EntryFacts DEF Position, TypeOK
<1>4. ASSUME NEW a \in cur..hi, NEW j \in Family, Covers(table[j], a)
      PROVE  FALSE
  <2>1. /\ a \in Int /\ j \in Nat /\ table[j].first \in Int /\ table[j].last \in Int
        /\ table[j].first <= a /\ a <= table[j].last /\ cur <= a /\ a <= hi
    BY <1>1, <1>3, <1>4, FamilyFacts DEF Covers
  <2>2. ~(j < i)
    BY <1>3, <2>1
  <2>3. i \in Family
    BY <1>3, <2>2
  <2>4. /\ hi < table[i].first /\ table[i].first \in Int /\ table[i].last \in Int
        /\ table[i].first <= table[i].last
    BY <1>1, <1>3, <2>3, FamilyFacts DEF Touches
  <2>5. j = i \/ table[i].last < table[j].first
    BY <1>1, <1>3, <2>1, <2>2, <2>3, FamilyFacts
  <2> QED
    BY <1>3, <2>1, <2>4, <2>5
<1>5. Cut(pieces', hi)
  <2>1. \A a \in cur..hi : Right(None, a)
    BY <1>4 DEF Right
  <2>2. Cut(Append(pieces, rest), hi)
    BY <1>1, <1>3, <2>1, Extend
  <2> QED
    BY <1>1, <2>2
<1>6. Cut(pieces, Upto)'
  <2>1. Upto' = hi
    BY <1>1, <1>2 DEF Upto
  <2> QED
    BY <1>2, <1>5, <2>1 DEF Cut
<1>7. TypeOK'
  BY <1>1, <1>5 DEF TypeOK, Cut
<1>8. Position'
  BY <1>1 DEF Position
<1> QED
  BY <1>2, <1>6, <1>7, <1>8 DEF Inv

-----------------------------------------------------------------------------
\* Inv holds of every reachable state: each turn of either loop keeps it.
THEOREM Invariance == Spec => []Inv
<1>1. Init => Inv
  <2> SUFFICES ASSUME Init
               PROVE  Inv
    OBVIOUS
  <2>1. TypeOK /\ Coalesced /\ phase = "coalesce" /\ pieces = <<>>
    BY InitCoalesced DEF Init
  <2>2. Cut(pieces, Upto)
    BY <2>1, NothingCut DEF Upto
  <2>3. Position
    BY <2>1 DEF Position
  <2> QED
    BY <2>1, <2>2, <2>3 DEF Inv
<1>2. Inv /\ [Next]_vars => Inv'
  <2> SUFFICES ASSUME Inv, [Next]_vars
               PROVE  Inv'
    OBVIOUS
  <2>1. ASSUME NEW r \in Row, Take(r)
        PROVE  Inv'
    <3>1. /\ TypeOK /\ Coalesced /\ phase = "coalesce" /\ pieces = <<>>
          /\ phase' = phase /\ pieces' = pieces /\ network' = network
          /\ i' = i /\ cur' = cur /\ taken' = Append(taken, r)
      BY <2>1 DEF Inv, Coalesced, Bounds, Take, loop
    <3>2. table' \in Seq(Row) /\ Coalesced'
      BY <2>1, <3>1, TakeInv
    <3>3. TypeOK'
      BY <3>1, <3>2 DEF TypeOK
    <3>4. Position'
      BY <3>1 DEF Position
    <3>5. Cut(pieces, Upto)'
      <4>1. pieces' \in Seq(Piece) /\ DOMAIN pieces' = {}
        BY <3>1
      <4>2. Upto' = lo' - 1 /\ lo' = lo
        BY <3>1 DEF Upto, lo
      <4>3. \A a \in Addr : ~(lo <= a /\ a <= lo - 1)
        BY <3>1, EntryFacts
      <4> QED
        BY <4>1, <4>2, <4>3 DEF Cut
    <3> QED
      BY <3>2, <3>3, <3>4, <3>5 DEF Inv
  <2>2. CASE Search
    BY <2>2, SearchInv
  <2>3. CASE Split
    BY <2>3, SplitInv
  <2>4. CASE Trail
    BY <2>4, TrailInv
  <2>5. CASE UNCHANGED vars
    BY <2>5 DEF vars, Inv, TypeOK, Coalesced, Bounds, TableNormal, Newest, Firsts, Says,
                Position, Cut, Upto, Right, Family, lo, hi
  <2> QED
    BY <2>1, <2>2, <2>3, <2>4, <2>5 DEF Next
<1> QED
  BY <1>1, <1>2, PTL DEF Spec

\* The types of the coalescing loop's and of enrichEntry's variables.
THEOREM TypeCorrect == Spec => []TypeOK
<1>1. Inv => TypeOK
  BY DEF Inv
<1> QED
  BY <1>1, Invariance, PTL

(***************************************************************************)
(* Whatever rows come in whatever order among equals, CoalesceASNRanges     *)
(* leaves the table ascending, disjoint and minimal.                        *)
(***************************************************************************)
THEOREM CoalescedNormal == Spec => []TableNormal
<1>1. Inv => TableNormal
  BY DEF Inv, Coalesced
<1> QED
  BY <1>1, Invariance, PTL

(***************************************************************************)
(* Coalescing gives every address to the first row that covered it, clamped *)
(* and merged as the rows may be.                                           *)
(***************************************************************************)
THEOREM FirstRow == Spec => []FirstRowWins
<1>1. Inv => FirstRowWins
  <2> SUFFICES ASSUME Inv, NEW a \in Addr
      PROVE  LET Covering == {k \in DOMAIN taken : Covers(taken[k], a)}
                 Listed   == {k \in DOMAIN table : Covers(table[k], a)}
             IN  /\ Covering = {} <=> Listed = {}
                 /\ \A k \in Covering, j \in Listed :
                       (\A m \in Covering : k <= m) => table[j].as = taken[k].as
    BY DEF FirstRowWins
  <2>1. /\ (\E k \in DOMAIN taken : Covers(taken[k], a)) <=> \E o \in AS : Says(table, a, o)
        /\ \A k \in DOMAIN taken, o \in AS :
              /\ Covers(taken[k], a)
              /\ \A m \in DOMAIN taken : Covers(taken[m], a) => k <= m
              /\ Says(table, a, o)
              => o = taken[k].as
    BY DEF Inv, Coalesced, Firsts
  <2>2. \A j \in DOMAIN table : Covers(table[j], a) =>
            table[j].as \in AS /\ Says(table, a, table[j].as)
    <3> SUFFICES ASSUME NEW j \in DOMAIN table, Covers(table[j], a)
                 PROVE  table[j].as \in AS /\ Says(table, a, table[j].as)
      OBVIOUS
    <3>1. table[j] \in Row
      BY DEF Inv, TypeOK
    <3> QED
      BY <3>1, RowFacts DEF Says
  <2>3. (\E o \in AS : Says(table, a, o)) => \E j \in DOMAIN table : Covers(table[j], a)
    BY DEF Says
  <2> QED
    BY <2>1, <2>2, <2>3
<1> QED
  BY <1>1, Invariance, PTL

(***************************************************************************)
(* enrichEntry yields the entry it was given: every address once, in order, *)
(* and none outside, at whatever announcements it is cut.                   *)
(***************************************************************************)
THEOREM PartitionsEntry == Spec => []PiecesPartitionEntry
<1>1. Inv => PiecesPartitionEntry
  BY DEF Inv, Cut, Upto, PiecesPartitionEntry
<1> QED
  BY <1>1, Invariance, PTL

(***************************************************************************)
(* Every piece has the origin the table has for all of its addresses, and   *)
(* none where the table has none.                                           *)
(***************************************************************************)
THEOREM MatchesTable == Spec => []PiecesMatchTable
<1>1. Inv => PiecesMatchTable
  BY DEF Inv, Cut, Right, PiecesMatchTable
<1> QED
  BY <1>1, Invariance, PTL

-----------------------------------------------------------------------------
(***************************************************************************)
(* Termination.  What is left to do: the loops, the rows to come, and the   *)
(* addresses of the entry from cur on.                                      *)
(***************************************************************************)
LoopsLeft == CASE phase = "coalesce" -> 2 [] phase = "split" -> 1 [] OTHER -> 0
RowsLeft == IF phase = "coalesce" THEN MaxRow - Len(taken) ELSE 0
AddrsLeft == IF phase = "split" THEN hi - cur ELSE 0

Left == <<LoopsLeft, RowsLeft, AddrsLeft>>

Measure == [1..3 -> Nat]
Smaller == {p \in Nat \X Nat : p[1] < p[2]}
Descent == LexProductOrdering(Smaller, Nat, 3)
Descends == <<Left', Left>> \in Descent

\* Nothing can get smaller for ever.
LEMMA DescentEnds == IsWellFoundedOn(Descent, Measure)
<1>1. IsWellFoundedOn(Smaller, Nat)
  BY NatLessThanWellFounded DEF OpToRel, Smaller
<1> QED
  BY <1>1, WFLexProductOrdering DEF Descent, Measure

\* One measure is below another if it is smaller at one place and the same before.
LEMMA DescentRule ==
    ASSUME NEW x \in Measure, NEW y \in Measure,
           \/ x[1] < y[1]
           \/ x[1] = y[1] /\ x[2] < y[2]
           \/ x[1] = y[1] /\ x[2] = y[2] /\ x[3] < y[3]
    PROVE  <<x, y>> \in Descent
<1>1. \A j \in 1..3 : x[j] \in Nat /\ y[j] \in Nat
  BY DEF Measure
<1>2. PICK j \in 1..3 : x[j] < y[j] /\ \A m \in 1..(j - 1) : x[m] = y[m]
  <2>1. CASE x[1] < y[1]
    BY <2>1
  <2>2. CASE x[1] = y[1] /\ x[2] < y[2]
    BY <2>2
  <2>3. CASE x[1] = y[1] /\ x[2] = y[2] /\ x[3] < y[3]
    BY <2>3
  <2> QED
    BY <2>1, <2>2, <2>3
<1>3. <<x[j], y[j]>> \in Smaller
  BY <1>1, <1>2 DEF Smaller
<1>4. <<x, y>> \in [1..3 -> Nat] \X [1..3 -> Nat]
  BY DEF Measure
<1> QED
  BY <1>2, <1>3, <1>4 DEF Descent, LexProductOrdering

\* What is left is a number of each: cur does not run past the entry.
LEMMA LeftIsMeasure == Inv => Left \in Measure
<1> SUFFICES ASSUME Inv PROVE Left \in Measure
  OBVIOUS
<1>1. RowsLeft \in Nat
  BY RowBoundAssumption DEF Inv, TypeOK, Coalesced, Bounds, RowsLeft
<1>2. AddrsLeft \in Nat
  BY EntryFacts DEF Inv, Position, AddrsLeft
<1> QED
  BY <1>1, <1>2 DEF Left, LoopsLeft, Measure

\* A turn of the loop that is not the last moves cur on: the row it looked at ends
\* at or after cur, and before the end of the entry, so after it comes an address.
LEMMA CurMovesOn ==
    ASSUME Inv, Inv', Split, phase' = "split"
    PROVE  hi' = hi /\ cur' > cur
<1> DEFINE last == Lo(table[i].last, hi)
<1>1. i \in Family /\ last < hi /\ cur' = NextAddr(last) /\ network' = network
  <2>1. table[i].last \in Int /\ hi \in Int /\ i \in Family
    BY EntryFacts, FamilyFacts DEF Inv, Split, Touches
  <2> QED
    BY <2>1 DEF Split, Lo
<1>2. cur <= last /\ cur \in Int
  <2>1. cur \in lo..hi /\ cur <= table[i].last
    BY <1>1 DEF Inv, Position, Split
  <2> QED
    BY <2>1, EntryFacts DEF Inv, Lo
<1>3. cur' \in lo..hi /\ hi' = hi /\ lo \in Addr
  BY <1>1, EntryFacts DEF Inv, Position, lo, hi
<1>4. cur' = last + 1
  BY <1>1, <1>3, AddrAssumption DEF NextAddr, Invalid, Addr
<1>5. last \in Int
  BY <1>1, EntryFacts, FamilyFacts DEF Inv, Lo
<1> HIDE DEF last
<1> QED
  BY <1>2, <1>3, <1>4, <1>5

\* Every step leaves less to do.
LEMMA StepDescends ==
    ASSUME Inv, Inv', Left \in Measure, Left' \in Measure, Next
    PROVE  <<Left', Left>> \in Descent
<1>1. ASSUME NEW r \in Row, Take(r)
      PROVE  <<Left', Left>> \in Descent
  <2>1. phase = "coalesce" /\ phase' = "coalesce" /\ Len(taken') = Len(taken) + 1
    BY <1>1 DEF Take, loop, Inv, TypeOK
  <2>2. Len(taken) \in Nat
    BY DEF Inv, TypeOK
  <2>3. Left'[1] = Left[1] /\ Left'[2] < Left[2]
    BY <2>1, <2>2, RowBoundAssumption DEF Left, LoopsLeft, RowsLeft
  <2> QED
    BY <2>3, DescentRule
<1>2. CASE Search \/ Trail
  <2>1. Left'[1] < Left[1]
    BY <1>2 DEF Search, Trail, Left, LoopsLeft
  <2> QED
    BY <2>1, DescentRule
<1>3. CASE Split
  <2>1. CASE phase' = "done"
    <3>1. Left'[1] < Left[1]
      BY <1>3, <2>1 DEF Split, Left, LoopsLeft
    <3> QED
      BY <3>1, DescentRule
  <2>2. CASE phase' = "split"
    <3>1. phase = "split"
      BY <1>3 DEF Split
    <3>2. hi' = hi /\ cur' > cur /\ cur \in Int /\ cur' \in Int /\ hi \in Int
      BY <1>3, <2>2, CurMovesOn, EntryFacts DEF Inv, TypeOK
    <3>3. Left'[1] = Left[1] /\ Left'[2] = Left[2] /\ Left'[3] < Left[3]
      BY <2>2, <3>1, <3>2 DEF Left, LoopsLeft, RowsLeft, AddrsLeft
    <3> QED
      BY <3>3, DescentRule
  <2> QED
    BY <1>3, <2>1, <2>2 DEF Split
<1> QED
  BY <1>1, <1>2, <1>3 DEF Next

(***************************************************************************)
(* Neither loop goes on for ever, in particular not that of enrichEntry at  *)
(* the last address of a family, where Next is no address: each turn leaves *)
(* less of the entry, in a well-founded order.                              *)
(***************************************************************************)
THEOREM LoopsEnd ==
    /\ IsWellFoundedOn(Descent, Measure)
    /\ Spec => [](Left \in Measure) /\ [][Descends]_vars
<1>1. Spec => [](Left \in Measure)
  BY LeftIsMeasure, Invariance, PTL
<1>2. Inv /\ Inv' /\ Left \in Measure /\ (Left \in Measure)' /\ [Next]_vars
        => [Descends]_vars
  BY StepDescends DEF Descends
<1>3. Spec => [][Descends]_vars
  BY <1>1, <1>2, Invariance, PTL DEF Spec
<1> QED
  BY <1>1, <1>3, DescentEnds
=============================================================================
