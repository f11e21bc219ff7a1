----------------------------- MODULE ReaderProofs -----------------------------
(***************************************************************************)
(* Proofs about Reader, for every width of addresses, every set of aliases  *)
(* and every tree: what Lookup reports is honest, and the index, the CSV    *)
(* and the report of Verify agree with it.                                  *)
(***************************************************************************)
EXTENDS Reader, TreeProofs, FiniteSetTheorems

-----------------------------------------------------------------------------
(***************************************************************************)
(* Blocks of addresses: numbers that agree on their first bits.             *)
(***************************************************************************)
\* Powers of two are positive, and 2^0 is 1.
LEMMA Powers ==
    /\ \A n \in 0..V6Bits : 2^n \in Nat \ {0}
    /\ 2^0 = 1
<1>1. V6Bits \in Nat
    BY BitsAssumption
<1>2. \A n \in 0..V6Bits : 2^n \in Nat \ {0}
    BY <1>1, PowerAssumption
<1>3. 0 \in 0..V6Bits /\ 0 \in 0 .. V6Bits - 0 /\ 0 + 0 = 0
    BY <1>1
<1>4. 2^0 = (2^0) * (2^0) /\ 2^0 \in Nat \ {0}
    BY <1>3, PowerAssumption
<1>5. ASSUME NEW x \in Nat \ {0}, x = x * x PROVE x = 1
    BY <1>5
<1> QED BY <1>2, <1>4, <1>5

\* A block of m bits is 2^(n - m) blocks of n bits.
LEMMA SplitPower ==
    ASSUME NEW w \in 0..V6Bits, NEW n \in 0..w, NEW m \in 0..n
    PROVE  2^(w - m) = (2^(w - n)) * (2^(n - m))
<1>1. /\ w - n \in 0..V6Bits /\ n - m \in 0 .. V6Bits - (w - n)
      /\ (w - n) + (n - m) = w - m
    BY BitsAssumption
<1> QED BY <1>1, PowerAssumption

\* The bits of x above those of q, and those below z: names that keep the
\* arithmetic out of the steps that only compose them.
High(x, q) == x \div q
Low(x, z) == x % z
IsProduct(z, q, r) == {q, r, z} \subseteq Nat \ {0} /\ z = q * r

\* Taking a remainder and dropping bits commute.
LEMMA ModDiv ==
    ASSUME NEW x \in Nat, NEW q, NEW r, NEW z, IsProduct(z, q, r)
    PROVE  High(Low(x, z), q) = Low(High(x, q), r)
<1>0. /\ q \in Nat \ {0} /\ r \in Nat \ {0} /\ z \in Nat \ {0}
      /\ z = q * r
    BY DEF IsProduct
<1> DEFINE d == x \div q  t == x % q  c == d \div r  u == d % r
<1>1. d \in Nat /\ t \in 0..(q - 1) /\ x = q * d + t
    BY <1>0, Division
<1>2. c \in Nat /\ u \in 0..(r - 1) /\ d = r * c + u
    BY <1>0, <1>1, Division
<1>3. x \div z = c
    BY <1>0, DivNested
<1>4. x = z * c + (x % z) /\ x % z \in Nat
    <2>1. x = z * (x \div z) + (x % z) /\ x % z \in 0..(z - 1)
        BY <1>0, Division
    <2> HIDE DEF c
    <2> QED BY <1>3, <2>1
<1> DEFINE y == x % z
<1>5. x = z * c + y /\ y \in Nat
    BY <1>4
<1> HIDE DEF d, t, c, u, y
<1>6. y = u * q + t
    <2>1. q * d = (q * r) * c + q * u
        BY <1>0, <1>1, <1>2
    <2>2. z * c \in Nat /\ u * q \in Nat /\ q * d = z * c + u * q
        BY <1>0, <1>2, <2>1
    <2> QED BY <1>0, <1>1, <1>5, <2>2
<1>7. (u * q + t) \div q = u
    <2>1. u \in Nat /\ t \in Nat
        BY <1>1, <1>2
    <2>2. (u * q + t) \div q = u + (t \div q)
        BY <1>0, <2>1, DivShift
    <2>3. t \div q = 0
        BY <1>0, <1>1
    <2> QED BY <2>1, <2>2, <2>3
<1> QED BY <1>6, <1>7 DEF u, d, y, High, Low

\* Numbers that agree still do after bits have been cut off at both ends.
LEMMA CutAgrees ==
    ASSUME NEW x \in Nat, NEW y \in Nat, NEW p, NEW q, NEW r, NEW s, NEW z,
           IsProduct(z, q, r), IsProduct(s, p, q), High(x, s) = High(y, s)
    PROVE  High(Low(High(x, p), z), q) = High(Low(High(y, p), z), q)
<1>1. /\ p \in Nat \ {0} /\ q \in Nat \ {0} /\ s = p * q
    BY DEF IsProduct
<1>2. High(x, p) \in Nat /\ High(y, p) \in Nat
    BY <1>1, Division DEF High
<1>3. High(High(x, p), q) = High(High(y, p), q)
    BY <1>1, DivNested DEF High
<1>4. High(Low(High(x, p), z), q) = Low(High(High(x, p), q), r)
    BY <1>2, ModDiv
<1>5. High(Low(High(y, p), z), q) = Low(High(High(y, p), q), r)
    BY <1>2, ModDiv
<1> QED BY <1>3, <1>4, <1>5

\* What is added to a multiple of z and is less than z is the remainder.
LEMMA Remainder ==
    ASSUME NEW c \in Nat, NEW z \in Nat \ {0}, NEW v \in 0..(z - 1)
    PROVE  (c * z + v) % z = v
<1> DEFINE x == c * z + v
<1>1. x \in Nat /\ v \in Nat /\ c * z = z * c /\ z * c \in Nat
    OBVIOUS
<1>2. x \div z = c
    <2>1. x \div z = c + (v \div z)
        BY <1>1, DivShift
    <2>2. v \div z = 0
        OBVIOUS
    <2> QED BY <2>1, <2>2
<1>3. x = z * (x \div z) + (x % z) /\ x % z \in 0..(z - 1)
    <2> HIDE DEF x
    <2> QED BY <1>1, Division
<1>4. x = z * c + v
    BY <1>1
<1> HIDE DEF x
<1>5. x % z = v
    BY <1>1, <1>2, <1>3, <1>4
<1> QED BY <1>5 DEF x

\* Masking and taking a remainder commute.
LEMMA MaskMod ==
    ASSUME NEW x \in Nat, NEW q \in Nat \ {0}, NEW r \in Nat \ {0},
           NEW z \in Nat \ {0}, z = q * r
    PROVE  (x - (x % q)) % z = (x % z) - ((x % z) % q)
<1> DEFINE y == x % z  c == x \div z  u == y \div q  t == x % q
<1>1. c \in Nat /\ y \in 0..(z - 1) /\ x = z * c + y
    BY Division
<1>2. u \in Nat /\ y % q \in 0..(q - 1) /\ y = q * u + (y % q)
    <2>1. y \in Nat
        BY <1>1
    <2> HIDE DEF y
    <2> QED BY <2>1, Division
<1>3. t = y % q
    <2>1. x = q * (x \div q) + t /\ t \in 0..(q - 1) /\ x \div q \in Nat
        BY Division
    <2>2. \E k \in Nat : x = k * q + (y % q)
        <3> DEFINE s == y % q
        <3>1. y = q * u + s /\ s \in Nat
            BY <1>2
        <3> HIDE DEF c, y, u, s
        <3>2. x = (r * c + u) * q + s /\ r * c + u \in Nat
            BY <1>1, <1>2, <3>1
        <3> QED BY <3>2 DEF s
    <2>3. PICK k \in Nat : x = k * q + (y % q)
        BY <2>2
    <2> HIDE DEF y
    <2> QED BY <1>2, <2>3, Remainder
<1>4. x - t = c * z + (y - t) /\ y - t \in 0..(z - 1)
    <2> HIDE DEF c, y, u, t
    <2>1. y = q * u + t /\ t \in 0..(q - 1) /\ q * u \in Nat
        BY <1>2, <1>3
    <2>2. z * c = c * z /\ z * c \in Nat
        BY <1>1
    <2> QED BY <1>1, <2>1, <2>2
<1>5. (c * z + (y - t)) % z = y - t
    <2> DEFINE v == y - t
    <2>1. c \in Nat /\ v \in 0..(z - 1)
        BY <1>1, <1>4
    <2> HIDE DEF v
    <2>2. (c * z + v) % z = v
        BY <2>1, Remainder
    <2> QED BY <2>2 DEF v
<1>6. (x - t) % z = y - (y % q)
    BY <1>3, <1>4, <1>5
<1> QED BY <1>6

\* A block is the range from its masked address on; its members share that
\* address.
LEMMA MaskFacts ==
    ASSUME NEW w \in 0..V6Bits, NEW x \in Nat, NEW n \in 0..w
    PROVE  /\ Mask(w, x, n) \in 0..x
           /\ Agree(w, x, Mask(w, x, n), n)
           /\ \A y \in Nat :
                 /\ Agree(w, x, y, n) => Mask(w, y, n) = Mask(w, x, n)
                 /\ Agree(w, x, y, n) <=>
                       Mask(w, x, n) <= y /\ y <= Mask(w, x, n) + (2^(w - n)) - 1
<1> DEFINE q == 2^(w - n)  d == x \div q
<1>1. q \in Nat \ {0}
    BY Powers, BitsAssumption
<1>2. \A y : Agree(w, x, y, n) <=> y \div q = d
    BY DEF Agree
<1>3. \A y : Mask(w, y, n) = y - (y % q)
    BY DEF Mask
<1> HIDE DEF q
<1>4. \A y \in Nat : y \div q \in Nat /\ y % q \in 0..(q - 1) /\ y = q * (y \div q) + (y % q)
    BY <1>1, Division
<1>5. d \in Nat
    BY <1>4
<1> DEFINE m == q * d
<1>6. m \in Nat /\ m = d * q
    BY <1>1, <1>5
<1>7. \A y \in Nat : y \div q = d => Mask(w, y, n) = m
    <2> SUFFICES ASSUME NEW y \in Nat, y \div q = d PROVE Mask(w, y, n) = m
        OBVIOUS
    <2>1. y = m + (y % q) /\ y % q \in Nat
        BY <1>4
    <2>2. Mask(w, y, n) = y - (y % q)
        BY <1>3
    <2> HIDE DEF m
    <2> QED BY <1>6, <2>1, <2>2
<1>8. Mask(w, x, n) = m /\ m <= x
    <2>1. x = m + (x % q) /\ x % q \in Nat
        BY <1>4
    <2>2. Mask(w, x, n) = m
        BY <1>7
    <2> HIDE DEF m
    <2> QED BY <1>6, <2>1, <2>2
<1> HIDE DEF d
<1>9. ASSUME NEW t \in 0..(q - 1)
      PROVE  (m + t) \div q = d
    <2>1. t \in Nat
        BY <1>1
    <2>2. (d * q + t) \div q = d + (t \div q)
        BY <1>1, <1>5, <2>1, DivShift
    <2>3. t \div q = 0
        BY <1>1
    <2> HIDE DEF m
    <2> QED BY <1>5, <1>6, <2>2, <2>3
<1>10. ASSUME NEW y \in Nat
       PROVE  y \div q = d <=> m <= y /\ y <= m + q - 1
    <2>1. CASE y \div q = d
        <3>1. y = m + (y % q) /\ y % q \in 0..(q - 1)
            BY <1>4, <2>1
        <3> HIDE DEF m
        <3> QED BY <1>1, <1>6, <2>1, <3>1
    <2>2. CASE m <= y /\ y <= m + q - 1
        <3> DEFINE t == y - m
        <3>1. t \in 0..(q - 1) /\ y = m + t
            BY <1>1, <1>6, <2>2
        <3> HIDE DEF t
        <3>2. (m + t) \div q = d
            BY <1>9, <3>1
        <3> QED BY <2>2, <3>1, <3>2
    <2> QED BY <2>1, <2>2
<1>11. m \div q = d
    <2>1. 0 \in 0..(q - 1) /\ m + 0 = m
        BY <1>1, <1>6
    <2> QED BY <1>9, <2>1
<1> HIDE DEF m
<1> QED BY <1>2, <1>6, <1>7, <1>8, <1>10, <1>11 DEF q, d

-----------------------------------------------------------------------------
(***************************************************************************)
(* The leaves of the tree.                                                  *)
(***************************************************************************)
\* A set of naturals has a least element.
LEMMA LeastNat ==
    ASSUME NEW T, T \subseteq Nat, T # {}
    PROVE  \E k \in T : \A m \in T : k <= m
<1> DEFINE R == {ss \in Nat \X Nat : ss[1] < ss[2]}
<1>1. IsWellFoundedOn(R, Nat)
    BY NatLessThanWellFounded DEF OpToRel
<1>2. PICK k \in T : \A m \in T : ~(<<m, k>> \in R)
    <2> HIDE DEF R
    <2> QED BY <1>1, WFMin
<1>3. \A m \in T : ~(m < k)
    BY <1>2
<1> QED BY <1>3

\* Roots are addresses, and higher up than a single address.
LEMMA RootFacts ==
    \A f \in Alias \cup {V4Root} :
        f.base \in Nat /\ f.bits \in 0..Root /\ f.bits < V6Bits
<1>1. \A al \in Alias : al.base \in Nat /\ al.bits \in 0..Root
    <2> SUFFICES ASSUME NEW al \in Alias PROVE al.base \in Nat /\ al.bits \in 0..Root
        OBVIOUS
    <2>1. al.base \in V6Addr /\ al.bits \in 1..Root
        BY AliasAssumption
    <2>2. V6Addr \subseteq Nat /\ Root \in Nat
        BY Widths
    <2>3. al.base \in Nat
        BY <2>1, <2>2
    <2>4. al.bits \in 0..Root
        BY <2>1, <2>2
    <2> QED BY <2>3, <2>4
<1>2. V4Root.base \in Nat /\ V4Root.bits \in 0..Root
    BY Widths DEF V4Root
<1>3. Root < V6Bits
    BY BitsAssumption DEF Root
<1> QED BY <1>1, <1>2, <1>3, Widths

\* Agreement is symmetric and transitive, and complete at full length.
LEMMA AgreeFacts ==
    /\ \A w, x, y, n : Agree(w, x, y, n) => Agree(w, y, x, n)
    /\ \A w, x, y, z, n : Agree(w, x, y, n) /\ Agree(w, y, z, n) => Agree(w, x, z, n)
    /\ \A x, y \in Nat : Agree(V6Bits, x, y, V6Bits) => x = y
<1>1. V6Bits - V6Bits = 0
    BY Widths
<1>2. \A x \in Nat : x \div 1 = x
    OBVIOUS
<1>3. \A x, y \in Nat : Agree(V6Bits, x, y, V6Bits) => x = y
    BY <1>1, <1>2, Powers DEF Agree
<1> QED BY <1>3 DEF Agree

\* A part of a leaf is uniform too.
LEMMA LeafLonger ==
    ASSUME NEW a \in Addr, NEW m \in 0..V6Bits, NEW n \in 0..m, Leaf(a, n)
    PROVE  Leaf(a, m)
<1>1. \A x, y \in Nat : Agree(V6Bits, x, y, m) => Agree(V6Bits, x, y, n)
    BY AgreeShorter
<1>2. Addr \subseteq Nat /\ m \in Nat /\ n \in Nat /\ n <= m
    BY Widths
<1>3. \A f \in Alias \cup {V4Root} : m > f.bits \/ ~Agree(V6Bits, a, f.base, m)
    <2> SUFFICES ASSUME NEW f \in Alias \cup {V4Root}
                 PROVE  m > f.bits \/ ~Agree(V6Bits, a, f.base, m)
        OBVIOUS
    <2>1. n > f.bits \/ ~Agree(V6Bits, a, f.base, n)
        BY DEF Leaf
    <2>2. f.base \in Nat /\ f.bits \in Int
        BY RootFacts
    <2> QED BY <1>1, <1>2, <2>1, <2>2
<1>4. \A b \in Addr : tree[b] = tree[a] \/ ~Agree(V6Bits, a, b, m)
    BY <1>1, <1>2 DEF Leaf
<1> QED BY <1>3, <1>4 DEF Leaf

\* Every address is in a leaf, and its depth is the least length of a uniform
\* block.
LEMMA DepthFacts ==
    ASSUME NEW a \in Addr
    PROVE  /\ Depth(a) \in 0..V6Bits
           /\ Leaf(a, Depth(a))
           /\ \A n \in 0..V6Bits : Leaf(a, n) => Depth(a) <= n
<1> DEFINE T == {n \in 0..V6Bits : Leaf(a, n)}
<1>1. Leaf(a, V6Bits)
    BY RootFacts, AgreeFacts, Widths DEF Leaf
<1>2. T \subseteq Nat /\ T # {}
    BY <1>1, Widths
<1>3. PICK k \in T : \A m \in T : k <= m
    <2> HIDE DEF T
    <2> QED BY <1>2, LeastNat
<1>4. k \in 0..V6Bits /\ Leaf(a, k) /\ (k > 0 => ~Leaf(a, k - 1))
    <2>1. k > 0 => k - 1 \in 0..V6Bits /\ k - 1 < k
        BY Widths
    <2> QED BY <1>3, <2>1
<1>5. /\ Depth(a) \in 0..V6Bits /\ Leaf(a, Depth(a))
      /\ Depth(a) > 0 => ~Leaf(a, Depth(a) - 1)
    <2> DEFINE P(n) == Leaf(a, n) /\ (n > 0 => ~Leaf(a, n - 1))
    <2>1. \E n \in 0..V6Bits : P(n)
        BY <1>4
    <2>2. Depth(a) = CHOOSE n \in 0..V6Bits : P(n)
        BY DEF Depth
    <2> HIDE DEF P
    <2>3. Depth(a) \in 0..V6Bits /\ P(Depth(a))
        BY <2>1, <2>2
    <2> QED BY <2>3 DEF P
<1>6. ASSUME NEW n \in 0..V6Bits, Leaf(a, n), ~(Depth(a) <= n)
      PROVE  FALSE
    <2>1. /\ Depth(a) - 1 \in 0..V6Bits /\ n \in 0 .. Depth(a) - 1 /\ Depth(a) > 0
        BY <1>5, <1>6, Widths
    <2>2. Leaf(a, Depth(a) - 1)
        BY <1>6, <2>1, LeafLonger
    <2> QED BY <1>5, <2>1, <2>2
<1> QED BY <1>5, <1>6

\* The addresses of a leaf have its depth and its content.
LEMMA SameLeaf ==
    ASSUME NEW a \in Addr, NEW b \in Addr, Agree(V6Bits, a, b, Depth(a))
    PROVE  Depth(b) = Depth(a) /\ tree[b] = tree[a]
<1>1. ASSUME NEW x \in Addr, NEW y \in Addr, Agree(V6Bits, x, y, Depth(x))
      PROVE  Leaf(y, Depth(x)) /\ tree[y] = tree[x]
    <2>1. Leaf(x, Depth(x))
        BY DepthFacts
    <2>2. tree[y] = tree[x]
        BY <1>1, <2>1 DEF Leaf
    <2>3. \A f \in Alias \cup {V4Root} : Depth(x) > f.bits \/ ~Agree(V6Bits, y, f.base, Depth(x))
        BY <1>1, <2>1, AgreeFacts DEF Leaf
    <2>4. \A c \in Addr : tree[c] = tree[y] \/ ~Agree(V6Bits, y, c, Depth(x))
        BY <1>1, <2>1, <2>2, AgreeFacts DEF Leaf
    <2> QED BY <2>2, <2>3, <2>4 DEF Leaf
<1>2. Leaf(b, Depth(a)) /\ tree[b] = tree[a]
    BY <1>1
<1>3. /\ Depth(a) \in 0..V6Bits /\ Depth(b) \in 0..V6Bits /\ Depth(b) <= Depth(a)
      /\ Depth(b) \in 0..Depth(a)
    <2>1. Depth(a) \in 0..V6Bits /\ Depth(b) \in 0..V6Bits
        BY DepthFacts
    <2>2. Depth(b) <= Depth(a)
        BY <1>2, <2>1, DepthFacts
    <2> QED BY <2>1, <2>2
<1>4. Agree(V6Bits, b, a, Depth(b))
    <2>1. Agree(V6Bits, a, b, Depth(b))
        BY <1>3, AgreeShorter, Widths
    <2> QED BY <2>1, AgreeFacts
<1>5. Leaf(a, Depth(b))
    BY <1>1, <1>4
<1>6. Depth(a) <= Depth(b)
    BY <1>3, <1>5, DepthFacts
<1> QED BY <1>2, <1>3, <1>6

\* No part of a leaf is in an alias.
LEMMA LeafInTree ==
    ASSUME NEW a \in Addr, NEW b \in V6Addr, Agree(V6Bits, a, b, Depth(a))
    PROVE  b \in Addr
<1> DEFINE n == Depth(a)
<1>1. n \in 0..V6Bits /\ n \in Nat /\ Leaf(a, n) /\ a \in Nat /\ b \in Nat
    BY DepthFacts, Widths
<1> HIDE DEF n
<1>2. Agree(V6Bits, a, b, n)
    BY DEF n
<1>3. SUFFICES ASSUME NEW al \in Alias, InAlias(al, b) PROVE FALSE
    BY AddrAssumption
<1>4. al.base \in Nat /\ al.bits \in 0..V6Bits /\ Agree(V6Bits, b, al.base, al.bits)
    <2>1. al.base \in Nat /\ al.bits \in 0..Root
        BY RootFacts
    <2> QED BY <1>3, <2>1, Widths DEF InAlias
<1>5. n > al.bits \/ ~Agree(V6Bits, a, al.base, n)
    BY <1>1 DEF Leaf
<1>6. CASE n > al.bits
    <2>1. al.bits \in 0..n
        BY <1>1, <1>4, <1>6
    <2>2. Agree(V6Bits, a, b, al.bits)
        BY <1>1, <1>2, <2>1, AgreeShorter
    <2>3. Agree(V6Bits, a, al.base, al.bits)
        BY <1>4, <2>2, AgreeFacts
    <2> QED BY <2>3, AddrAssumption DEF InAlias
<1>7. CASE ~(n > al.bits)
    <2>1. n \in 0..al.bits
        BY <1>1, <1>4, <1>7
    <2>2. Agree(V6Bits, b, al.base, n)
        BY <1>1, <1>4, <2>1, AgreeShorter
    <2> QED BY <1>2, <1>5, <1>7, <2>2, AgreeFacts
<1> QED BY <1>6, <1>7

\* IPv4 is the block of the first Root bits.
LEMMA V4Block ==
    /\ \A a \in Nat : a \in V4Addr <=> Agree(V6Bits, a, 0, Root)
    /\ V4Addr \subseteq Addr
<1>1. \A a \in Nat : a \in V4Addr <=> Agree(V6Bits, a, 0, Root)
    <2> SUFFICES ASSUME NEW a \in Nat PROVE a \in V4Addr <=> Agree(V6Bits, a, 0, Root)
        OBVIOUS
    <2> DEFINE q == 2^V4Bits
    <2>1. q \in Nat \ {0}
        BY Widths
    <2>2. a \in V4Addr <=> a < q * 1
        BY <2>1 DEF V4Addr
    <2>3. Agree(V6Bits, a, 0, Root) <=> a \div q = 0 \div q
        BY Widths DEF Agree
    <2> HIDE DEF q
    <2>4. a < q * 1 <=> a \div q < 1
        BY <2>1, DivBound
    <2>5. a \div q \in Nat /\ 0 \div q = 0
        BY <2>1, Division
    <2> QED BY <2>2, <2>3, <2>4, <2>5
<1>2. V4Addr \subseteq Addr
    BY AddrAssumption, AliasAssumption, Widths
<1> QED BY <1>1, <1>2

\* A leaf lies in IPv4 or outside, and one in IPv4 is below its root.
LEMMA LeafOfIPv4 ==
    ASSUME NEW a \in Addr
    PROVE  /\ a \in V4Addr => Depth(a) \in (Root + 1)..V6Bits
           /\ \A b \in Addr : Agree(V6Bits, a, b, Depth(a)) =>
                 (b \in V4Addr <=> a \in V4Addr)
<1>1. ASSUME NEW x \in Addr, x \in V4Addr
      PROVE  Depth(x) \in (Root + 1)..V6Bits
    <2>1. /\ Depth(x) \in 0..V6Bits /\ Depth(x) \in Nat /\ Root \in Nat /\ x \in Nat
          /\ Root \in 0..V6Bits
        BY DepthFacts, Widths
    <2>2. Depth(x) > Root \/ ~Agree(V6Bits, x, 0, Depth(x))
        <3>1. Leaf(x, Depth(x)) /\ V4Root.base = 0 /\ V4Root.bits = Root
            BY DepthFacts DEF V4Root
        <3> QED BY <3>1 DEF Leaf
    <2>3. Agree(V6Bits, x, 0, Root)
        BY <1>1, <2>1, V4Block
    <2>4. ASSUME Depth(x) <= Root PROVE FALSE
        <3>1. Depth(x) \in 0..Root
            BY <2>1, <2>4
        <3>2. Agree(V6Bits, x, 0, Depth(x))
            BY <2>1, <2>3, <3>1, AgreeShorter
        <3> QED BY <2>1, <2>2, <2>4, <3>2
    <2> QED BY <2>1, <2>4
<1>2. ASSUME NEW x \in Addr, NEW y \in Addr, Agree(V6Bits, x, y, Depth(x)), x \in V4Addr
      PROVE  y \in V4Addr
    <2>1. x \in Nat /\ y \in Nat /\ Depth(x) \in 0..V6Bits /\ Root \in 0..Depth(x)
        BY <1>1, <1>2, DepthFacts, Widths
    <2>2. Agree(V6Bits, x, y, Root)
        BY <1>2, <2>1, AgreeShorter
    <2> QED BY <1>2, <2>1, <2>2, V4Block, AgreeFacts
<1>3. ASSUME NEW b \in Addr, Agree(V6Bits, a, b, Depth(a)), b \in V4Addr
      PROVE  a \in V4Addr
    <2>1. Agree(V6Bits, b, a, Depth(b))
        BY <1>3, SameLeaf, AgreeFacts
    <2> QED BY <1>2, <1>3, <2>1
<1> QED BY <1>1, <1>2, <1>3

\* Every address has the start of its leaf, which the walk visits if there is
\* a record; there is one start in a leaf.
StartOf(a) == Mask(V6Bits, a, Depth(a))

LEMMA StartFacts ==
    ASSUME NEW a \in Addr
    PROVE  /\ StartOf(a) \in Addr /\ StartOf(a) <= a
           /\ Agree(V6Bits, a, StartOf(a), Depth(a))
           /\ Depth(StartOf(a)) = Depth(a)
           /\ tree[StartOf(a)] = tree[a]
           /\ StartOf(a) \in V4Addr <=> a \in V4Addr
           /\ tree[a] # NoRecord => StartOf(a) \in Starts
           /\ \A b \in Starts : Agree(V6Bits, b, a, Depth(b)) => b = StartOf(a)
<1> DEFINE n == Depth(a)  s == StartOf(a)
<1>1. n \in 0..V6Bits /\ V6Bits \in 0..V6Bits /\ a \in Nat /\ a \in V6Addr
    BY DepthFacts, Widths
<1>2. s \in 0..a /\ Agree(V6Bits, a, s, n)
    BY <1>1, MaskFacts DEF StartOf
<1>3. s \in V6Addr /\ s \in Nat /\ s <= a
    BY <1>1, <1>2, Widths DEF V6Addr
<1>4. s \in Addr
    BY <1>2, <1>3, LeafInTree
<1>5. Depth(s) = n /\ tree[s] = tree[a]
    BY <1>2, <1>4, SameLeaf
<1>6. s \in V4Addr <=> a \in V4Addr
    BY <1>2, <1>4, LeafOfIPv4
<1>7. Mask(V6Bits, s, n) = s
    <2> HIDE DEF s, n
    <2>1. Mask(V6Bits, s, n) = Mask(V6Bits, a, n)
        BY <1>1, <1>2, <1>3, MaskFacts
    <2> QED BY <2>1 DEF s, n, StartOf
<1>8. tree[a] # NoRecord => s \in Starts
    BY <1>4, <1>5, <1>7 DEF Starts
<1>9. ASSUME NEW b \in Starts, Agree(V6Bits, b, a, Depth(b)) PROVE b = s
    <2>1. b \in Addr /\ b = Mask(V6Bits, b, Depth(b)) /\ b \in Nat /\ Depth(b) \in 0..V6Bits
        BY DepthFacts, Widths DEF Starts
    <2>2. Depth(b) = n
        BY <1>9, <2>1, SameLeaf
    <2>3. Mask(V6Bits, a, Depth(b)) = Mask(V6Bits, b, Depth(b))
        BY <1>1, <1>9, <2>1, MaskFacts
    <2> QED BY <2>1, <2>2, <2>3 DEF StartOf
<1> QED BY <1>2, <1>3, <1>4, <1>5, <1>6, <1>8, <1>9

-----------------------------------------------------------------------------
(***************************************************************************)
(* Where a lookup ends, and what it reports.                                *)
(***************************************************************************)
\* A query outside the aliases ends at its own address.
LEMMA SlotOutside ==
    ASSUME NEW ip \in Ip, AliasesOf(ip) = {}
    PROVE  /\ SlotOf(ip) = ip.addr /\ ip.addr \in Addr
           /\ Shift(ip) = IF ip.family = 4 THEN Root ELSE 0
<1>1. ip.family \in {4, 6} /\ ip.addr \in V6Addr
    BY Widths DEF Ip
<1>2. CASE ip.family = 4
    BY <1>2, V4Block DEF Ip, SlotOf, Shift
<1>3. CASE ip.family = 6
    BY <1>1, <1>3, AddrAssumption DEF AliasesOf, SlotOf, Shift
<1> QED BY <1>1, <1>2, <1>3

\* A query in an alias is in no other, and ends in IPv4.
LEMMA SlotInAlias ==
    ASSUME NEW ip \in Ip, NEW al \in AliasesOf(ip)
    PROVE  /\ ip.family = 6 /\ al \in Alias /\ ip.addr \in V6Addr
           /\ AliasesOf(ip) = {al}
           /\ SlotOf(ip) = (ip.addr \div (2^(Root - al.bits))) % (2^V4Bits)
           /\ SlotOf(ip) \in V4Addr /\ SlotOf(ip) \in Addr
           /\ Shift(ip) = Root - al.bits
<1>1. ip.family = 6 /\ al \in Alias /\ ip.addr \in V6Addr /\ ip.addr \in Nat
    BY Widths DEF AliasesOf, Ip
<1>2. AliasesOf(ip) = {al}
    BY <1>1, DisjointAssumption DEF AliasesOf
<1>3. (CHOOSE bl \in AliasesOf(ip) : TRUE) = al
    BY <1>2
<1>4. /\ SlotOf(ip) = (ip.addr \div (2^(Root - al.bits))) % (2^V4Bits)
      /\ Shift(ip) = Root - al.bits
    BY <1>1, <1>2, <1>3 DEF SlotOf, Shift
<1> DEFINE q == 2^(Root - al.bits)  z == 2^V4Bits
<1>5. q \in Nat \ {0} /\ z \in Nat \ {0}
    <2>1. Root - al.bits \in 0..V6Bits
        <3>1. al.bits \in 0..Root /\ Root \in Nat /\ Root <= V6Bits /\ V6Bits \in Nat
            BY <1>1, RootFacts, Widths
        <3> QED BY <3>1
    <2> QED BY <2>1, Powers, Widths
<1>6. SlotOf(ip) \in V4Addr
    <2>1. SlotOf(ip) = (ip.addr \div q) % z /\ V4Addr = 0..(z - 1)
        BY <1>4 DEF V4Addr
    <2> HIDE DEF q, z
    <2>2. ip.addr \div q \in Nat
        BY <1>1, <1>5, Division
    <2>3. (ip.addr \div q) % z \in 0..(z - 1)
        BY <1>5, <2>2, Division
    <2> QED BY <2>1, <2>3
<1> QED BY <1>1, <1>2, <1>4, <1>6, V4Block

\* Every query ends at an address of the tree.
LEMMA SlotFacts ==
    ASSUME NEW ip \in Ip
    PROVE  SlotOf(ip) \in Addr
BY SlotOutside, SlotInAlias

\* The addresses a result is about, in the family of the query.
SameAnswer(ip, o) ==
    /\ o.family = ip.family
    /\ Agree(Width(ip.family), ip.addr, o.addr, Depth(SlotOf(ip)) - Shift(ip))

\* A native query: the leaf, less the bits above the root of IPv4.
LEMMA ResultOfIPv4 ==
    ASSUME NEW ip \in Ip, ip.family = 4
    PROVE  /\ Depth(SlotOf(ip)) - Shift(ip) \in 1..V4Bits
           /\ \A o \in Ip : SameAnswer(ip, o) =>
                 Agree(V6Bits, SlotOf(ip), SlotOf(o), Depth(SlotOf(ip)))
<1>1. AliasesOf(ip) = {} /\ ip.addr \in V4Addr
    BY DEF AliasesOf, Ip
<1>2. SlotOf(ip) = ip.addr /\ ip.addr \in Addr /\ Shift(ip) = Root
    BY <1>1, SlotOutside
<1> DEFINE d == Depth(ip.addr)
<1>3. d \in (Root + 1)..V6Bits
    BY <1>1, <1>2, LeafOfIPv4
<1> HIDE DEF d
<1>4. d - Root \in 1..V4Bits /\ V4Bits - (d - Root) = V6Bits - d
    BY <1>3, Widths
<1>5. ASSUME NEW o \in Ip, SameAnswer(ip, o)
      PROVE  Agree(V6Bits, ip.addr, SlotOf(o), d)
    <2>1. AliasesOf(o) = {} /\ SlotOf(o) = o.addr
        BY <1>5, SlotOutside DEF SameAnswer, AliasesOf
    <2>2. Agree(V4Bits, ip.addr, o.addr, d - Root)
        BY <1>2, <1>5 DEF SameAnswer, Width, d
    <2> QED BY <1>4, <2>1, <2>2 DEF Agree
<1> QED BY <1>2, <1>4, <1>5 DEF d

\* A query of IPv6 outside the aliases: the leaf, which no alias is in.
LEMMA ResultOfIPv6 ==
    ASSUME NEW ip \in Ip, ip.family = 6, AliasesOf(ip) = {}
    PROVE  /\ Depth(SlotOf(ip)) - Shift(ip) \in 0..V6Bits
           /\ \A o \in Ip : SameAnswer(ip, o) =>
                 Agree(V6Bits, SlotOf(ip), SlotOf(o), Depth(SlotOf(ip)))
<1>1. SlotOf(ip) = ip.addr /\ ip.addr \in Addr /\ Shift(ip) = 0
    BY SlotOutside
<1>2. Depth(ip.addr) \in 0..V6Bits /\ Depth(ip.addr) - 0 = Depth(ip.addr)
    <2>1. Depth(ip.addr) \in 0..V6Bits /\ V6Bits \in Nat
        BY <1>1, DepthFacts, Widths
    <2> QED BY <2>1
<1>3. ASSUME NEW o \in Ip, SameAnswer(ip, o)
      PROVE  Agree(V6Bits, ip.addr, SlotOf(o), Depth(ip.addr))
    <2>1. o.family = 6 /\ o.addr \in V6Addr
        BY <1>3 DEF SameAnswer, Ip
    <2>2. Agree(V6Bits, ip.addr, o.addr, Depth(ip.addr))
        BY <1>1, <1>2, <1>3 DEF SameAnswer, Width
    <2>3. o.addr \in Addr
        BY <1>1, <2>1, <2>2, LeafInTree
    <2>4. AliasesOf(o) = {}
        BY <2>1, <2>3, AddrAssumption DEF AliasesOf
    <2> QED BY <2>2, <2>4, SlotOutside
<1> QED BY <1>1, <1>2, <1>3

\* A query in an alias: the leaf of IPv4 as a part of the alias.
LEMMA ResultOfAlias ==
    ASSUME NEW ip \in Ip, NEW al \in AliasesOf(ip)
    PROVE  /\ Depth(SlotOf(ip)) - Shift(ip) \in (al.bits + 1)..V6Bits
           /\ \A o \in Ip : SameAnswer(ip, o) =>
                 /\ al \in AliasesOf(o)
                 /\ Agree(V6Bits, SlotOf(ip), SlotOf(o), Depth(SlotOf(ip)))
<1> DEFINE d == Depth(SlotOf(ip))  k == Root - al.bits  n == d - k  e == V6Bits - d
<1>1. /\ ip.family = 6 /\ al \in Alias /\ ip.addr \in V6Addr /\ ip.addr \in Nat
      /\ SlotOf(ip) \in V4Addr /\ SlotOf(ip) \in Addr /\ Shift(ip) = k
      /\ SlotOf(ip) = (ip.addr \div (2^k)) % (2^V4Bits)
    BY SlotInAlias, Widths
<1>2. /\ al.bits \in 0..Root /\ al.base \in Nat /\ Root \in Nat /\ Root <= V6Bits
      /\ V6Bits - Root = V4Bits
      /\ V6Bits \in Nat /\ V4Bits \in Nat
    BY <1>1, RootFacts, Widths
<1>3. d \in (Root + 1)..V6Bits
    BY <1>1, LeafOfIPv4
<1> HIDE DEF d
<1>4. /\ n \in (al.bits + 1)..V6Bits /\ n \in 0..V6Bits /\ al.bits \in 0..n
      /\ k \in 0..V6Bits /\ e \in 0..V6Bits
      /\ V6Bits - n = k + e /\ e \in 0 .. V6Bits - k
      /\ V4Bits - e \in 0 .. V6Bits - e /\ V4Bits - e \in 0..V6Bits
      /\ V4Bits = e + (V4Bits - e)
    BY <1>2, <1>3
<1> HIDE DEF k, n, e
<1> DEFINE p == 2^k  q == 2^e  r == 2^(V4Bits - e)  z == 2^V4Bits
            s == 2^(V6Bits - n)
<1>5. /\ p \in Nat \ {0} /\ q \in Nat \ {0} /\ r \in Nat \ {0} /\ z \in Nat \ {0}
      /\ z = q * r
    BY <1>4, Powers, PowerAssumption, Widths
<1>6. s = p * q /\ s \in Nat \ {0}
    <2>1. s = p * q
        BY <1>4, PowerAssumption
    <2>2. V6Bits - n \in 0..V6Bits
        BY <1>2, <1>4
    <2> QED BY <2>1, <2>2, Powers
<1>7. ASSUME NEW o \in Ip, SameAnswer(ip, o)
      PROVE  /\ al \in AliasesOf(o)
             /\ Agree(V6Bits, SlotOf(ip), SlotOf(o), d)
    <2>1. /\ o.family = 6 /\ o.addr \in V6Addr /\ o.addr \in Nat
          /\ Agree(V6Bits, ip.addr, o.addr, n)
        <3>1. o.family = 6 /\ o.addr \in V6Addr
            BY <1>1, <1>7 DEF SameAnswer, Ip
        <3>2. Agree(V6Bits, ip.addr, o.addr, n)
            BY <1>1, <1>7 DEF SameAnswer, Width, d, n
        <3> QED BY <3>1, <3>2, Widths
    <2>2. al \in AliasesOf(o)
        <3>1. Agree(V6Bits, ip.addr, o.addr, al.bits)
            BY <1>1, <1>4, <2>1, AgreeShorter
        <3>2. Agree(V6Bits, ip.addr, al.base, al.bits)
            BY DEF AliasesOf, InAlias
        <3>3. Agree(V6Bits, o.addr, al.base, al.bits)
            BY <3>1, <3>2, AgreeFacts
        <3> QED BY <1>1, <2>1, <3>3 DEF AliasesOf, InAlias
    <2>3. /\ SlotOf(o) = Low(High(o.addr, p), z)
          /\ SlotOf(ip) = Low(High(ip.addr, p), z)
        BY <1>1, <2>2, SlotInAlias DEF k, High, Low
    <2>4. /\ High(ip.addr, s) = High(o.addr, s)
          /\ IsProduct(z, q, r) /\ IsProduct(s, p, q)
        BY <1>5, <1>6, <2>1 DEF Agree, High, IsProduct
    <2> HIDE DEF p, q, r, s, z
    <2>5. High(SlotOf(ip), q) = High(SlotOf(o), q)
        <3>1. High(Low(High(ip.addr, p), z), q) = High(Low(High(o.addr, p), z), q)
            BY <1>1, <2>1, <2>4, CutAgrees
        <3> QED BY <2>3, <3>1
    <2> QED BY <2>2, <2>5 DEF Agree, High, q, e
<1> QED BY <1>1, <1>4, <1>7 DEF d, n

\* What Lookup reports, before unmapping: the queried addresses it is about are
\* those of one prefix, and all of them end in the same leaf.
LEMMA ResultFacts ==
    ASSUME NEW ip \in Ip
    PROVE  LET p == ResultPrefix(ip)
               w == Width(ip.family)
           IN  /\ p.family = ip.family /\ p.bits = Depth(SlotOf(ip)) - Shift(ip)
               /\ w \in 0..V6Bits /\ p.bits \in 0..w /\ ip.addr \in Nat
               /\ p.addr = Mask(w, ip.addr, p.bits) /\ p.addr \in 0 .. ip.addr
               /\ Agree(w, ip.addr, p.addr, p.bits)
               /\ \A o \in Ip : Inside(o, p) => tree[SlotOf(o)] = tree[SlotOf(ip)]
<1> DEFINE p == ResultPrefix(ip)  w == Width(ip.family)  n == Depth(SlotOf(ip)) - Shift(ip)
<1>1. p.family = ip.family /\ p.bits = n /\ p.addr = Mask(w, ip.addr, n)
    BY DEF ResultPrefix
<1>2. w \in 0..V6Bits /\ ip.addr \in Nat /\ ip.family \in {4, 6}
    <2>1. ip.family \in {4, 6} /\ ip.addr \in V4Addr \cup V6Addr
        BY DEF Ip
    <2>2. V4Bits \in 0..V6Bits /\ V6Bits \in 0..V6Bits
        BY Widths
    <2>3. ip.addr \in Nat
        BY <2>1, Widths
    <2> QED BY <2>1, <2>2, <2>3 DEF Width
<1>3. /\ n \in 0..w
      /\ \A o \in Ip : SameAnswer(ip, o) =>
            Agree(V6Bits, SlotOf(ip), SlotOf(o), Depth(SlotOf(ip)))
    <2>1. CASE ip.family = 4
        <3>1. n \in 0..w
            BY <2>1, ResultOfIPv4, Widths DEF Width
        <3> QED BY <2>1, <3>1, ResultOfIPv4
    <2>2. CASE ip.family = 6 /\ AliasesOf(ip) = {}
        <3>1. n \in 0..w
            BY <2>2, ResultOfIPv6 DEF Width
        <3> QED BY <2>2, <3>1, ResultOfIPv6
    <2>3. CASE AliasesOf(ip) # {}
        <3>1. PICK al \in AliasesOf(ip) : TRUE
            BY <2>3
        <3>2. n \in (al.bits + 1)..V6Bits /\ ip.family = 6 /\ al \in Alias
            BY <3>1, ResultOfAlias, SlotInAlias
        <3>3. al.bits \in 0..Root /\ Root \in Nat
            BY <3>2, RootFacts, Widths
        <3>4. n \in 0..w
            BY <3>2, <3>3, Widths DEF Width
        <3> QED BY <3>1, <3>4, ResultOfAlias
    <2>4. ip.family = 4 \/ (ip.family = 6 /\ AliasesOf(ip) = {}) \/ AliasesOf(ip) # {}
        BY <1>2
    <2> HIDE DEF n, w
    <2> QED BY <2>1, <2>2, <2>3, <2>4
<1> HIDE DEF n, w
<1>4. p.addr \in 0 .. ip.addr /\ Agree(w, ip.addr, p.addr, n)
    BY <1>1, <1>2, <1>3, MaskFacts
<1>5. ASSUME NEW o \in Ip, Inside(o, p)
      PROVE  tree[SlotOf(o)] = tree[SlotOf(ip)]
    <2>1. o.family = ip.family /\ Agree(w, o.addr, p.addr, n)
        BY <1>1, <1>5 DEF Inside, w
    <2>2. Agree(w, ip.addr, o.addr, n)
        BY <1>4, <2>1, AgreeFacts
    <2>3. SameAnswer(ip, o)
        BY <2>1, <2>2 DEF SameAnswer, w, n
    <2>4. Agree(V6Bits, SlotOf(ip), SlotOf(o), Depth(SlotOf(ip)))
        BY <1>3, <2>3
    <2> QED BY <2>4, SlotFacts, SameLeaf
<1> QED BY <1>1, <1>2, <1>3, <1>4, <1>5 DEF w, n

\* A result below the root of IPv4 is mapped exactly if the query is.
LEMMA MappedResult ==
    ASSUME NEW ip \in Ip
    PROVE  LET p == ResultPrefix(ip)
           IN  Is4In6(p) /\ p.bits >= Root <=> Is4In6(ip)
<1> DEFINE p == ResultPrefix(ip)
<1>1. CASE ip.family # 6
    BY <1>1, ResultFacts DEF Is4In6
<1>2. CASE ip.family = 6
    <2>1. /\ p.family = 6 /\ p.bits \in 0..V6Bits /\ p.addr \in 0..ip.addr /\ ip.addr \in Nat
          /\ Agree(V6Bits, ip.addr, p.addr, p.bits) /\ p.addr \in Nat
        BY <1>2, ResultFacts DEF Width
    <2>2. /\ V4Mapped \in Alias /\ V4Mapped.bits = Root /\ Root \in Nat
        BY MappedAssumption, Widths
    <2>3. Is4In6(ip) => p.bits >= Root
        <3>1. ASSUME Is4In6(ip) PROVE p.bits >= Root
            <4>1. V4Mapped \in AliasesOf(ip)
                BY <2>2, <3>1 DEF Is4In6, AliasesOf
            <4>2. p.bits \in (Root + 1)..V6Bits
                BY <2>2, <4>1, ResultOfAlias, ResultFacts
            <4> QED BY <2>1, <2>2, <4>2
        <3> QED BY <3>1
    <2>4. p.bits >= Root => Agree(V6Bits, ip.addr, p.addr, Root)
        <3>1. ASSUME p.bits >= Root PROVE Root \in 0..p.bits
            BY <2>1, <2>2, <3>1
        <3> QED BY <2>1, <3>1, AgreeShorter
    <2>5. p.bits >= Root => (Is4In6(p) <=> Is4In6(ip))
        BY <1>2, <2>1, <2>2, <2>4, AgreeFacts DEF Is4In6, InAlias
    <2> QED BY <2>3, <2>5
<1> QED BY <1>1, <1>2

\* A lookup of a mapped query, unmapped, is the lookup of the native one.
LEMMA MappedLookup ==
    ASSUME NEW ip \in Ip, Is4In6(ip)
    PROVE  LET q == [family |-> 4, addr |-> SlotOf(ip)]
           IN  /\ q \in Ip /\ Lookup(ip) = Lookup(q)
               /\ SlotOf(q) = SlotOf(ip)
<1> DEFINE s == SlotOf(ip)  q == [family |-> 4, addr |-> s]  d == Depth(s)
           p == ResultPrefix(ip)  n == V6Bits - d  m == 2^n  r == 2^(V4Bits - n)  z == 2^V4Bits
<1>1. V4Mapped \in AliasesOf(ip) /\ V4Mapped.bits = Root /\ Root - Root = 0
    BY MappedAssumption, Widths DEF Is4In6, AliasesOf
<1>2. /\ s \in V4Addr /\ s \in Addr /\ Shift(ip) = 0 /\ ip.family = 6
      /\ ip.addr \in Nat /\ s = (ip.addr \div (2^0)) % z
    BY <1>1, SlotInAlias, Widths
<1>3. s = ip.addr % z
    <2>1. ip.addr \div 1 = ip.addr
        BY <1>2
    <2> HIDE DEF s, z
    <2> QED BY <1>2, <2>1, Powers
<1>4. q \in Ip /\ q.family = 4 /\ AliasesOf(q) = {} /\ q.addr = s
    BY <1>2 DEF Ip, AliasesOf
<1>5. SlotOf(q) = s /\ Shift(q) = Root
    BY <1>4, SlotOutside
<1>6. /\ d \in (Root + 1)..V6Bits /\ V6Bits \in Nat /\ Root \in Nat /\ V4Bits \in Nat
      /\ V6Bits - Root = V4Bits
    BY <1>2, LeafOfIPv4, Widths
<1> HIDE DEF d
<1>7. /\ d - 0 = d /\ V4Bits - (d - Root) = n
      /\ n \in 0..V6Bits /\ V4Bits - n \in 0..V6Bits /\ V4Bits - n \in 0 .. V6Bits - n
      /\ n + (V4Bits - n) = V4Bits
    BY <1>6
<1>8. /\ m \in Nat \ {0} /\ r \in Nat \ {0} /\ z \in Nat \ {0} /\ z = m * r
    BY <1>7, Powers, PowerAssumption, Widths
<1>9. p = [family |-> 6, addr |-> ip.addr - (ip.addr % m), bits |-> d]
    BY <1>2, <1>7 DEF ResultPrefix, Mask, Width, d
<1>10. ResultPrefix(q) = [family |-> 4, addr |-> s - (s % m), bits |-> d - Root]
    BY <1>4, <1>5, <1>7 DEF ResultPrefix, Mask, Width, d
<1>11. (ip.addr - (ip.addr % m)) % z = (ip.addr % z) - ((ip.addr % z) % m)
    <2> HIDE DEF m, r, z
    <2>1. m \in Nat \ {0} /\ r \in Nat \ {0} /\ z \in Nat \ {0} /\ z = m * r
        BY <1>8
    <2>2. ASSUME NEW u \in Nat PROVE (u - (u % m)) % z = (u % z) - ((u % z) % m)
        BY <2>1, MaskMod, Zenon
    <2> QED BY <1>2, <2>2
<1>12. Unmap(p) = ResultPrefix(q)
    <2> HIDE DEF m
    <2> QED BY <1>3, <1>9, <1>10, <1>11 DEF Unmap
<1>13. UnmapPrefix(p) = Unmap(p)
    BY MappedResult DEF UnmapPrefix
<1>14. UnmapPrefix(ResultPrefix(q)) = ResultPrefix(q)
    BY <1>10 DEF UnmapPrefix, Is4In6
<1> QED BY <1>4, <1>5, <1>12, <1>13, <1>14 DEF Lookup

\* What Lookup reports is honest about the query and its neighbours.
LEMMA LookupHonest ==
    ASSUME NEW ip \in Ip
    PROVE  LET got == Lookup(ip)
               q == IF Is4In6(ip) THEN [family |-> 4, addr |-> SlotOf(ip)] ELSE ip
           IN  /\ Inside(q, got.network)
               /\ got = Lookup(q)
               /\ \A o \in Ip : Inside(o, got.network) => tree[SlotOf(o)] = got.record
<1>1. ASSUME NEW q \in Ip, ~Is4In6(q)
      PROVE  LET got == Lookup(q)
             IN  /\ Inside(q, got.network)
                 /\ \A o \in Ip : Inside(o, got.network) => tree[SlotOf(o)] = got.record
    <2>1. Lookup(q) = [record |-> tree[SlotOf(q)], network |-> ResultPrefix(q)]
        BY <1>1, MappedResult DEF Lookup, UnmapPrefix
    <2> QED BY <2>1, ResultFacts DEF Inside
<1>2. CASE Is4In6(ip)
    BY <1>1, <1>2, MappedLookup DEF Is4In6
<1>3. CASE ~Is4In6(ip)
    BY <1>1, <1>3
<1> QED BY <1>2, <1>3

(***************************************************************************)
(* Whatever the tree holds, the network of an answer contains the queried   *)
(* address and resolves to its record alone, and a mapped query gets the    *)
(* answer of the native one (DB.Lookup, unmapPrefix).                       *)
(***************************************************************************)
THEOREM NetworkAlwaysHonest == ReaderSpec => []NetworkHonest
<1>1. NetworkHonest
    BY LookupHonest DEF NetworkHonest
<1> QED BY <1>1, PTL

-----------------------------------------------------------------------------
(***************************************************************************)
(* The rows of the walk are the answers of Lookup.                          *)
(***************************************************************************)
\* The row of a leaf: its start, and as many bits as the leaf has, counted in
\* the family of the row.
LEMMA RowFacts ==
    ASSUME NEW a \in Starts
    PROVE  LET ip == IpOf(a)
               p == Row(a).network
               w == Width(ip.family)
           IN  /\ ip \in Listed /\ SlotOf(ip) = a /\ a \in Addr /\ a \in Nat
               /\ Row(a).record = tree[a] /\ tree[a] # NoRecord
               /\ p.family = ip.family /\ p.addr = a
               /\ w \in 0..V6Bits /\ p.bits \in 0..w
               /\ w - p.bits = V6Bits - Depth(a)
               /\ a = Mask(w, a, p.bits)
<1> DEFINE ip == IpOf(a)  p == Row(a).network  w == Width(ip.family)  d == Depth(a)
           n == d - Shift(ip)
<1>1. /\ a \in Addr /\ a \in Nat /\ a \in V6Addr /\ tree[a] # NoRecord
      /\ a = Mask(V6Bits, a, d) /\ d \in 0..V6Bits
    BY DepthFacts, Widths DEF Starts
<1>2. /\ ip \in Ip /\ AliasesOf(ip) = {} /\ ip \in Listed /\ ip.addr = a
      /\ ip.family = IF a \in V4Addr THEN 4 ELSE 6
    BY <1>1, AddrAssumption DEF IpOf, Ip, AliasesOf, Listed
<1>3. SlotOf(ip) = a /\ Shift(ip) = IF a \in V4Addr THEN Root ELSE 0
    BY <1>2, SlotOutside
<1>4. p = [family |-> ip.family, addr |-> Mask(w, a, n), bits |-> n]
    BY <1>2, <1>3 DEF Row, ResultPrefix
<1>5. w \in 0..V6Bits /\ n \in 0..w
    BY <1>2, <1>3, <1>4, ResultFacts
<1>6. w - n = V6Bits - d
    BY <1>1, <1>2, <1>3, Widths DEF Width
<1>7. Mask(w, a, n) = a
    BY <1>1, <1>6 DEF Mask
<1>8. Row(a).record = tree[a]
    BY DEF Row
<1> HIDE DEF n
<1> QED BY <1>1, <1>2, <1>3, <1>4, <1>5, <1>6, <1>7, <1>8

\* The addresses the walk lists are those of IPv4 and those in no alias.
LEMMA ListedFacts ==
    ASSUME NEW ip \in Listed
    PROVE  /\ ip \in Ip /\ ip.family \in {4, 6} /\ AliasesOf(ip) = {}
           /\ ip.addr \in V4Addr <=> ip.family = 4
BY DEF Listed, Ip, AliasesOf

\* An address the walk lists is answered by the row of its leaf.
LEMMA AnswerIsRow ==
    ASSUME NEW ip \in Listed, Contains(ip)
    PROVE  /\ StartOf(ip.addr) \in Starts
           /\ Lookup(ip) = Row(StartOf(ip.addr))
<1> DEFINE a == StartOf(ip.addr)  q == IpOf(a)
<1>1. /\ ip \in Ip /\ AliasesOf(ip) = {} /\ ip.family \in {4, 6}
      /\ ip.addr \in V4Addr <=> ip.family = 4
    BY ListedFacts
<1>2. SlotOf(ip) = ip.addr /\ ip.addr \in Addr /\ Shift(ip) = IF ip.family = 4 THEN Root ELSE 0
    BY <1>1, SlotOutside
<1>3. tree[ip.addr] # NoRecord
    BY <1>2 DEF Contains
<1>4. /\ a \in Starts /\ a \in Addr /\ Depth(a) = Depth(ip.addr) /\ tree[a] = tree[ip.addr]
      /\ Agree(V6Bits, ip.addr, a, Depth(a))
      /\ a \in V4Addr <=> ip.addr \in V4Addr
    BY <1>2, <1>3, StartFacts
<1>5. q.family = ip.family
    BY <1>1, <1>4 DEF IpOf
<1>6. /\ SlotOf(q) = a /\ Row(a).record = tree[a]
      /\ Row(a).network.family = q.family /\ Row(a).network.addr = a
      /\ Width(q.family) - Row(a).network.bits = V6Bits - Depth(a)
      /\ q \in Ip /\ q \in Listed
    BY <1>4, RowFacts DEF Listed
<1>7. Shift(q) = Shift(ip)
    <2>1. AliasesOf(q) = {}
        BY <1>6 DEF Listed, AliasesOf
    <2> QED BY <1>2, <1>5, <1>6, <2>1, SlotOutside
<1> DEFINE n == Depth(a) - Shift(ip)  w == Width(ip.family)
<1>8. Row(a).network = [family |-> ip.family, addr |-> Mask(w, a, n), bits |-> n]
    BY <1>5, <1>6, <1>7 DEF Row, ResultPrefix, IpOf
<1>9. ResultPrefix(ip) = [family |-> ip.family, addr |-> Mask(w, ip.addr, n), bits |-> n]
    BY <1>2, <1>4 DEF ResultPrefix
<1>10. w \in 0..V6Bits /\ n \in 0..w /\ w - n = V6Bits - Depth(a) /\ ip.addr \in Nat /\ a \in Nat
    <2>1. w \in 0..V6Bits /\ n \in 0..w
        BY <1>1, <1>9, ResultFacts
    <2>2. w - n = V6Bits - Depth(a)
        BY <1>5, <1>6, <1>8
    <2> QED BY <1>2, <1>4, <2>1, <2>2, Widths
<1>11. Agree(w, ip.addr, a, n)
    <2>1. Agree(V6Bits, ip.addr, a, Depth(a))
        BY <1>4
    <2> HIDE DEF a, n, w
    <2> QED BY <1>10, <2>1 DEF Agree
<1> HIDE DEF a, n, w
<1>12. Mask(w, a, n) = Mask(w, ip.addr, n)
    BY <1>10, <1>11, MaskFacts
<1>13. ~Is4In6(ip)
    BY <1>1, MappedAssumption DEF Is4In6, AliasesOf
<1>14. Lookup(ip) = [record |-> tree[ip.addr], network |-> ResultPrefix(ip)]
    BY <1>1, <1>2, <1>13, MappedResult DEF Lookup, UnmapPrefix
<1>15. Row(a) = [network |-> Row(a).network, record |-> tree[a]]
    BY DEF Row
<1> QED BY <1>4, <1>8, <1>9, <1>12, <1>14, <1>15 DEF a

\* So the answers of Lookup are the rows of the walk.
LEMMA AnswersAreRows ==
    {Lookup(ip) : ip \in {i \in Listed : Contains(i)}} = {Row(a) : a \in Starts}
<1>1. ASSUME NEW a \in Starts
      PROVE  \E ip \in Listed : Contains(ip) /\ Lookup(ip) = Row(a)
    <2> DEFINE ip == IpOf(a)
    <2>1. ip \in Listed /\ Contains(ip) /\ ip.addr = a /\ a \in Addr
        BY RowFacts DEF Contains, IpOf
    <2>2. StartOf(a) = a
        BY DEF Starts, StartOf
    <2>3. Lookup(ip) = Row(a)
        BY <2>1, <2>2, AnswerIsRow
    <2> QED BY <2>1, <2>3
<1> QED BY <1>1, AnswerIsRow

\* No two rows are the same.
LEMMA RowsDiffer ==
    ASSUME NEW a \in Starts, NEW b \in Starts, Row(a) = Row(b)
    PROVE  a = b
<1>1. Row(a).network.addr = a /\ Row(b).network.addr = b
    BY RowFacts
<1> QED BY <1>1

\* The range of a row holds the listed addresses of its leaf.
LEMMA RangeIsLeaf ==
    ASSUME NEW a \in Starts, NEW ip \in Listed
    PROVE  LET row == CsvRow(Row(a))
           IN  (/\ row.network.family = ip.family
                /\ row.range.start <= ip.addr /\ ip.addr <= row.range.end)
               <=> a = StartOf(ip.addr)
<1> DEFINE p == Row(a).network  w == Width(p.family)  n == p.bits  d == Depth(a)
<1>1. /\ a \in Addr /\ a \in Nat /\ p.addr = a /\ p.family = IpOf(a).family
      /\ w \in 0..V6Bits /\ n \in 0..w /\ w - n = V6Bits - d /\ a = Mask(w, a, n)
    BY RowFacts
<1>2. /\ ip \in Ip /\ ip.family \in {4, 6} /\ AliasesOf(ip) = {}
      /\ ip.addr \in V4Addr <=> ip.family = 4
    BY ListedFacts
<1>3. ip.addr \in Addr /\ ip.addr \in Nat
    BY <1>2, SlotOutside, Widths
<1>4. CsvRow(Row(a)).network = p
      /\ CsvRow(Row(a)).range = [start |-> a, end |-> a + (2^(w - n)) - 1]
    <2>1. CsvRow(Row(a)).range = RangeBounds(p) /\ CsvRow(Row(a)).network = p
        BY DEF CsvRow
    <2>2. RangeBounds(p) = [start |-> Mask(w, p.addr, n), end |-> Mask(w, p.addr, n) + (2^(w - n)) - 1]
        BY DEF RangeBounds
    <2>3. Mask(w, p.addr, n) = a
        BY <1>1
    <2> HIDE DEF p, w, n
    <2> QED BY <2>1, <2>2, <2>3
<1> HIDE DEF p, w, n, d
<1>5. a <= ip.addr /\ ip.addr <= a + (2^(w - n)) - 1 <=> Agree(w, a, ip.addr, n)
    <2>1. \A y \in Nat : Agree(w, a, y, n) <=>
             Mask(w, a, n) <= y /\ y <= Mask(w, a, n) + (2^(w - n)) - 1
        BY <1>1, MaskFacts
    <2> DEFINE m == Mask(w, a, n)
    <2>2. m = a
        BY <1>1
    <2>3. Agree(w, a, ip.addr, n) <=> m <= ip.addr /\ ip.addr <= m + (2^(w - n)) - 1
        BY <1>3, <2>1
    <2> HIDE DEF m
    <2> QED BY <2>2, <2>3
<1>6. Agree(w, a, ip.addr, n) <=> Agree(V6Bits, a, ip.addr, d)
    BY <1>1 DEF Agree
<1>7. p.family = ip.family <=> (a \in V4Addr <=> ip.addr \in V4Addr)
    BY <1>1, <1>2 DEF IpOf
<1>8. Agree(V6Bits, a, ip.addr, d) => (a \in V4Addr <=> ip.addr \in V4Addr)
    BY <1>1, <1>3, LeafOfIPv4 DEF d
<1>9. Agree(V6Bits, a, ip.addr, d) <=> a = StartOf(ip.addr)
    <2>1. Agree(V6Bits, a, ip.addr, d) => a = StartOf(ip.addr)
        BY <1>3, StartFacts DEF d
    <2>2. a = StartOf(ip.addr) => Agree(V6Bits, a, ip.addr, d)
        BY <1>3, StartFacts, AgreeFacts DEF d
    <2> QED BY <2>1, <2>2
<1> QED BY <1>4, <1>5, <1>6, <1>7, <1>8, <1>9

-----------------------------------------------------------------------------
(***************************************************************************)
(* The walk: what each loop has of the leaves it has passed.                *)
(***************************************************************************)
Met == {a \in Starts : a < at}
MetRows == {Row(a) : a \in Met}
MetOf(v) == {row \in MetRows : row.record.provider = v}
Stamps(rows) == {row.record.synced : row \in rows} \ {0}

WalkInv ==
    /\ at \in Nat /\ done \in BOOLEAN
    /\ pc # "written" => /\ at = 0 /\ ~done
                         /\ idx = <<>> /\ rep = NoReport /\ csv = <<>>
    /\ done => Upcoming = {}

\* d.idx: every record met, and nothing wrong.
IndexInv ==
    /\ \A a \in Met : Offset(tree[a]) \in DOMAIN idx
    /\ \A a \in Starts : Offset(tree[a]) \in DOMAIN idx =>
          idx[Offset(tree[a])] = Identity(tree[a])

\* The CSV: one row for each leaf met.
CsvInv ==
    /\ csv \in Seq({CsvRow(Row(a)) : a \in Met})
    /\ \A a \in Met : \E i \in DOMAIN csv : csv[i] = CsvRow(Row(a))
    /\ \A i, j \in DOMAIN csv : csv[i] = csv[j] => i = j

\* The extremes of a set of timestamps, of which none is 0.
Extremes(old, new, stamps) ==
    IF stamps = {} THEN old = 0 /\ new = 0
    ELSE /\ {old, new} \subseteq stamps
         /\ \A t \in stamps : old <= t /\ t <= new

\* The report: the rows met, counted and bounded.
ReportInv ==
    /\ rep \in [networks : Nat, byProvider : [Provider -> Nat], oldest : Nat, newest : Nat]
    /\ IsFiniteSet(MetRows)
    /\ rep.networks = Cardinality(MetRows)
    /\ \A v \in Provider : rep.byProvider[v] = Cardinality(MetOf(v))
    /\ Extremes(rep.oldest, rep.newest, Stamps(MetRows))

ReaderInv == WalkInv /\ IndexInv /\ CsvInv /\ ReportInv

\* What is read off the tree changes only with the tree.
LEMMA SameTree ==
    ASSUME tree' = tree
    PROVE  /\ Starts' = Starts
           /\ \A a : Row(a)' = Row(a)
<1>1. \A a : Depth(a)' = Depth(a)
    BY DEF Depth, Leaf
<1>2. Starts' = Starts
    BY <1>1 DEF Starts
<1>3. \A ip : ResultPrefix(ip)' = ResultPrefix(ip)
    BY <1>1 DEF ResultPrefix
<1>4. \A a : Row(a)' = Row(a)
    BY <1>3 DEF Row
<1> QED BY <1>2, <1>4

\* A round of the loops: the next leaf is met.
LEMMA VisitFacts ==
    ASSUME WalkInv, Visit
    PROVE  \E a \in Starts :
              /\ a \notin Met /\ Met' = Met \cup {a}
              /\ idx' = Indexed(idx, Row(a))
              /\ rep' = Counted(rep, Row(a))
              /\ csv' = Append(csv, CsvRow(Row(a)))
<1>1. PICK a \in Upcoming :
          /\ \A b \in Upcoming : a <= b
          /\ at' = a + 1
          /\ idx' = Indexed(idx, Row(a))
          /\ rep' = Counted(rep, Row(a))
          /\ csv' = Append(csv, CsvRow(Row(a)))
    BY DEF Visit
<1>2. a \in Starts /\ at <= a /\ Starts \subseteq Nat /\ at \in Nat /\ tree' = tree
    BY <1>1, Widths DEF Upcoming, Starts, Visit, treeVars, WalkInv
<1>3. Starts' = Starts
    BY <1>2, SameTree
<1>4. a \notin Met
    BY <1>2 DEF Met
<1>5. ASSUME NEW b \in Starts
      PROVE  b < a + 1 <=> b < at \/ b = a
    <2>1. b < at \/ a <= b
        BY <1>1, <1>2, <1>5 DEF Upcoming
    <2> QED BY <1>2, <1>5, <2>1
<1>6. Met' = Met \cup {a}
    BY <1>1, <1>2, <1>3, <1>5 DEF Met
<1> QED BY <1>1, <1>2, <1>4, <1>6

\* The walk moves on through the tree it started on.
LEMMA WalkStep ==
    ASSUME WalkInv, ReaderNext
    PROVE  /\ WalkInv'
           /\ \/ tree' = tree
              \/ Met' = {} /\ UNCHANGED walkVars /\ idx = <<>> /\ rep = NoReport /\ csv = <<>>
<1>1. CASE TreeNext /\ UNCHANGED walkVars
    <2>1. pc # "written"
        BY <1>1 DEF TreeNext, Consume, Insert, Skip, More, NextStream, Write, Abort
    <2>2. /\ at = 0 /\ ~done /\ idx = <<>> /\ rep = NoReport /\ csv = <<>>
          /\ UNCHANGED <<at, done, idx, rep, csv>>
        BY <1>1, <2>1 DEF WalkInv, walkVars
    <2>3. Met' = {}
        <3>1. Starts' \subseteq Addr
            BY DEF Starts
        <3>2. \A b \in Addr : ~(b < 0)
            BY Widths
        <3> QED BY <2>2, <3>1, <3>2 DEF Met
    <2>4. WalkInv'
        BY <2>2 DEF WalkInv, NoReport
    <2> QED BY <1>1, <2>2, <2>3, <2>4
<1>2. CASE Visit
    <2>1. tree' = tree /\ pc' = pc /\ pc = "written" /\ done' = done /\ ~done
        BY <1>2 DEF Visit, treeVars
    <2>2. at' \in Nat
        <3>1. PICK a \in Upcoming : at' = a + 1
            BY <1>2 DEF Visit
        <3> QED BY <3>1, Widths DEF Upcoming, Starts
    <2> QED BY <2>1, <2>2 DEF WalkInv
<1>3. CASE Finish
    <2>1. /\ tree' = tree /\ pc' = pc /\ pc = "written" /\ done' = TRUE /\ at' = at
          /\ Upcoming = {}
        BY <1>3 DEF Finish, treeVars
    <2>2. Upcoming' = {}
        BY <2>1, SameTree DEF Upcoming
    <2> QED BY <2>1, <2>2 DEF WalkInv
<1> QED BY <1>1, <1>2, <1>3 DEF ReaderNext

\* BuildIndex decodes the record of the leaf, unless its offset is known.
LEMMA IndexStep ==
    ASSUME WalkInv, IndexInv, ReaderNext
    PROVE  IndexInv'
<1>1. CASE Visit
    <2>1. PICK a \in Starts : Met' = Met \cup {a} /\ idx' = Indexed(idx, Row(a))
        BY <1>1, VisitFacts
    <2>2. Starts' = Starts /\ tree' = tree
        BY <1>1, SameTree DEF Visit, treeVars
    <2>3. Row(a).record = tree[a]
        BY DEF Row
    <2>4. /\ DOMAIN idx' = DOMAIN idx \cup {tree[a]}
          /\ \A off \in DOMAIN idx : idx'[off] = idx[off]
          /\ tree[a] \notin DOMAIN idx => idx'[tree[a]] = Identity(tree[a])
        BY <2>1, <2>3 DEF Indexed, Decoded, Offset
    <2> QED BY <2>1, <2>2, <2>4 DEF IndexInv, Offset, Identity
<1>2. CASE Finish
    <2>1. UNCHANGED <<tree, at, idx>>
        BY <1>2 DEF Finish, treeVars
    <2>2. Starts' = Starts /\ Met' = Met
        BY <2>1, SameTree DEF Met
    <2> QED BY <2>1, <2>2 DEF IndexInv, Offset, Identity
<1>3. CASE TreeNext /\ UNCHANGED walkVars
    <2>1. \/ Met' = {} /\ idx' = <<>>
          \/ UNCHANGED <<tree, at, idx>>
        BY <1>3, WalkStep DEF walkVars
    <2>2. CASE Met' = {} /\ idx' = <<>>
        BY <2>2 DEF IndexInv
    <2>3. CASE UNCHANGED <<tree, at, idx>>
        <3>1. Starts' = Starts /\ Met' = Met
            BY <2>3, SameTree DEF Met
        <3> QED BY <2>3, <3>1 DEF IndexInv, Offset, Identity
    <2> QED BY <2>1, <2>2, <2>3
<1> QED BY <1>1, <1>2, <1>3 DEF ReaderNext

\* A round that meets no leaf leaves the rows met alone, or there are none.
LEMMA NoVisit ==
    ASSUME WalkInv, ReaderNext, ~Visit
    PROVE  /\ UNCHANGED <<idx, rep, csv>>
           /\ \/ Starts' = Starts /\ Met' = Met /\ \A a : Row(a)' = Row(a)
              \/ Met' = {} /\ rep = NoReport /\ csv = <<>>
<1>1. UNCHANGED <<at, idx, rep, csv>>
    BY DEF ReaderNext, Finish, walkVars
<1>2. \/ tree' = tree
      \/ Met' = {} /\ rep = NoReport /\ csv = <<>>
    BY WalkStep
<1>3. tree' = tree => Starts' = Starts /\ Met' = Met /\ \A a : Row(a)' = Row(a)
    <2>1. ASSUME tree' = tree PROVE Starts' = Starts /\ \A a : Row(a)' = Row(a)
        BY <2>1, SameTree
    <2> QED BY <1>1, <2>1 DEF Met
<1> QED BY <1>1, <1>2, <1>3

\* ExportCSV writes the row of the leaf.
LEMMA CsvStep ==
    ASSUME WalkInv, CsvInv, ReaderNext
    PROVE  CsvInv'
<1> DEFINE S == {CsvRow(Row(b)) : b \in Met}
<1>1. CASE Visit
    <2>1. PICK a \in Starts : /\ a \notin Met /\ Met' = Met \cup {a}
                              /\ csv' = Append(csv, CsvRow(Row(a)))
        BY <1>1, VisitFacts
    <2>2. \A b : CsvRow(Row(b))' = CsvRow(Row(b))
        <3>1. \A b : Row(b)' = Row(b)
            BY <1>1, SameTree DEF Visit, treeVars
        <3> QED BY <3>1 DEF CsvRow
    <2> DEFINE row == CsvRow(Row(a))
    <2>3. S' = S \cup {row}
        BY <2>1, <2>2
    <2>4. row \notin S
        <3>1. ASSUME NEW b \in Met, CsvRow(Row(b)) = row PROVE FALSE
            <4>1. Row(b).network.addr = Row(a).network.addr
                BY <3>1 DEF CsvRow
            <4> QED BY <2>1, <4>1, RowFacts DEF Met
        <3> QED BY <3>1
    <2>5. /\ csv \in Seq(S)
          /\ \A b \in Met : \E i \in DOMAIN csv : csv[i] = CsvRow(Row(b))
          /\ \A i, j \in DOMAIN csv : csv[i] = csv[j] => i = j
        BY DEF CsvInv
    <2> DEFINE n == Len(csv)
    <2>6. /\ n \in Nat /\ DOMAIN csv = 1..n /\ DOMAIN csv' = 1..(n + 1)
          /\ \A i \in 1..n : csv'[i] = csv[i] /\ csv[i] \in S
          /\ csv'[n + 1] = row
        <3> HIDE DEF S, row
        <3> QED BY <2>1, <2>5 DEF row
    <2>7. csv' \in Seq(S')
        <3> HIDE DEF S, row
        <3>1. csv \in Seq(S \cup {row})
            BY <2>5
        <3> QED BY <2>1, <2>3, <3>1 DEF row
    <2>8. \A b \in Met' : \E i \in DOMAIN csv' : csv'[i] = CsvRow(Row(b))'
        <3> HIDE DEF n
        <3> SUFFICES ASSUME NEW b \in Met'
                     PROVE  \E i \in DOMAIN csv' : csv'[i] = CsvRow(Row(b))
            BY <2>2
        <3>1. CASE b = a
            BY <2>6, <3>1
        <3>2. CASE b \in Met
            <4>1. PICK i \in 1..n : csv[i] = CsvRow(Row(b))
                BY <2>5, <2>6, <3>2
            <4> QED BY <2>6, <4>1
        <3> QED BY <2>1, <3>1, <3>2
    <2>9. \A i, j \in DOMAIN csv' : csv'[i] = csv'[j] => i = j
        <3> HIDE DEF n, S, row
        <3>1. \A i \in 1..n : csv'[i] # row
            BY <2>4, <2>6
        <3>2. \A i \in DOMAIN csv' : i \in 1..n \/ i = n + 1
            BY <2>6
        <3>3. \A i, j \in 1..n : csv'[i] = csv'[j] => i = j
            BY <2>5, <2>6
        <3> QED BY <2>6, <3>1, <3>2, <3>3
    <2> QED BY <2>7, <2>8, <2>9 DEF CsvInv
<1>2. CASE ~Visit
    <2>1. csv' = csv
        BY <1>2, NoVisit
    <2>2. CASE Met' = Met /\ \A a : Row(a)' = Row(a)
        <3>1. \A a : CsvRow(Row(a))' = CsvRow(Row(a))
            BY <2>2 DEF CsvRow
        <3> QED BY <2>1, <2>2, <3>1 DEF CsvInv
    <2>3. CASE Met' = {} /\ csv = <<>>
        BY <2>1, <2>3 DEF CsvInv
    <2> QED BY <1>2, <2>2, <2>3, NoVisit
<1> QED BY <1>1, <1>2

\* Older and Larger keep the extremes when a timestamp is added.
LEMMA ExtremesStep ==
    ASSUME NEW stamps, stamps \subseteq Nat \ {0}, NEW old \in Nat, NEW new \in Nat,
           NEW t \in Nat, Extremes(old, new, stamps)
    PROVE  Extremes(Older(old, t), Larger(new, t), (stamps \cup {t}) \ {0})
<1> USE DEF Extremes, Older, Larger
<1>1. CASE t = 0
    <2>1. (stamps \cup {t}) \ {0} = stamps
        BY <1>1
    <2>2. Older(old, t) = old /\ Larger(new, t) = new
        BY <1>1
    <2> QED BY <2>1, <2>2
<1>2. CASE t # 0
    <2>1. (stamps \cup {t}) \ {0} = stamps \cup {t}
        BY <1>2
    <2>2. CASE stamps = {}
        <3>1. Older(old, t) = t /\ Larger(new, t) = t
            BY <1>2, <2>2
        <3> QED BY <1>2, <2>1, <2>2, <3>1
    <2>3. CASE stamps # {}
        <3>1. old \in stamps /\ new \in stamps /\ old # 0
            BY <2>3
        <3>2. /\ Older(old, t) = IF t < old THEN t ELSE old
              /\ Larger(new, t) = IF t > new THEN t ELSE new
            BY <1>2, <3>1
        <3>3. \A s \in stamps : s \in Nat /\ old <= s /\ s <= new
            BY <2>3
        <3> HIDE DEF Older, Larger
        <3>4. \A s \in stamps \cup {t} : Older(old, t) <= s /\ s <= Larger(new, t)
            BY <3>2, <3>3
        <3>5. {Older(old, t), Larger(new, t)} \subseteq stamps \cup {t}
            BY <3>1, <3>2
        <3> QED BY <2>1, <3>4, <3>5
    <2> QED BY <2>2, <2>3
<1> QED BY <1>1, <1>2

\* Verify counts the row of the leaf and takes its timestamp in.
LEMMA ReportStep ==
    ASSUME TypeOK, WalkInv, ReportInv, ReaderNext
    PROVE  ReportInv'
<1>1. CASE Visit
    <2>1. PICK a \in Starts : /\ a \notin Met /\ Met' = Met \cup {a}
                              /\ rep' = Counted(rep, Row(a))
        BY <1>1, VisitFacts
    <2>2. \A b : Row(b)' = Row(b)
        BY <1>1, SameTree DEF Visit, treeVars
    <2> DEFINE row == Row(a)  pr == row.record.provider  t == row.record.synced
    <2>3. MetRows' = MetRows \cup {row}
        BY <2>1, <2>2 DEF MetRows
    <2>4. row \notin MetRows
        BY <2>1, RowsDiffer DEF MetRows, Met
    <2>5. row.record \in Stored /\ \A b \in Met : Row(b).record \in Stored
        <3>1. \A b \in Starts : Row(b).record \in Stored
            BY DEF Row, Starts, TypeOK
        <3> QED BY <2>1, <3>1 DEF Met
    <2>6. pr \in Provider /\ t \in Nat /\ \A x \in MetRows : x.record.synced \in Nat
        BY <2>5 DEF Stored, MetRows
    <2>7. /\ rep \in [networks : Nat, byProvider : [Provider -> Nat], oldest : Nat, newest : Nat]
          /\ IsFiniteSet(MetRows) /\ rep.networks = Cardinality(MetRows)
          /\ \A v \in Provider : rep.byProvider[v] = Cardinality(MetOf(v))
          /\ Extremes(rep.oldest, rep.newest, Stamps(MetRows))
        BY DEF ReportInv
    <2> HIDE DEF row
    <2>8. rep' = [rep EXCEPT !.networks = @ + 1, !.byProvider[pr] = @ + 1,
                             !.oldest = Older(@, t), !.newest = Larger(@, t)]
        BY <2>1 DEF Counted, row
    <2> HIDE DEF pr, t
    <2>9. /\ rep'.networks = rep.networks + 1
          /\ rep'.byProvider = [rep.byProvider EXCEPT ![pr] = @ + 1]
          /\ rep'.oldest = Older(rep.oldest, t) /\ rep'.newest = Larger(rep.newest, t)
          /\ rep' \in [networks : Nat, byProvider : [Provider -> Nat], oldest : Nat, newest : Nat]
        <3>1. Older(rep.oldest, t) \in Nat /\ Larger(rep.newest, t) \in Nat
            BY <2>6, <2>7 DEF Older, Larger
        <3>2. [rep.byProvider EXCEPT ![pr] = @ + 1] \in [Provider -> Nat]
            BY <2>6, <2>7
        <3>3. rep.networks + 1 \in Nat
            BY <2>7
        <3>4. /\ rep'.networks = rep.networks + 1
              /\ rep'.oldest = Older(rep.oldest, t) /\ rep'.newest = Larger(rep.newest, t)
            BY <2>7, <2>8
        <3>5. rep'.byProvider = [rep.byProvider EXCEPT ![pr] = @ + 1]
            BY <2>7, <2>8
        <3>6. DOMAIN rep' = {"networks", "byProvider", "oldest", "newest"}
              /\ rep' = [x \in DOMAIN rep' |-> rep'[x]]
            BY <2>7, <2>8
        <3>7. rep' = [networks |-> rep'.networks, byProvider |-> rep'.byProvider,
                      oldest |-> rep'.oldest, newest |-> rep'.newest]
            BY <3>6
        <3> QED BY <3>1, <3>2, <3>3, <3>4, <3>5, <3>7
    <2>10. IsFiniteSet(MetRows') /\ rep'.networks = Cardinality(MetRows')
        BY <2>3, <2>4, <2>7, <2>9, FS_AddElement
    <2>11. ASSUME NEW v \in Provider
           PROVE  rep'.byProvider[v] = Cardinality(MetOf(v)')
        <3>1. CASE v = pr
            <4>1. MetOf(v)' = MetOf(v) \cup {row} /\ row \notin MetOf(v)
                BY <2>3, <2>4, <3>1 DEF MetOf, pr
            <4>2. IsFiniteSet(MetOf(v))
                BY <2>7, FS_Subset DEF MetOf
            <4>3. Cardinality(MetOf(v)') = Cardinality(MetOf(v)) + 1
                BY <4>1, <4>2, FS_AddElement
            <4>4. rep'.byProvider[v] = rep.byProvider[v] + 1
                BY <2>7, <2>9, <3>1
            <4> QED BY <2>7, <4>3, <4>4
        <3>2. CASE v # pr
            <4>1. MetOf(v)' = MetOf(v)
                BY <2>3, <3>2 DEF MetOf, pr
            <4>2. rep'.byProvider[v] = rep.byProvider[v]
                BY <2>7, <2>9, <3>2
            <4> QED BY <2>7, <4>1, <4>2
        <3> QED BY <3>1, <3>2
    <2>12. Extremes(rep'.oldest, rep'.newest, Stamps(MetRows)')
        <3>1. Stamps(MetRows)' = (Stamps(MetRows) \cup {t}) \ {0}
            BY <2>3 DEF Stamps, t
        <3>2. Stamps(MetRows) \subseteq Nat \ {0}
            BY <2>6 DEF Stamps
        <3>3. rep.oldest \in Nat /\ rep.newest \in Nat
            BY <2>7
        <3> QED BY <2>6, <2>7, <2>9, <3>1, <3>2, <3>3, ExtremesStep
    <2>13. Extremes(rep.oldest, rep.newest, Stamps(MetRows))'
        BY <2>12 DEF Extremes
    <2> QED BY <2>9, <2>10, <2>11, <2>13 DEF ReportInv
<1>2. CASE ~Visit
    <2>1. rep' = rep
        BY <1>2, NoVisit
    <2>2. CASE Met' = Met /\ \A a : Row(a)' = Row(a)
        <3>1. MetRows' = MetRows
            BY <2>2 DEF MetRows
        <3>2. \A v : MetOf(v)' = MetOf(v)
            BY <3>1 DEF MetOf
        <3>3. Stamps(MetRows)' = Stamps(MetRows)
            BY <3>1 DEF Stamps
        <3> QED BY <2>1, <3>1, <3>2, <3>3 DEF ReportInv, Extremes
    <2>3. CASE Met' = {} /\ rep = NoReport
        <3>1. MetRows' = {} /\ Stamps(MetRows)' = {}
            BY <2>3 DEF MetRows, Stamps
        <3>2. \A v : MetOf(v)' = {}
            BY <3>1 DEF MetOf
        <3>3. rep' = [networks |-> 0, byProvider |-> [v \in Provider |-> 0],
                      oldest |-> 0, newest |-> 0]
            BY <2>1, <2>3 DEF NoReport
        <3> QED BY <3>1, <3>2, <3>3, FS_EmptySet DEF ReportInv, Extremes
    <2> QED BY <1>2, <2>2, <2>3, NoVisit
<1> QED BY <1>1, <1>2

-----------------------------------------------------------------------------
(***************************************************************************)
(* The invariant, and what it says when the loops have ended.               *)
(***************************************************************************)
(***************************************************************************)
(* The walk leaves the tree alone: what is proved of Build's loop holds of  *)
(* the reader (DB.Networks only reads).                                     *)
(***************************************************************************)
THEOREM TreeImplemented == ReaderSpec => TreeSpec
<1>1. [ReaderNext]_readerVars => [TreeNext]_treeVars
    BY DEF ReaderNext, Visit, Finish, readerVars, treeVars
<1> QED BY <1>1, PTL DEF ReaderSpec, ReaderInit, TreeSpec

\* Nothing is met before the walk.
LEMMA ReaderInitiation == ReaderInit => ReaderInv
<1> SUFFICES ASSUME ReaderInit PROVE ReaderInv
    OBVIOUS
<1>1. /\ pc = "reading" /\ at = 0 /\ done = FALSE
      /\ idx = <<>> /\ csv = <<>>
      /\ rep = [networks |-> 0, byProvider |-> [v \in Provider |-> 0],
                oldest |-> 0, newest |-> 0]
      /\ \A a \in Addr : tree[a] = NoRecord
    BY DEF ReaderInit, TreeInit, Init, NoReport
<1>2. Starts = {} /\ Met = {}
    BY <1>1 DEF Starts, Met
<1>3. MetRows = {} /\ Stamps(MetRows) = {} /\ \A v : MetOf(v) = {}
    BY <1>2 DEF MetRows, Stamps, MetOf
<1>4. WalkInv
    BY <1>1 DEF WalkInv, NoReport
<1>5. IndexInv /\ CsvInv
    BY <1>1, <1>2 DEF IndexInv, CsvInv
<1>6. ReportInv
    BY <1>1, <1>3, FS_EmptySet DEF ReportInv, Extremes
<1> QED BY <1>4, <1>5, <1>6 DEF ReaderInv

\* A step that changes nothing keeps the invariant.
LEMMA ReaderStutter ==
    ASSUME ReaderInv, UNCHANGED readerVars
    PROVE  ReaderInv'
<1>1. UNCHANGED <<tree, pc, at, done, idx, rep, csv>>
    BY DEF readerVars
<1>2. Starts' = Starts /\ Met' = Met /\ \A a : Row(a)' = Row(a)
    BY <1>1, SameTree DEF Met
<1>3. MetRows' = MetRows /\ Upcoming' = Upcoming
    BY <1>1, <1>2 DEF MetRows, Upcoming
<1>4. WalkInv' /\ IndexInv'
    BY <1>1, <1>2, <1>3 DEF ReaderInv, WalkInv, IndexInv, NoReport, Offset, Identity
<1>5. CsvInv'
    BY <1>1, <1>2 DEF ReaderInv, CsvInv, CsvRow
<1>6. ReportInv'
    BY <1>1, <1>3 DEF ReaderInv, ReportInv, MetOf, Stamps, Extremes
<1> QED BY <1>4, <1>5, <1>6 DEF ReaderInv

\* So the invariant always holds, with the types of Build.
LEMMA ReaderInductive == ReaderSpec => [](TypeOK /\ ReaderInv)
<1>1. TypeOK /\ ReaderInv /\ [ReaderNext]_readerVars => ReaderInv'
    <2> SUFFICES ASSUME TypeOK, ReaderInv, [ReaderNext]_readerVars PROVE ReaderInv'
        OBVIOUS
    <2>1. CASE ReaderNext
        BY <2>1, WalkStep, IndexStep, CsvStep, ReportStep DEF ReaderInv
    <2>2. CASE UNCHANGED readerVars
        BY <2>2, ReaderStutter
    <2> QED BY <2>1, <2>2
<1>2. ReaderSpec => []TypeOK
    BY TreeImplemented, MergeImplemented, TypeCorrect, PTL
<1> QED BY <1>1, <1>2, ReaderInitiation, PTL DEF ReaderSpec

\* When the loops have ended, every leaf has been met.
LEMMA AllMet ==
    ASSUME WalkInv, done
    PROVE  Met = Starts
<1>1. at \in Nat /\ Upcoming = {} /\ Starts \subseteq Nat
    BY Widths DEF WalkInv, Starts
<1>2. \A a \in Starts : a < at
    BY <1>1 DEF Upcoming
<1> QED BY <1>2 DEF Met

(***************************************************************************)
(* The index answers like the decoder: a walk over the leaves alone, which  *)
(* skips the aliases and the offsets it knows, meets every record a lookup  *)
(* can end at, through an alias too (BuildIndex, LookupProvider).           *)
(***************************************************************************)
THEOREM IndexAlwaysAgrees == ReaderSpec => []IndexAgrees
<1>1. ReaderInv => IndexAgrees
    <2> SUFFICES ASSUME ReaderInv, NEW ip \in Ip, Contains(ip)
                 PROVE  LookupProvider(ip) = Identity(Lookup(ip).record)
        BY DEF IndexAgrees
    <2> DEFINE s == SlotOf(ip)  a == StartOf(s)
    <2>1. s \in Addr /\ tree[s] # NoRecord /\ Lookup(ip).record = tree[s]
        BY SlotFacts DEF Contains, Lookup
    <2>2. a \in Starts /\ tree[a] = tree[s]
        BY <2>1, StartFacts
    <2> HIDE DEF a
    <2>3. CASE ~done
        BY <2>1, <2>3 DEF LookupProvider
    <2>4. CASE done
        <3>1. Offset(tree[a]) \in DOMAIN idx /\ idx[Offset(tree[a])] = Identity(tree[a])
            BY <2>2, <2>4, AllMet DEF ReaderInv, IndexInv
        <3> QED BY <2>1, <2>2, <2>4, <3>1 DEF LookupProvider
    <2> QED BY <2>3, <2>4
<1> QED BY <1>1, ReaderInductive, PTL

(***************************************************************************)
(* The CSV is the database: a range join on start_ip_int and end_ip_int     *)
(* finds for every listed address the one row Lookup answers from, and no   *)
(* row for an address without a record (ExportCSV, rangeBounds).            *)
(***************************************************************************)
THEOREM ExportAlwaysMatches == ReaderSpec => []ExportMatches
<1>1. ReaderInv => ExportMatches
    <2> SUFFICES ASSUME ReaderInv, done, NEW ip \in Listed
                 PROVE  IF Contains(ip)
                        THEN \E i \in DOMAIN csv : /\ Hits(ip) = {i}
                                                   /\ csv[i].network = Lookup(ip).network
                                                   /\ csv[i].record = Lookup(ip).record
                        ELSE Hits(ip) = {}
        BY DEF ExportMatches
    <2>1. Met = Starts
        BY AllMet DEF ReaderInv
    <2>2. /\ \A i \in DOMAIN csv : \E a \in Starts : csv[i] = CsvRow(Row(a))
          /\ \A a \in Starts : \E i \in DOMAIN csv : csv[i] = CsvRow(Row(a))
          /\ \A i, j \in DOMAIN csv : csv[i] = csv[j] => i = j
        <3> DEFINE S == {CsvRow(Row(a)) : a \in Met}
        <3>1. csv \in Seq(S)
            BY DEF ReaderInv, CsvInv
        <3>2. \A i \in DOMAIN csv : csv[i] \in S
            <4> HIDE DEF S
            <4> QED BY <3>1
        <3> QED BY <2>1, <3>2 DEF ReaderInv, CsvInv
    <2> DEFINE s == StartOf(ip.addr)
    <2>3. \A i \in DOMAIN csv : i \in Hits(ip) <=>
             \E a \in Starts : csv[i] = CsvRow(Row(a)) /\ a = s
        <3> SUFFICES ASSUME NEW i \in DOMAIN csv
                     PROVE  i \in Hits(ip) <=>
                               \E a \in Starts : csv[i] = CsvRow(Row(a)) /\ a = s
            OBVIOUS
        <3>1. \A a \in Starts : csv[i] = CsvRow(Row(a)) => (i \in Hits(ip) <=> a = s)
            BY RangeIsLeaf DEF Hits
        <3> HIDE DEF s
        <3> QED BY <2>2, <3>1
    <2>4. CASE Contains(ip)
        <3>1. s \in Starts /\ Lookup(ip) = Row(s)
            BY <2>4, AnswerIsRow
        <3> HIDE DEF s
        <3>2. PICK i \in DOMAIN csv : csv[i] = CsvRow(Row(s))
            BY <2>2, <3>1
        <3>3. \A j \in DOMAIN csv : j \in Hits(ip) <=> j = i
            BY <2>2, <2>3, <3>1, <3>2
        <3>4. Hits(ip) = {i}
            BY <3>2, <3>3 DEF Hits
        <3>5. csv[i].network = Lookup(ip).network /\ csv[i].record = Lookup(ip).record
            BY <3>1, <3>2 DEF CsvRow
        <3> QED BY <2>4, <3>2, <3>4, <3>5
    <2>5. CASE ~Contains(ip)
        <3>1. /\ ip \in Ip /\ AliasesOf(ip) = {}
            BY ListedFacts
        <3>2. ip.addr \in Addr /\ tree[ip.addr] = NoRecord
            BY <2>5, <3>1, SlotOutside DEF Contains
        <3>3. s \notin Starts
            BY <3>2, StartFacts DEF Starts
        <3> HIDE DEF s
        <3>4. \A j \in DOMAIN csv : j \notin Hits(ip)
            BY <2>3, <3>3
        <3>5. Hits(ip) = {}
            BY <3>4 DEF Hits
        <3> QED BY <2>5, <3>5
    <2> QED BY <2>4, <2>5
<1> QED BY <1>1, ReaderInductive, PTL

(***************************************************************************)
(* Verify reports what lookups can find: as many networks, of each          *)
(* provider too, as there are different answers, and the oldest and the     *)
(* newest of their timestamps (Verify).                                     *)
(***************************************************************************)
THEOREM VerifyAlwaysHonest == ReaderSpec => []VerifyHonest
<1>1. ReaderInv => VerifyHonest
    <2> SUFFICES ASSUME ReaderInv, done PROVE VerifyHonest
        BY DEF VerifyHonest
    <2> DEFINE answers == {Lookup(ip) : ip \in {i \in Listed : Contains(i)}}
    <2>1. answers = MetRows
        BY AnswersAreRows, AllMet DEF ReaderInv, MetRows
    <2> HIDE DEF answers
    <2>2. rep.networks = Cardinality(answers)
        BY <2>1 DEF ReaderInv, ReportInv
    <2>3. \A v \in Provider :
             rep.byProvider[v] = Cardinality({x \in answers : x.record.provider = v})
        BY <2>1 DEF ReaderInv, ReportInv, MetOf
    <2>4. Extremes(rep.oldest, rep.newest, {x.record.synced : x \in answers} \ {0})
        BY <2>1 DEF ReaderInv, ReportInv, Stamps
    <2> QED BY <2>2, <2>3, <2>4 DEF VerifyHonest, Extremes, answers
<1> QED BY <1>1, ReaderInductive, PTL
=============================================================================
