------------------------------ MODULE TreeProofs ------------------------------
(***************************************************************************)
(* Proofs about MergeTree and PrefixTree.                                   *)
(*                                                                          *)
(* Whatever the feeds hold and however many entries they yield: who owns an *)
(* address, whose fields its record has, and that an earlier stream is      *)
(* never displaced by a later one.                                          *)
(*                                                                          *)
(* For every width of addresses, every set of aliases and whatever the      *)
(* feeds list: Build's loop implements the merge of MergeTree, and an       *)
(* address has a record exactly if a listed network claims it.              *)
(***************************************************************************)
EXTENDS PrefixTree, TLAPS


-----------------------------------------------------------------------------
(***************************************************************************)
(* The operators of the merge.                                              *)
(***************************************************************************)
\* Larger is the maximum of two integers.
LEMMA LargerFacts ==
    ASSUME NEW m \in Int, NEW n \in Int
    PROVE  /\ Larger(m, n) \in {m, n}
           /\ m <= Larger(m, n) /\ n <= Larger(m, n)
BY DEF Larger

\* toMMDB yields a record of the tree, of the same provider and region, whose
\* ext has no empty value.
LEMMA ToMMDBType ==
    ASSUME NEW r \in Record
    PROVE  /\ ToMMDB(r) \in Stored
           /\ ToMMDB(r).provider = r.provider
<1> DEFINE e == [k \in ExtKey |-> IF r.ext[k] = Empty THEN NoValue ELSE r.ext[k]]
<1>1. e \in [ExtKey -> ExtValue \cup {NoValue}]
    BY DEF Record
<1>2. Larger(0, r.synced) \in Nat
    <2>1. r.synced \in Int
        BY TimeAssumption DEF Record
    <2> QED BY <2>1 DEF Larger
<1>3. ToMMDB(r) = [r EXCEPT !.ext = e, !.synced = Larger(0, r.synced)]
    BY DEF ToMMDB, Record
<1> HIDE DEF e
<1> QED BY <1>1, <1>2, <1>3 DEF Record, Stored

\* unionExt keeps the type of ext.
LEMMA UnionExtType ==
    ASSUME NEW old \in [ExtKey -> ExtValue \cup {NoValue}],
           NEW new \in [ExtKey -> ExtValue \cup {NoValue}]
    PROVE  UnionExt(old, new) \in [ExtKey -> ExtValue \cup {NoValue}]
BY DEF UnionExt

\* mergeRecords yields a record of the tree, and what each field of it is when
\* there was none, when there was one of another provider, and of the same.
LEMMA MergeFacts ==
    ASSUME NEW cur \in Stored \cup {NoRecord}, NEW new \in Stored
    PROVE  /\ Merge(cur, new) \in Stored
           /\ cur = NoRecord => Merge(cur, new) = new
           /\ cur # NoRecord =>
                /\ Merge(cur, new).provider = cur.provider
                /\ Merge(cur, new).region = cur.region
                /\ Merge(cur, new).categories = cur.categories \cup new.categories
           /\ cur # NoRecord /\ cur.provider # new.provider =>
                /\ Merge(cur, new).services = cur.services
                /\ Merge(cur, new).ext = cur.ext
                /\ Merge(cur, new).synced = cur.synced
           /\ cur # NoRecord /\ cur.provider = new.provider =>
                /\ Merge(cur, new).services = cur.services \cup new.services
                /\ Merge(cur, new).ext = UnionExt(cur.ext, new.ext)
                /\ Merge(cur, new).synced = Larger(cur.synced, new.synced)
<1>1. CASE cur = NoRecord
    BY <1>1 DEF Merge
<1>2. CASE cur # NoRecord
    <2> DEFINE c == WithCategories(cur, new)
               w == WithFields(c, new)
    <2>1. cur \in Stored
        BY <1>2
    <2>2. /\ c \in Stored
          /\ c.provider = cur.provider /\ c.region = cur.region
          /\ c.categories = cur.categories \cup new.categories
          /\ c.services = cur.services /\ c.ext = cur.ext /\ c.synced = cur.synced
        BY <2>1 DEF WithCategories, Stored
    <2>3. Larger(c.synced, new.synced) \in Nat
        BY <2>2 DEF Larger, Stored
    <2>4. UnionExt(c.ext, new.ext) \in [ExtKey -> ExtValue \cup {NoValue}]
        <3>1. c.ext \in [ExtKey -> ExtValue \cup {NoValue}]
            BY <2>2 DEF Stored
        <3>2. new.ext \in [ExtKey -> ExtValue \cup {NoValue}]
            BY DEF Stored
        <3> QED BY <3>1, <3>2, UnionExtType
    <2>5. /\ w \in Stored
          /\ w.provider = c.provider /\ w.region = c.region
          /\ w.categories = c.categories
          /\ w.services = c.services \cup new.services
          /\ w.ext = UnionExt(c.ext, new.ext)
          /\ w.synced = Larger(c.synced, new.synced)
        <3> HIDE DEF c
        <3> QED BY <2>2, <2>3, <2>4 DEF WithFields, Stored
    <2>6. Merge(cur, new) = IF cur.provider # new.provider THEN c ELSE w
        BY <1>2 DEF Merge
    <2> HIDE DEF c, w
    <2> QED BY <1>2, <2>1, <2>2, <2>5, <2>6
<1> QED BY <1>1, <1>2

-----------------------------------------------------------------------------
(***************************************************************************)
(* The inductive invariant.  FirstWriterOwns speaks of the first entry that *)
(* covers an address if there is one; Owned says that there is, which spares *)
(* an induction over the log.  Provenance records where an entry came from, *)
(* and that the streams were consumed one after the other.                  *)
(***************************************************************************)
Owned ==
    \A a \in Addr :
        /\ tree[a] = NoRecord <=> Covering(a) = {}
        /\ Covering(a) # {} => \E f : /\ First(f, a)
                                      /\ tree[a].provider = log[f].record.provider
                                      /\ tree[a].region = log[f].record.region

Provenance ==
    \A i \in DOMAIN log :
        /\ log[i].stream <= stream
        /\ \E r \in Feed(log[i].stream) : r.provider = log[i].record.provider
        /\ \A j \in DOMAIN log : i <= j => log[i].stream <= log[j].stream

IInv == TypeOK /\ Owned /\ CategoriesFromAll /\ FieldsFromOwner /\ Provenance

-----------------------------------------------------------------------------
(***************************************************************************)
(* What an insert does to the log and to the sets the properties use.       *)
(***************************************************************************)
LEMMA InsertFacts ==
    ASSUME TypeOK, NEW p \in Prefix, NEW r \in StreamRecords(stream), Insert(p, r)
    PROVE  /\ Len(log) \in Nat /\ DOMAIN log = 1..Len(log)
           /\ DOMAIN log' = 1..(Len(log) + 1)
           /\ \A i \in DOMAIN log : log'[i] = log[i]
           /\ log'[Len(log) + 1] = [prefix |-> p, record |-> ToMMDB(r), stream |-> stream]
           /\ r \in Record /\ ToMMDB(r) \in Stored /\ ToMMDB(r).provider = r.provider
           /\ log' \in Seq(Logged)
<1> DEFINE e == [prefix |-> p, record |-> ToMMDB(r), stream |-> stream]
<1>1. log \in Seq(Logged) /\ log' = Append(log, e) /\ stream \in 1..NStream
    BY DEF TypeOK, Insert
<1>2. r \in Record
    BY <1>1, FeedAssumption DEF StreamRecords
<1>3. ToMMDB(r) \in Stored /\ ToMMDB(r).provider = r.provider
    BY <1>2, ToMMDBType
<1>4. e \in Logged
    BY <1>1, <1>3 DEF Logged
<1> HIDE DEF e
<1>5. /\ Len(log) \in Nat /\ DOMAIN log = 1..Len(log)
      /\ DOMAIN log' = 1..(Len(log) + 1)
      /\ \A i \in DOMAIN log : log'[i] = log[i]
      /\ log'[Len(log) + 1] = e
      /\ log' \in Seq(Logged)
    BY <1>1, <1>4
<1> QED BY <1>2, <1>3, <1>5 DEF e

\* The entries that cover an address: the new one if its network does.
LEMMA CoveringStep ==
    ASSUME TypeOK, NEW p \in Prefix, NEW r \in StreamRecords(stream), Insert(p, r),
           NEW a \in Addr
    PROVE  /\ Covering(a) \subseteq DOMAIN log
           /\ Covering(a)' = Covering(a) \cup (IF a \in p THEN {Len(log) + 1} ELSE {})
<1>0. /\ Len(log) \in Nat /\ DOMAIN log = 1..Len(log)
      /\ DOMAIN log' = 1..(Len(log) + 1)
      /\ log'[Len(log) + 1] = [prefix |-> p, record |-> ToMMDB(r), stream |-> stream]
    BY InsertFacts
<1>1. \A i \in DOMAIN log : log'[i] = log[i]
    BY InsertFacts
<1>2. log'[Len(log) + 1].prefix = p
    BY <1>0
<1>3. DOMAIN log' = DOMAIN log \cup {Len(log) + 1}
    BY <1>0
<1>4. Covering(a)' = {i \in DOMAIN log' : a \in log'[i].prefix}
    BY DEF Covering
<1>5. Covering(a) = {i \in DOMAIN log : a \in log[i].prefix}
    BY DEF Covering
<1> QED BY <1>1, <1>2, <1>3, <1>4, <1>5

\* The first entry that covers an address stays the first.
LEMMA FirstStep ==
    ASSUME TypeOK, NEW p \in Prefix, NEW r \in StreamRecords(stream), Insert(p, r),
           NEW a \in Addr
    PROVE  /\ \A f : First(f, a) => First(f, a)' /\ log'[f] = log[f]
           /\ Covering(a) = {} /\ a \in p => \A n : n = Len(log) + 1 => First(n, a)'
<1>1. /\ Covering(a) \subseteq DOMAIN log
      /\ Covering(a)' = Covering(a) \cup (IF a \in p THEN {Len(log) + 1} ELSE {})
    BY CoveringStep
<1>2. Len(log) \in Nat /\ DOMAIN log = 1..Len(log)
      /\ \A i \in DOMAIN log : log'[i] = log[i]
    BY InsertFacts
<1>3. \A f : First(f, a) <=> f \in Covering(a) /\ \A i \in Covering(a) : f <= i
    BY DEF First
<1>4. \A f : First(f, a)' <=> f \in Covering(a)' /\ \A i \in Covering(a)' : f <= i
    BY DEF First
<1>5. ASSUME NEW f, First(f, a)
      PROVE  First(f, a)' /\ log'[f] = log[f]
    <2>1. f \in Covering(a) /\ \A i \in Covering(a) : f <= i
        BY <1>3, <1>5
    <2>2. f \in 1..Len(log) /\ f <= Len(log) + 1
        BY <1>1, <1>2, <2>1
    <2>3. \A i \in Covering(a)' : f <= i
        BY <1>1, <2>1, <2>2
    <2> QED BY <1>1, <1>2, <1>4, <2>1, <2>2, <2>3
<1>6. ASSUME Covering(a) = {}, a \in p, NEW n, n = Len(log) + 1
      PROVE  First(n, a)'
    <2>1. Covering(a)' = {n} /\ n \in Nat
        BY <1>1, <1>2, <1>6
    <2> QED BY <1>2, <1>4, <2>1
<1> QED BY <1>5, <1>6

\* There is one first entry.
LEMMA FirstUnique ==
    ASSUME TypeOK, NEW a \in Addr, NEW f, NEW g, First(f, a), First(g, a)
    PROVE  f = g
<1>1. log \in Seq(Logged)
    BY DEF TypeOK
<1>2. Covering(a) \subseteq Nat
    BY <1>1 DEF Covering
<1>3. f \in Covering(a) /\ g \in Covering(a) /\ f <= g /\ g <= f
    BY DEF First
<1> QED BY <1>2, <1>3


-----------------------------------------------------------------------------
(***************************************************************************)
(* An insert preserves each conjunct.  Only one address matters at a time:  *)
(* TreeStep says what its record becomes.                                   *)
(***************************************************************************)
LEMMA TreeStep ==
    ASSUME TypeOK, NEW p \in Prefix, NEW r \in StreamRecords(stream), Insert(p, r),
           NEW a \in Addr
    PROVE  LET new == ToMMDB(r)
           IN  /\ tree[a] \in Stored \cup {NoRecord}
               /\ tree'[a] \in Stored \cup {NoRecord}
               /\ a \notin p => tree'[a] = tree[a]
               /\ a \in p => tree'[a] # NoRecord
               /\ a \in p /\ tree[a] = NoRecord => tree'[a] = new
               /\ a \in p /\ tree[a] # NoRecord =>
                    /\ tree'[a].provider = tree[a].provider
                    /\ tree'[a].region = tree[a].region
                    /\ tree'[a].categories = tree[a].categories \cup new.categories
               /\ a \in p /\ tree[a] # NoRecord /\ tree[a].provider # new.provider =>
                    /\ tree'[a].services = tree[a].services
                    /\ tree'[a].ext = tree[a].ext
                    /\ tree'[a].synced = tree[a].synced
               /\ a \in p /\ tree[a] # NoRecord /\ tree[a].provider = new.provider =>
                    /\ tree'[a].services = tree[a].services \cup new.services
                    /\ tree'[a].ext = UnionExt(tree[a].ext, new.ext)
                    /\ tree'[a].synced = Larger(tree[a].synced, new.synced)
<1> DEFINE new == ToMMDB(r)
<1>1. tree[a] \in Stored \cup {NoRecord}
    BY DEF TypeOK
<1>2. new \in Stored
    BY InsertFacts
<1>3. tree'[a] = IF a \in p THEN Merge(tree[a], new) ELSE tree[a]
    BY DEF Insert
<1> HIDE DEF new
<1>4. Merge(tree[a], new) # NoRecord
    BY <1>1, <1>2, MergeFacts, StoredAssumption
<1>5. CASE a \notin p
    BY <1>1, <1>3, <1>5
<1>6. CASE a \in p
    <2>1. tree'[a] = Merge(tree[a], new)
        BY <1>3, <1>6
    <2> HIDE DEF new
    <2> QED BY <1>1, <1>2, <1>4, <1>6, <2>1, MergeFacts DEF new
<1> QED BY <1>5, <1>6

\* An insert keeps the types.
LEMMA InsertType ==
    ASSUME TypeOK, NEW p \in Prefix, NEW r \in StreamRecords(stream), Insert(p, r)
    PROVE  TypeOK'
<1>1. log' \in Seq(Logged)
    BY InsertFacts
<1>2. tree' \in [Addr -> Stored \cup {NoRecord}]
    <2>1. \A a \in Addr : tree'[a] \in Stored \cup {NoRecord}
        BY TreeStep
    <2>2. tree' = [a \in Addr |-> tree'[a]]
        BY DEF Insert
    <2> QED BY <2>1, <2>2
<1>3. UNCHANGED <<skipped, stream, pc>>
    BY DEF Insert
<1> QED BY <1>1, <1>2, <1>3 DEF TypeOK

\* An insert leaves the owner of a slot alone and gives an empty one an owner.
LEMMA InsertOwned ==
    ASSUME TypeOK, Owned, NEW p \in Prefix, NEW r \in StreamRecords(stream), Insert(p, r)
    PROVE  Owned'
<1> SUFFICES ASSUME NEW a \in Addr
             PROVE  /\ tree'[a] = NoRecord <=> Covering(a)' = {}
                    /\ Covering(a)' # {} =>
                         \E f : /\ First(f, a)'
                                /\ tree'[a].provider = log'[f].record.provider
                                /\ tree'[a].region = log'[f].record.region
    BY DEF Owned
<1>1. /\ tree[a] = NoRecord <=> Covering(a) = {}
      /\ Covering(a) # {} => \E f : /\ First(f, a)
                                    /\ tree[a].provider = log[f].record.provider
                                    /\ tree[a].region = log[f].record.region
    BY DEF Owned
<1>2. Covering(a)' = Covering(a) \cup (IF a \in p THEN {Len(log) + 1} ELSE {})
    BY CoveringStep
<1>3. \A f : First(f, a) => First(f, a)' /\ log'[f] = log[f]
    BY FirstStep
<1>4. CASE a \notin p
    <2>1. tree'[a] = tree[a]
        BY <1>4, TreeStep
    <2> QED BY <1>1, <1>2, <1>3, <1>4, <2>1
<1>5. CASE a \in p /\ tree[a] # NoRecord
    <2>1. tree'[a] # NoRecord
        BY <1>5, TreeStep
    <2>2. tree'[a].provider = tree[a].provider /\ tree'[a].region = tree[a].region
        BY <1>5, TreeStep
    <2> QED BY <1>1, <1>2, <1>3, <1>5, <2>1, <2>2
<1>6. CASE a \in p /\ tree[a] = NoRecord
    <2> DEFINE n == Len(log) + 1
    <2>1. tree'[a] = ToMMDB(r) /\ tree'[a] # NoRecord
        BY <1>6, TreeStep
    <2>2. log'[n] = [prefix |-> p, record |-> ToMMDB(r), stream |-> stream]
        BY InsertFacts
    <2>3. \A m : m = n => First(m, a)'
        BY <1>1, <1>6, FirstStep
    <2>4. PICK m : m = n
        OBVIOUS
    <2> QED BY <1>2, <1>6, <2>1, <2>2, <2>3, <2>4
<1> QED BY <1>4, <1>5, <1>6

\* An insert adds its categories to every record it touches.
LEMMA InsertCategories ==
    ASSUME TypeOK, Owned, CategoriesFromAll,
           NEW p \in Prefix, NEW r \in StreamRecords(stream), Insert(p, r)
    PROVE  CategoriesFromAll'
<1> SUFFICES ASSUME NEW a \in Addr, tree'[a] # NoRecord
             PROVE  tree'[a].categories =
                      UNION {log'[i].record.categories : i \in Covering(a)'}
    BY DEF CategoriesFromAll
<1> DEFINE n == Len(log) + 1
           old == UNION {log[i].record.categories : i \in Covering(a)}
<1>1. tree[a] # NoRecord => tree[a].categories = old
    BY DEF CategoriesFromAll
<1>2. Covering(a) \subseteq DOMAIN log
    BY CoveringStep
<1>3. \A i \in Covering(a) : log'[i] = log[i]
    BY <1>2, InsertFacts
<1>4. CASE a \notin p
    <2>1. tree'[a] = tree[a]
        BY <1>4, TreeStep
    <2>2. Covering(a)' = Covering(a)
        <3>1. Covering(a)' = Covering(a) \cup (IF a \in p THEN {n} ELSE {})
            BY CoveringStep
        <3> QED BY <1>4, <3>1
    <2> QED BY <1>1, <1>3, <2>1, <2>2
<1>5. CASE a \in p
    <2>1. Covering(a)' = Covering(a) \cup {n}
        BY <1>5, CoveringStep
    <2>2. log'[n].record = ToMMDB(r)
        <3>1. log'[n] = [prefix |-> p, record |-> ToMMDB(r), stream |-> stream]
            BY InsertFacts
        <3> QED BY <3>1
    <2>3. UNION {log'[i].record.categories : i \in Covering(a)'} = old \cup ToMMDB(r).categories
        <3> HIDE DEF n
        <3> QED BY <1>3, <2>1, <2>2
    <2>4. tree'[a].categories = old \cup ToMMDB(r).categories
        <3>1. CASE tree[a] # NoRecord
            <4>1. tree'[a].categories = tree[a].categories \cup ToMMDB(r).categories
                BY <1>5, <3>1, TreeStep
            <4> QED BY <1>1, <3>1, <4>1
        <3>2. CASE tree[a] = NoRecord
            <4>1. tree'[a] = ToMMDB(r)
                BY <1>5, <3>2, TreeStep
            <4>2. Covering(a) = {}
                BY <3>2 DEF Owned
            <4> QED BY <4>1, <4>2
        <3> QED BY <3>1, <3>2
    <2> QED BY <2>3, <2>4
<1> QED BY <1>4, <1>5


\* The entries of the owner: the new one if it covers the address and has the
\* owner's provider.
LEMMA MatesStep ==
    ASSUME TypeOK, NEW p \in Prefix, NEW r \in StreamRecords(stream), Insert(p, r),
           NEW a \in Addr, NEW f \in Covering(a)
    PROVE  /\ Mates(f, a) \subseteq DOMAIN log
           /\ \A i \in Mates(f, a) : log'[i] = log[i]
           /\ Mates(f, a)' = Mates(f, a) \cup
                (IF a \in p /\ log[f].record.provider = ToMMDB(r).provider
                 THEN {Len(log) + 1} ELSE {})
<1> DEFINE n == Len(log) + 1
<1>1. Covering(a) \subseteq DOMAIN log
    BY CoveringStep
<1>2. Covering(a)' = Covering(a) \cup (IF a \in p THEN {n} ELSE {})
    BY CoveringStep
<1>3. \A i \in DOMAIN log : log'[i] = log[i]
    BY InsertFacts
<1>4. log'[n].record = ToMMDB(r)
    <2>1. log'[n] = [prefix |-> p, record |-> ToMMDB(r), stream |-> stream]
        BY InsertFacts
    <2> QED BY <2>1
<1>5. Mates(f, a) = {i \in Covering(a) : log[i].record.provider = log[f].record.provider}
    BY DEF Mates
<1>6. Mates(f, a)' = {i \in Covering(a)' : log'[i].record.provider = log'[f].record.provider}
    BY DEF Mates
<1>7. log'[f] = log[f] /\ \A i \in Covering(a) : log'[i] = log[i]
    BY <1>1, <1>3
<1> HIDE DEF n
<1>8. Mates(f, a)' = Mates(f, a) \cup
        (IF a \in p /\ log[f].record.provider = ToMMDB(r).provider THEN {n} ELSE {})
    BY <1>2, <1>4, <1>5, <1>6, <1>7
<1> QED BY <1>1, <1>5, <1>7, <1>8 DEF n

\* An insert changes services, ext and timestamp of its own provider's records only.
LEMMA InsertFields ==
    ASSUME TypeOK, Owned, FieldsFromOwner,
           NEW p \in Prefix, NEW r \in StreamRecords(stream), Insert(p, r)
    PROVE  FieldsFromOwner'
<1> SUFFICES ASSUME NEW a \in Addr, NEW f \in Covering(a)', First(f, a)'
             PROVE  LET M == Mates(f, a)'
                    IN  /\ tree'[a].services = UNION {log'[i].record.services : i \in M}
                        /\ \A i \in M : log'[i].record.synced <= tree'[a].synced
                        /\ \E i \in M : log'[i].record.synced = tree'[a].synced
                        /\ \A k \in ExtKey :
                             LET v == tree'[a].ext[k]
                             IN  \/ v = NoValue /\ \A i \in M : log'[i].record.ext[k] = NoValue
                                 \/ \E i \in M :
                                      /\ log'[i].record.ext[k] = v /\ v # NoValue
                                      /\ \A j \in M : j > i => log'[j].record.ext[k] = NoValue
    BY DEF FieldsFromOwner, LatestValue
<1> DEFINE n == Len(log) + 1
           new == ToMMDB(r)
<1>1. /\ Len(log) \in Nat /\ n \in Nat /\ DOMAIN log = 1..Len(log)
      /\ log'[n] = [prefix |-> p, record |-> new, stream |-> stream]
      /\ new \in Stored
    BY InsertFacts
<1>2. log'[n].record = new
    BY <1>1
<1>3. Covering(a)' = Covering(a) \cup (IF a \in p THEN {n} ELSE {})
    BY CoveringStep
<1>4. Covering(a) \subseteq DOMAIN log
    BY CoveringStep
<1>5. new.synced \in Nat
    BY <1>1 DEF Stored
<1> HIDE DEF n, new
<1>6. CASE Covering(a) = {}
    <2>1. a \in p /\ f = n
        BY <1>3, <1>6
    <2>2. tree'[a] = new
        <3>1. tree[a] = NoRecord
            BY <1>6 DEF Owned
        <3> QED BY <2>1, <3>1, TreeStep DEF new
    <2>3. Mates(f, a)' = {n}
        <3>1. Mates(f, a)' = {i \in Covering(a)' : log'[i].record.provider = log'[f].record.provider}
            BY DEF Mates
        <3> QED BY <1>3, <1>6, <2>1, <3>1
    <2> QED BY <1>1, <1>2, <1>5, <2>2, <2>3
<1>7. CASE Covering(a) # {}
    <2> DEFINE M == Mates(f, a)
    <2>1. /\ f \in Covering(a) /\ First(f, a)
          /\ tree[a] # NoRecord /\ tree[a].provider = log[f].record.provider
        <3>1. PICK g : /\ First(g, a)
                       /\ tree[a].provider = log[g].record.provider
            BY <1>7 DEF Owned
        <3>2. g \in Covering(a) /\ g \in Covering(a)'
            BY <1>3, <3>1 DEF First
        <3>3. First(g, a)'
            BY <3>1, FirstStep
        <3>4. f <= g /\ g <= f
            <4>1. \A i \in Covering(a)' : f <= i /\ g <= i
                BY <3>3 DEF First
            <4> QED BY <3>2, <4>1
        <3>5. f \in Nat /\ g \in Nat
            BY <1>1, <1>3, <1>4, <3>2
        <3>6. f = g
            BY <3>4, <3>5
        <3>7. tree[a] # NoRecord
            BY <1>7 DEF Owned
        <3> QED BY <3>1, <3>2, <3>6, <3>7
    <2>2. /\ tree[a].services = UNION {log[i].record.services : i \in M}
          /\ \A i \in M : log[i].record.synced <= tree[a].synced
          /\ \E i \in M : log[i].record.synced = tree[a].synced
          /\ \A k \in ExtKey : LatestValue(M, k, tree[a].ext[k])
        BY <2>1 DEF FieldsFromOwner
    <2>3. M \subseteq DOMAIN log /\ \A i \in M : log'[i] = log[i]
        BY <2>1, MatesStep
    <2>4. Mates(f, a)' = M \cup (IF a \in p /\ tree[a].provider = new.provider
                                 THEN {n} ELSE {})
        BY <2>1, MatesStep DEF n, new
    <2>5. /\ tree[a] \in Stored /\ tree[a].synced \in Nat
          /\ \A i \in M : log[i].record.synced \in Nat
        <3>1. tree[a] \in Stored
            BY <2>1, TreeStep
        <3>2. \A i \in DOMAIN log : log[i] \in Logged
            <4>1. log \in Seq(Logged)
                BY DEF TypeOK
            <4> QED BY <4>1
        <3>3. \A i \in DOMAIN log : log[i].record.synced \in Nat
            BY <3>2 DEF Logged, Stored
        <3>4. tree[a].synced \in Nat
            BY <3>1 DEF Stored
        <3> QED BY <2>3, <3>1, <3>3, <3>4
    <2> HIDE DEF M
    <2>6. CASE ~(a \in p /\ tree[a].provider = new.provider)
        <3>1. /\ tree'[a].services = tree[a].services
              /\ tree'[a].ext = tree[a].ext
              /\ tree'[a].synced = tree[a].synced
            BY <2>1, <2>6, TreeStep DEF new
        <3>2. Mates(f, a)' = M
            BY <2>4, <2>6
        <3> QED BY <2>2, <2>3, <3>1, <3>2 DEF LatestValue
    <2>7. CASE a \in p /\ tree[a].provider = new.provider
        <3>1. /\ tree'[a].services = tree[a].services \cup new.services
              /\ tree'[a].ext = UnionExt(tree[a].ext, new.ext)
              /\ tree'[a].synced = Larger(tree[a].synced, new.synced)
            BY <2>1, <2>7, TreeStep DEF new
        <3>2. Mates(f, a)' = M \cup {n}
            BY <2>4, <2>7
        <3>3. tree'[a].services = UNION {log'[i].record.services : i \in M \cup {n}}
            BY <1>2, <2>2, <2>3, <3>1
        <3>4. /\ \A i \in M \cup {n} : log'[i].record.synced <= tree'[a].synced
              /\ \E i \in M \cup {n} : log'[i].record.synced = tree'[a].synced
            <4>1. tree'[a].synced = IF new.synced > tree[a].synced
                                    THEN new.synced ELSE tree[a].synced
                BY <3>1 DEF Larger
            <4> QED BY <1>2, <1>5, <2>2, <2>3, <2>5, <4>1
        <3>5. ASSUME NEW k \in ExtKey
              PROVE  LET v == tree'[a].ext[k]
                         L == M \cup {n}
                     IN  \/ v = NoValue /\ \A i \in L : log'[i].record.ext[k] = NoValue
                         \/ \E i \in L :
                              /\ log'[i].record.ext[k] = v /\ v # NoValue
                              /\ \A j \in L : j > i => log'[j].record.ext[k] = NoValue
            <4>1. tree'[a].ext[k] = IF new.ext[k] # NoValue THEN new.ext[k] ELSE tree[a].ext[k]
                BY <3>1 DEF UnionExt
            <4>2. \A i \in M : i \in Nat /\ i < n
                BY <1>1, <2>3 DEF n
            <4>3. CASE new.ext[k] # NoValue
                <5>1. \A j \in M \cup {n} : ~ (j > n)
                    BY <1>1, <4>2
                <5> QED BY <1>2, <4>1, <4>3, <5>1
            <4>4. CASE new.ext[k] = NoValue
                <5>1. LatestValue(M, k, tree[a].ext[k])
                    BY <2>2
                <5> QED BY <1>2, <2>3, <4>1, <4>4, <5>1 DEF LatestValue
            <4> QED BY <4>3, <4>4
        <3> QED BY <3>2, <3>3, <3>4, <3>5
    <2> QED BY <2>6, <2>7
<1> QED BY <1>6, <1>7


\* An insert is logged with the stream it came from.
LEMMA InsertProvenance ==
    ASSUME TypeOK, Provenance,
           NEW p \in Prefix, NEW r \in StreamRecords(stream), Insert(p, r)
    PROVE  Provenance'
<1> DEFINE n == Len(log) + 1
<1>1. /\ n \in Nat /\ DOMAIN log = 1..Len(log) /\ Len(log) \in Nat
      /\ DOMAIN log' = 1..n
      /\ \A i \in DOMAIN log : log'[i] = log[i]
      /\ log'[n] = [prefix |-> p, record |-> ToMMDB(r), stream |-> stream]
      /\ ToMMDB(r).provider = r.provider
    BY InsertFacts
<1>2. log'[n].stream = stream /\ log'[n].record.provider = r.provider
    BY <1>1
<1>3. r \in Feed(stream) /\ stream' = stream /\ stream \in Int
    BY DEF StreamRecords, Insert, TypeOK
<1>4. DOMAIN log' = DOMAIN log \cup {n} /\ \A i \in DOMAIN log : i \in Nat /\ i < n
    BY <1>1
<1>5. \A i \in DOMAIN log :
        /\ log'[i] = log[i]
        /\ log'[i].stream <= stream'
        /\ \E q \in Feed(log'[i].stream) : q.provider = log'[i].record.provider
        /\ \A j \in DOMAIN log : i <= j => log'[i].stream <= log'[j].stream
    BY <1>1, <1>3 DEF Provenance
<1> HIDE DEF n
<1>6. \A i \in DOMAIN log : ~ (n <= i)
    BY <1>1, <1>4
<1> QED BY <1>2, <1>3, <1>4, <1>5, <1>6 DEF Provenance

-----------------------------------------------------------------------------
(***************************************************************************)
(* The invariant holds initially and every action preserves it.  Only       *)
(* Insert touches the tree and the log.                                     *)
(***************************************************************************)
\* An empty tree satisfies the invariant.
LEMMA Initiation == Init => IInv
<1> SUFFICES ASSUME Init PROVE IInv
    OBVIOUS
<1>1. TypeOK
    BY BoundAssumption DEF Init, TypeOK
<1>2. DOMAIN log = {}
    BY DEF Init
<1>3. \A a \in Addr : Covering(a) = {}
    BY <1>2 DEF Covering
<1>4. \A a \in Addr : tree[a] = NoRecord
    BY DEF Init
<1> QED BY <1>1, <1>2, <1>3, <1>4
        DEF IInv, Owned, CategoriesFromAll, FieldsFromOwner, Provenance

\* Every step preserves the invariant.
LEMMA Consecution == IInv /\ [Next]_vars => IInv'
<1> SUFFICES ASSUME IInv, [Next]_vars PROVE IInv'
    OBVIOUS
<1> USE DEF IInv
<1>1. ASSUME NEW p \in Prefix, NEW r \in StreamRecords(stream), Insert(p, r)
      PROVE  IInv'
    BY <1>1, InsertType, InsertOwned, InsertCategories, InsertFields, InsertProvenance
<1>2. ASSUME UNCHANGED <<tree, log>>, TypeOK', stream <= stream', stream' \in Int
      PROVE  IInv'
    <2>1. Owned' /\ CategoriesFromAll' /\ FieldsFromOwner'
        BY <1>2 DEF Owned, CategoriesFromAll, FieldsFromOwner, Covering, First, Mates,
                    LatestValue
    <2>2. stream \in Int /\ \A i \in DOMAIN log : log[i].stream \in Int
        <3>1. log \in Seq(Logged) /\ stream \in 1..NStream
            BY DEF TypeOK
        <3>2. \A i \in DOMAIN log : log[i] \in Logged
            BY <3>1
        <3> QED BY <3>1, <3>2, BoundAssumption DEF Logged
    <2>3. \A i \in DOMAIN log : log[i].stream <= stream'
        BY <1>2, <2>2 DEF Provenance
    <2>4. Provenance'
        BY <1>2, <2>3 DEF Provenance
    <2> QED BY <1>2, <2>1, <2>4
<1>3. CASE Skip
    BY <1>2, <1>3 DEF Skip, TypeOK
<1>4. CASE NextStream
    BY <1>2, <1>4, BoundAssumption DEF NextStream, TypeOK
<1>5. CASE Write
    BY <1>2, <1>5 DEF Write, TypeOK
<1>6. CASE Abort
    BY <1>2, <1>6 DEF Abort, TypeOK
<1>7. CASE UNCHANGED vars
    BY <1>2, <1>7 DEF vars, TypeOK
<1> QED BY <1>1, <1>3, <1>4, <1>5, <1>6, <1>7 DEF Next

\* So it always holds.
LEMMA Inductive == Spec => []IInv
BY Initiation, Consecution, PTL DEF Spec

-----------------------------------------------------------------------------
(***************************************************************************)
(* Build's variables keep their types: in particular every record a merge   *)
(* writes is one the tree can hold.                                         *)
(***************************************************************************)
THEOREM TypeCorrect == Spec => []TypeOK
BY Inductive, PTL DEF IInv

(***************************************************************************)
(* The first entry that covers an address gives its record the provider and *)
(* the region, and an address without such an entry has no record           *)
(* (mergeRecords).                                                          *)
(***************************************************************************)
THEOREM FirstWriter == Spec => []FirstWriterOwns
<1>1. IInv => FirstWriterOwns
    <2> SUFFICES ASSUME IInv, NEW a \in Addr
                 PROVE  /\ tree[a] = NoRecord <=> Covering(a) = {}
                        /\ \A f \in Covering(a) : First(f, a) =>
                              /\ tree[a].provider = log[f].record.provider
                              /\ tree[a].region = log[f].record.region
        BY DEF FirstWriterOwns
    <2>1. tree[a] = NoRecord <=> Covering(a) = {}
        BY DEF IInv, Owned
    <2>2. ASSUME NEW f \in Covering(a), First(f, a)
          PROVE  /\ tree[a].provider = log[f].record.provider
                 /\ tree[a].region = log[f].record.region
        <3>1. PICK g : /\ First(g, a)
                       /\ tree[a].provider = log[g].record.provider
                       /\ tree[a].region = log[g].record.region
            BY <2>2 DEF IInv, Owned
        <3>2. f = g
            BY <2>2, <3>1, FirstUnique DEF IInv
        <3> QED BY <3>1, <3>2
    <2> QED BY <2>1, <2>2
<1> QED BY <1>1, Inductive, PTL

(***************************************************************************)
(* Categories accumulate over every entry that covered the address, whoever *)
(* owns it (mergeRecords).                                                  *)
(***************************************************************************)
THEOREM CategoriesAccumulate == Spec => []CategoriesFromAll
BY Inductive, PTL DEF IInv

(***************************************************************************)
(* Services, ext and timestamp come from the owner's entries alone, with    *)
(* the last non-empty value of each key and the freshest timestamp          *)
(* (mergeRecords, unionExt).                                                *)
(***************************************************************************)
THEOREM OwnerFields == Spec => []FieldsFromOwner
BY Inductive, PTL DEF IInv

(***************************************************************************)
(* An entry of a later stream never takes an address from an earlier one:   *)
(* reputation enriches cloud records (ConcatEntries, mergeRecords).         *)
(***************************************************************************)
THEOREM EarlierStreamWins == Spec => []EarlierStreamOwns
<1>1. IInv => EarlierStreamOwns
    <2> SUFFICES ASSUME IInv, NEW a \in Addr, NEW i \in Covering(a)
                 PROVE  \E r \in UNION {Feed(s) : s \in 1..log[i].stream} :
                            r.provider = tree[a].provider
        BY DEF EarlierStreamOwns
    <2>1. PICK f : First(f, a) /\ tree[a].provider = log[f].record.provider
        BY DEF IInv, Owned
    <2>2. f \in DOMAIN log /\ i \in DOMAIN log /\ f <= i
        BY <2>1 DEF First, Covering
    <2>3. log[f].stream <= log[i].stream
        BY <2>2 DEF IInv, Provenance
    <2>4. PICK r \in Feed(log[f].stream) : r.provider = log[f].record.provider
        BY <2>2 DEF IInv, Provenance
    <2>5. log[f].stream \in 1..log[i].stream
        <3>1. log \in Seq(Logged)
            BY DEF IInv, TypeOK
        <3>2. log[f] \in Logged /\ log[i] \in Logged
            BY <2>2, <3>1
        <3>3. log[f].stream \in 1..NStream /\ log[i].stream \in 1..NStream
            BY <3>2 DEF Logged
        <3> QED BY <2>3, <3>3, BoundAssumption
    <2> QED BY <2>1, <2>4, <2>5
<1> QED BY <1>1, Inductive, PTL


-----------------------------------------------------------------------------
(***************************************************************************)
(* Division by a power of two is dropping bits.                             *)
(***************************************************************************)
\* What division is.
LEMMA Division ==
    ASSUME NEW x \in Nat, NEW q \in Nat \ {0}
    PROVE  /\ x \div q \in Nat
           /\ x % q \in 0..(q - 1)
           /\ x = q * (x \div q) + (x % q)
OBVIOUS

\* Numbers that agree after dropping some bits agree after dropping more.
LEMMA DivNested ==
    ASSUME NEW x \in Nat, NEW q \in Nat \ {0}, NEW r \in Nat \ {0}
    PROVE  x \div (q * r) = (x \div q) \div r
OBVIOUS

\* Dropping bits from a number does not touch what was added above them.
LEMMA DivShift ==
    ASSUME NEW x \in Nat, NEW q \in Nat \ {0}, NEW c \in Nat
    PROVE  ((c * q) + x) \div q = c + (x \div q)
OBVIOUS

\* A number is below a multiple of q if its quotient is.
LEMMA DivBound ==
    ASSUME NEW x \in Nat, NEW q \in Nat \ {0}, NEW r \in Nat
    PROVE  x < q * r <=> x \div q < r
OBVIOUS

\* Widths and lengths are naturals, and IPv4 is a part of IPv6.
LEMMA Widths ==
    /\ V4Bits \in Nat /\ V6Bits \in Nat /\ Root \in Nat
    /\ V6Bits - Root = V4Bits /\ V4Bits <= V6Bits /\ Root <= V6Bits
    /\ 2^V4Bits \in Nat \ {0} /\ 2^V6Bits \in Nat \ {0}
    /\ 2^V4Bits <= 2^V6Bits
    /\ V4Addr \subseteq V6Addr /\ V6Addr \subseteq Nat
    /\ Addr \subseteq V6Addr
<1>1. /\ V4Bits \in Nat /\ V6Bits \in Nat /\ Root \in Nat /\ V6Bits - Root = V4Bits
      /\ V4Bits <= V6Bits /\ Root <= V6Bits /\ V4Bits + Root = V6Bits
    BY BitsAssumption DEF Root
<1>2. /\ 2^V4Bits \in Nat \ {0} /\ 2^V6Bits \in Nat \ {0} /\ 2^Root \in Nat \ {0}
      /\ 2^V6Bits = (2^V4Bits) * (2^Root)
    <2>1. V4Bits \in 0..V6Bits /\ V6Bits \in 0..V6Bits /\ Root \in 0..V6Bits
        BY <1>1
    <2>2. Root \in 0 .. V6Bits - V4Bits
        BY <1>1
    <2> QED BY <1>1, <2>1, <2>2, PowerAssumption
<1>3. 2^V4Bits <= 2^V6Bits
    <2> DEFINE x == 2^V4Bits  y == 2^Root  z == 2^V6Bits
    <2>1. x \in Nat \ {0} /\ y \in Nat \ {0} /\ z = x * y
        BY <1>2
    <2> HIDE DEF x, y, z
    <2>2. x <= z
        BY <2>1
    <2> QED BY <2>2 DEF x, z
<1>4. V4Addr \subseteq V6Addr /\ V6Addr \subseteq Nat
    BY <1>2, <1>3 DEF V4Addr, V6Addr
<1> QED BY <1>1, <1>2, <1>3, <1>4, AddrAssumption

\* Agreeing on n bits is agreeing on fewer.
LEMMA AgreeShorter ==
    ASSUME NEW x \in Nat, NEW y \in Nat, NEW n \in 0..V6Bits, NEW m \in 0..n,
           Agree(V6Bits, x, y, n)
    PROVE  Agree(V6Bits, x, y, m)
<1> DEFINE q == 2^(V6Bits - n)  r == 2^(n - m)
<1>1. q \in Nat \ {0} /\ r \in Nat \ {0} /\ 2^(V6Bits - m) = q * r
    <2>1. /\ V6Bits - n \in 0..V6Bits /\ n - m \in 0..V6Bits
          /\ n - m \in 0 .. V6Bits - (V6Bits - n)
          /\ (V6Bits - n) + (n - m) = V6Bits - m
        BY BitsAssumption
    <2> QED BY <2>1, PowerAssumption
<1>2. x \div q = y \div q
    BY DEF Agree
<1> HIDE DEF q, r
<1>3. x \div (q * r) = (x \div q) \div r /\ y \div (q * r) = (y \div q) \div r
    BY <1>1, DivNested
<1>4. x \div (q * r) = y \div (q * r)
    BY <1>2, <1>3
<1> QED BY <1>1, <1>4 DEF Agree

-----------------------------------------------------------------------------
(***************************************************************************)
(* What is inserted is what is claimed, case by case.                       *)
(***************************************************************************)
Kept(p) == Normalizable(p) /\ ~InsideAlias(Net(p))

\* An IPv4 network: ::/96 and its own bits.
LEMMA ClaimsOfIPv4 ==
    ASSUME NEW p \in NetPrefix, p.family = 4, NEW a \in Addr
    PROVE  Claims(p, a) <=> Kept(p) /\ a \in Slots(Net(p))
<1> USE DEF Is4In6
<1>1. p.addr \in V4Addr /\ p.bits \in 0..V4Bits
    BY DEF NetPrefix
<1>2. Normalizable(p) /\ Net(p) = [base |-> p.addr, bits |-> p.bits + Root]
    BY <1>1, Widths DEF Normalizable, Net, NormalizePrefix, PrefixToIPNet, Larger
<1>3. ~InsideAlias(Net(p))
    BY <1>1, <1>2, AliasAssumption DEF InsideAlias
<1> DEFINE q == 2^(V4Bits - p.bits)  r == 2^(p.bits)
<1>4. q \in Nat \ {0} /\ r \in Nat \ {0} /\ 2^V4Bits = q * r
    <2>1. /\ V4Bits - p.bits \in 0..V6Bits /\ p.bits \in 0..V6Bits
          /\ p.bits \in 0 .. V6Bits - (V4Bits - p.bits)
          /\ (V4Bits - p.bits) + p.bits = V4Bits
        BY <1>1, Widths
    <2> QED BY <2>1, PowerAssumption
<1>5. V6Bits - (p.bits + Root) = V4Bits - p.bits
    BY <1>1, Widths
<1>6. a \in Slots(Net(p)) <=> a \div q = p.addr \div q
    BY <1>2, <1>5 DEF Slots, Agree
<1>7. Claims(p, a) <=> a \in V4Addr /\ a \div q = p.addr \div q
    BY DEF Claims, Agree
<1>8. a \in Nat /\ p.addr \in Nat
    BY <1>1, Widths
<1>9. p.addr < q * r /\ (a \in V4Addr <=> a < q * r)
    BY <1>1, <1>4, <1>8, Widths DEF V4Addr
<1> HIDE DEF q, r
<1>10. a \div q = p.addr \div q => a < q * r
    BY <1>4, <1>8, <1>9, DivBound
<1> QED BY <1>2, <1>3, <1>6, <1>7, <1>9, <1>10 DEF Kept

\* A 4-in-6 network of /96 or longer: the IPv4 network it maps.
LEMMA ClaimsOfMapped ==
    ASSUME NEW p \in NetPrefix, Is4In6(p), p.bits >= Root, NEW a \in Addr
    PROVE  Claims(p, a) <=> Kept(p) /\ a \in Slots(Net(p))
<1> DEFINE e == p.addr % (2^V4Bits)  n == V6Bits - p.bits  c == V4Mapped.base
           q == 2^n  r == 2^(V4Bits - n)
<1>1. /\ p.family = 6 /\ p.addr \in V6Addr /\ p.addr \in Nat /\ p.bits \in Root..V6Bits
      /\ c \in Nat /\ a \in Nat
    <2>1. p.family = 6 /\ p.addr \in V6Addr /\ p.bits \in 0..V6Bits
        BY DEF Is4In6, NetPrefix
    <2>2. c \in V6Addr
        BY AliasAssumption, MappedAssumption
    <2>3. p.bits \in Root..V6Bits
        BY <2>1, Widths
    <2>4. p.addr \in Nat /\ c \in Nat /\ a \in Nat
        BY <2>1, <2>2, Widths
    <2> QED BY <2>1, <2>3, <2>4
<1>2. n \in 0..V4Bits /\ n \in 0..V6Bits /\ V4Bits - n \in 0..V6Bits
    BY <1>1, Widths
<1>3. q \in Nat \ {0} /\ r \in Nat \ {0} /\ 2^V4Bits = q * r
    <2>1. V4Bits - n \in 0 .. V6Bits - n /\ n + (V4Bits - n) = V4Bits
        BY <1>1, Widths
    <2> QED BY <1>2, <2>1, PowerAssumption
<1>4. e \in V4Addr /\ e \in Nat /\ e < q * r
    BY <1>1, <1>3, Widths DEF V4Addr
<1>5. /\ Normalizable(p) /\ Net(p) = [base |-> e, bits |-> p.bits]
    BY <1>1, Widths DEF Normalizable, Net, NormalizePrefix, Unmap, PrefixToIPNet, Larger
<1>6. ~InsideAlias(Net(p))
    BY <1>4, <1>5, AliasAssumption DEF InsideAlias
<1>7. p.addr = c + e /\ \E k \in Nat : c = k * (q * r)
    <2>1. p.addr \div (2^V4Bits) = c \div (2^V4Bits)
        BY Widths, MappedAssumption DEF Is4In6, InAlias, Agree
    <2>2. c % (2^V4Bits) = 0
        BY MappedAssumption
    <2> DEFINE w == 2^V4Bits
    <2>3. w \in Nat \ {0} /\ w = q * r
        BY <1>3
    <2>4. /\ c \div w \in Nat
          /\ c = w * (c \div w) + (c % w) /\ p.addr = w * (p.addr \div w) + (p.addr % w)
        BY <1>1, <2>3, Division
    <2> HIDE DEF w, q, r
    <2>5. p.addr = c + (p.addr % w) /\ c = (c \div w) * w
        <3>1. p.addr \div w = c \div w /\ c % w = 0
            BY <2>1, <2>2 DEF w
        <3> HIDE DEF c
        <3> QED BY <1>1, <2>3, <2>4, <3>1
    <2>6. \E k \in Nat : c = k * (q * r)
        BY <2>3, <2>4, <2>5
    <2> QED BY <2>5, <2>6 DEF w
<1>8. a \in Slots(Net(p)) <=> a \div q = e \div q
    BY <1>5 DEF Slots, Agree
<1>9. Claims(p, a) <=> a \in V4Addr /\ (c + a) \div q = p.addr \div q
    BY <1>1 DEF Claims, Agree, Mapped, Is4In6
<1>10. a \in V4Addr <=> a < q * r
    BY <1>1, <1>3, Widths DEF V4Addr
<1> HIDE DEF q, r, e, c, n
<1>11. (c + a) \div q = p.addr \div q <=> a \div q = e \div q
    <2>1. PICK k \in Nat : c = k * (q * r)
        BY <1>7
    <2>2. k * r \in Nat /\ c = (k * r) * q
        BY <1>3, <2>1
    <2>3. (c + a) \div q = (k * r) + (a \div q) /\ (c + e) \div q = (k * r) + (e \div q)
        BY <1>1, <1>3, <1>4, <2>2, DivShift
    <2>4. a \div q \in Nat /\ e \div q \in Nat
        BY <1>1, <1>3, <1>4, Division
    <2> QED BY <1>7, <2>2, <2>3, <2>4
<1>12. a \div q = e \div q => a < q * r
    BY <1>1, <1>3, <1>4, DivBound
<1> QED BY <1>5, <1>6, <1>8, <1>9, <1>10, <1>11, <1>12 DEF Kept

\* Any other IPv6 network: itself, and nothing if it is inside an alias.
LEMMA ClaimsOfIPv6 ==
    ASSUME NEW p \in NetPrefix, p.family = 6, ~Is4In6(p), NEW a \in Addr
    PROVE  Claims(p, a) <=> Kept(p) /\ a \in Slots(Net(p))
<1>1. p.addr \in V6Addr /\ p.addr \in Nat /\ p.bits \in 0..V6Bits /\ a \in Nat
    <2>1. p.addr \in V6Addr /\ p.bits \in 0..V6Bits
        BY DEF NetPrefix
    <2> QED BY <2>1, Widths
<1>2. Normalizable(p) /\ Net(p) = [base |-> p.addr, bits |-> p.bits]
    BY <1>1 DEF Normalizable, Net, NormalizePrefix, PrefixToIPNet, Larger
<1>3. Claims(p, a) <=> a \in Slots(Net(p))
    BY <1>2 DEF Claims, Slots
<1>4. a \in Slots(Net(p)) => ~InsideAlias(Net(p))
    <2> SUFFICES ASSUME Agree(V6Bits, a, p.addr, p.bits), NEW al \in Alias,
                        p.bits >= al.bits, InAlias(al, p.addr)
                 PROVE  FALSE
        BY <1>2 DEF Slots, InsideAlias
    <2>1. al.bits \in 0..p.bits
        BY <1>1, Widths, AliasAssumption
    <2>2. Agree(V6Bits, a, p.addr, al.bits)
        BY <1>1, <2>1, AgreeShorter
    <2>3. InAlias(al, a)
        BY <2>2 DEF InAlias, Agree
    <2> QED BY <2>3, AddrAssumption
<1> QED BY <1>2, <1>3, <1>4 DEF Kept

\* A network claims the slots it is inserted at, and none if it is skipped.
LEMMA ClaimsAreSlots ==
    ASSUME NEW p \in Raw, NEW a \in Addr
    PROVE  Claims(p, a) <=> Kept(p) /\ a \in Slots(Net(p))
<1>1. p \in NetPrefix /\ p.family \in {4, 6}
    BY RawAssumption DEF NetPrefix
<1>2. CASE Is4In6(p) /\ ~(p.bits >= Root)
    BY <1>2 DEF Claims, Kept, Normalizable, Is4In6
<1> QED BY <1>1, <1>2, ClaimsOfIPv4, ClaimsOfMapped, ClaimsOfIPv6 DEF Is4In6

-----------------------------------------------------------------------------
(***************************************************************************)
(* Build's loop implements the merge: a round of it is an insert of the     *)
(* slots of its network, or a skip.                                         *)
(***************************************************************************)
\* The slots of a network are a network of MergeTree.
LEMMA SlotsArePrefixes == \A net : Slots(net) \in Prefix
BY SlotsAssumption DEF Slots

\* A step of the loop is a step of the merge.
LEMMA StepImplemented == [TreeNext]_treeVars => [Next]_vars
<1> SUFFICES ASSUME [TreeNext]_treeVars PROVE [Next]_vars
    OBVIOUS
<1>1. CASE \E p \in Raw, r \in StreamRecords(stream) : Consume(p, r)
    BY <1>1, SlotsArePrefixes DEF Consume, Next
<1>2. CASE NextStream \/ Write \/ Abort
    BY <1>2 DEF Next
<1>3. CASE UNCHANGED treeVars
    BY <1>3 DEF treeVars, vars
<1> QED BY <1>1, <1>2, <1>3 DEF TreeNext

(***************************************************************************)
(* What holds of the merge holds of Build's loop over the networks as the   *)
(* feeds list them (build.go:74-97).                                        *)
(***************************************************************************)
THEOREM MergeImplemented == TreeSpec => Spec
BY StepImplemented, PTL DEF TreeSpec, TreeInit, Spec

(***************************************************************************)
(* The record of an address in terms of the networks inserted over it, for  *)
(* the networks as the feeds list them (mergeRecords, ConcatEntries).       *)
(***************************************************************************)
THEOREM RecordsOfLoop ==
    TreeSpec => /\ []FirstWriterOwns /\ []CategoriesFromAll
                /\ []FieldsFromOwner /\ []EarlierStreamOwns
BY MergeImplemented, FirstWriter, CategoriesAccumulate, OwnerFields, EarlierStreamWins, PTL

-----------------------------------------------------------------------------
(***************************************************************************)
(* An address has a record exactly if a network that was consumed claims    *)
(* it: no malformed 4-in-6 network becomes a route for all of IPv4          *)
(* (normalizePrefix), and none that is well-formed is lost.                 *)
(***************************************************************************)
THEOREM ClaimsAlwaysHonoured == TreeSpec => []ClaimsHonoured
<1> DEFINE Honoured == ClaimsHonoured /\ fed \subseteq Raw
<1>1. TreeInit => Honoured
    BY DEF TreeInit, Init, ClaimsHonoured
<1>2. TypeOK /\ Honoured /\ [TreeNext]_treeVars => Honoured'
    <2> SUFFICES ASSUME TypeOK, Honoured, [TreeNext]_treeVars PROVE Honoured'
        OBVIOUS
    <2>1. ASSUME NEW p \in Raw, NEW r \in StreamRecords(stream), Consume(p, r)
          PROVE  Honoured'
        <3>1. fed' = fed \cup {p} /\ fed' \subseteq Raw
            BY <2>1 DEF Consume
        <3>2. ASSUME NEW a \in Addr
              PROVE  tree'[a] # NoRecord
                        <=> tree[a] # NoRecord \/ (Kept(p) /\ a \in Slots(Net(p)))
            <4>1. CASE Kept(p)
                <5>1. Insert(Slots(Net(p)), r) /\ Slots(Net(p)) \in Prefix
                    BY <2>1, <4>1, SlotsArePrefixes DEF Consume, Kept
                <5>2. /\ a \notin Slots(Net(p)) => tree'[a] = tree[a]
                      /\ a \in Slots(Net(p)) => tree'[a] # NoRecord
                    BY <5>1, TreeStep
                <5> QED BY <4>1, <5>2
            <4>2. CASE ~Kept(p)
                BY <2>1, <4>2 DEF Consume, Kept, Skip
            <4> QED BY <4>1, <4>2
        <3>3. ASSUME NEW a \in Addr
              PROVE  tree'[a] # NoRecord <=> \E o \in fed' : Claims(o, a)
            BY <3>1, <3>2, <3>3, ClaimsAreSlots DEF ClaimsHonoured
        <3> QED BY <3>1, <3>3 DEF ClaimsHonoured, Claims
    <2>2. CASE UNCHANGED <<tree, fed>>
        BY <2>2 DEF ClaimsHonoured, Claims
    <2> QED BY <2>1, <2>2 DEF TreeNext, treeVars, NextStream, Write, Abort
<1>3. TreeSpec => []TypeOK
    BY MergeImplemented, TypeCorrect, PTL
<1> QED BY <1>1, <1>2, <1>3, PTL DEF TreeSpec
=============================================================================
