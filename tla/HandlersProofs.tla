---------------------------- MODULE HandlersProofs ----------------------------
(***************************************************************************)
(* Proofs about Handlers for any number of clients, lengths of batches and  *)
(* reloads.                                                                 *)
(***************************************************************************)
EXTENDS Handlers, FiniteSetTheorems, TLAPS

(***************************************************************************)
(* The parts of the inductive invariant.                                    *)
(***************************************************************************)
InFlight == {c \in Client : pc[c] # "idle"}

\* A batch has room for the answer of the lookup under way.
Room == \A c \in Client : pc[c] # "idle" => Len(answers[c]) < MaxBatch

\* The answers so far are from the database the lookup under way has loaded, or
\* from older ones.
Loaded ==
    \A c \in Client : pc[c] \in {"loaded", "hit"} =>
        /\ loaded[c] <= db
        /\ \A j \in DOMAIN answers[c] : answers[c][j] <= loaded[c]

\* A counter never falls behind what was scraped of it.
Scraped ==
    /\ sample[1] <= lookups /\ sample[2] <= hits /\ sample[3] <= errors
    /\ ScrapesMonotone

Inv == TypeOK /\ CountersAddUp /\ Room /\ Loaded /\ BatchNeverGoesBack /\ Scraped

-----------------------------------------------------------------------------
(***************************************************************************)
(* The number of lookups in flight.                                         *)
(***************************************************************************)
LEMMA Counted ==
    ASSUME TypeOK
    PROVE  IsFiniteSet(InFlight) /\ Cardinality(InFlight) \in Nat
<1>1. IsFiniteSet(InFlight)
  BY ClientAssumption, FS_Subset DEF InFlight
<1> QED
  BY <1>1, FS_CardinalityType

LEMMA OneMore ==
    ASSUME TypeOK, NEW c \in Client, NEW to, to # "idle", Goto(c, "idle", to)
    PROVE  Cardinality(InFlight') = Cardinality(InFlight) + 1
<1>1. InFlight' = InFlight \cup {c} /\ c \notin InFlight
  BY DEF InFlight, Goto, TypeOK
<1> QED
  BY <1>1, Counted, FS_AddElement

LEMMA OneLess ==
    ASSUME TypeOK, NEW c \in Client, NEW from, from # "idle", Goto(c, from, "idle")
    PROVE  /\ Cardinality(InFlight') = Cardinality(InFlight) - 1
           /\ Cardinality(InFlight) \in Nat \ {0}
<1>1. InFlight' = InFlight \ {c} /\ c \in InFlight
  BY DEF InFlight, Goto, TypeOK
<1>2. Cardinality(InFlight) # 0
  BY <1>1, Counted, FS_EmptySet
<1> QED
  BY <1>1, <1>2, Counted, FS_RemoveElement

LEMMA AsMany ==
    ASSUME TypeOK, NEW c \in Client, NEW from, NEW to, from # "idle", to # "idle",
           Goto(c, from, to)
    PROVE  InFlight' = InFlight
  BY DEF InFlight, Goto, TypeOK

-----------------------------------------------------------------------------
(***************************************************************************)
(* The initial states, and the steps of the clients.                        *)
(***************************************************************************)
LEMMA InitInv == Init => Inv
<1> SUFFICES ASSUME Init PROVE Inv
  OBVIOUS
<1>1. TypeOK
  BY BoundAssumption DEF Init, TypeOK, Version, Count
<1>2. InFlight = {}
  BY DEF Init, InFlight
<1>3. CountersAddUp
  <2>1. Cardinality(InFlight) = 0
    BY <1>2, FS_EmptySet
  <2>2. lookups = 0 /\ hits = 0 /\ errors = 0 /\ misses = 0 /\ abandoned = 0
    BY DEF Init
  <2> QED
    BY <2>1, <2>2 DEF CountersAddUp, InFlight
<1>4. Room /\ Loaded /\ BatchNeverGoesBack /\ Scraped
  BY DEF Init, Room, Loaded, BatchNeverGoesBack, Scraped, ScrapesMonotone
<1> QED
  BY <1>1, <1>3, <1>4 DEF Inv

(***************************************************************************)
(* A lookup begins: what a client's next answer follows is within bounds.   *)
(***************************************************************************)
LEMMA BeginInv ==
    ASSUME Inv, NEW c \in Client, Begin(c)
    PROVE  Inv'
<1> USE DEF Inv
<1>1. /\ Goto(c, "idle", "counted") /\ lookups < MaxLookup /\ lookups' = lookups + 1
      /\ UNCHANGED <<db, hits, errors, misses, abandoned, loaded>>
      /\ UNCHANGED <<scrapePc, sample, last, versionPc, described>>
  BY DEF Begin, scrape, version
<1>2. pc' = [pc EXCEPT ![c] = "counted"] /\ pc[c] = "idle"
  BY <1>1 DEF Goto
<1>3. /\ answers' \in [Client -> Seq(Version)]
      /\ Len(answers'[c]) < MaxBatch
      /\ answers'[c] = <<>> \/ answers'[c] = answers[c]
      /\ \A d \in Client : d # c => answers'[d] = answers[d]
  <2>1. answers' = [answers EXCEPT ![c] = IF Len(answers[c]) = MaxBatch THEN <<>> ELSE answers[c]]
    BY DEF Begin
  <2>2. answers[c] \in Seq(Version) /\ Len(answers[c]) <= MaxBatch /\ Len(<<>>) = 0
        /\ Len(answers[c]) \in Nat /\ <<>> \in Seq(Version)
    BY DEF TypeOK
  <2> QED
    BY <2>1, <2>2, BoundAssumption DEF TypeOK
<1>4. TypeOK'
  <2>1. lookups' \in Count
    BY <1>1, BoundAssumption DEF TypeOK, Count
  <2>2. \A d \in Client : Len(answers'[d]) <= MaxBatch
    <3> SUFFICES ASSUME NEW d \in Client PROVE Len(answers'[d]) <= MaxBatch
      OBVIOUS
    <3>1. CASE d = c
      <4>1. Len(answers'[c]) \in Nat /\ MaxBatch \in Nat
        BY <1>3, BoundAssumption
      <4> QED
        BY <1>3, <3>1, <4>1
    <3>2. CASE d # c
      BY <1>3, <3>2 DEF TypeOK
    <3> QED
      BY <3>1, <3>2
  <2> QED
    BY <1>1, <1>2, <1>3, <2>1, <2>2 DEF TypeOK
<1>5. CountersAddUp'
  <2>1. Cardinality(InFlight') = Cardinality(InFlight) + 1 /\ Cardinality(InFlight) \in Nat
    BY <1>1, OneMore, Counted
  <2>2. /\ lookups' = lookups + 1 /\ hits' = hits /\ errors' = errors
        /\ misses' = misses /\ abandoned' = abandoned
        /\ hits \in Int /\ errors \in Int /\ misses \in Int /\ abandoned \in Int
    BY <1>1, BoundAssumption DEF TypeOK, Count
  <2>3. lookups = hits + errors + misses + abandoned + Cardinality(InFlight)
    BY DEF CountersAddUp, InFlight
  <2>4. lookups' = hits' + errors' + misses' + abandoned' + Cardinality(InFlight')
    <3> HIDE DEF Inv
    <3> QED
      BY <2>1, <2>2, <2>3
  <2> QED
    BY <2>4 DEF CountersAddUp, InFlight
<1>6. Room' /\ Loaded'
  BY <1>1, <1>2, <1>3 DEF Room, Loaded, TypeOK
<1>7. BatchNeverGoesBack'
  BY <1>1, <1>3 DEF BatchNeverGoesBack
<1>8. Scraped'
  BY <1>1, BoundAssumption DEF Scraped, ScrapesMonotone, TypeOK, Count
<1> QED
  BY <1>4, <1>5, <1>6, <1>7, <1>8

(***************************************************************************)
(* A lookup goes on: only Load changes what it will answer from.            *)
(***************************************************************************)
LEMMA MoveInv ==
    ASSUME Inv, NEW c \in Client, Err(c) \/ Load(c) \/ Found(c)
    PROVE  Inv'
<1> USE DEF Inv
<1>1. PICK from, to :
        /\ Goto(c, from, to) /\ from # "idle" /\ to \in {"loaded", "hit", "error"}
        /\ to = "loaded" => loaded' = [loaded EXCEPT ![c] = db]
        /\ to # "loaded" => UNCHANGED loaded
        /\ to = "hit" => from = "loaded"
  BY DEF Err, Load, Found
<1>2. /\ UNCHANGED <<db, lookups, hits, errors, misses, abandoned, answers>>
      /\ UNCHANGED <<scrapePc, sample, last, versionPc, described>>
  BY DEF Err, Load, Found, counters, scrape, version
<1>3. pc' = [pc EXCEPT ![c] = to] /\ pc[c] = from
  BY <1>1 DEF Goto
<1>4. TypeOK'
  BY <1>1, <1>2, <1>3 DEF TypeOK
<1>5. CountersAddUp'
  <2>1. InFlight' = InFlight
    BY <1>1, AsMany
  <2> QED
    BY <1>2, <2>1 DEF CountersAddUp, InFlight
<1>6. Room'
  BY <1>1, <1>2, <1>3 DEF Room, TypeOK
<1>7. Loaded'
  <2> SUFFICES ASSUME NEW d \in Client, pc'[d] \in {"loaded", "hit"}
               PROVE  /\ loaded'[d] <= db
                      /\ \A j \in DOMAIN answers[d] : answers[d][j] <= loaded'[d]
    BY <1>2 DEF Loaded
  <2>1. CASE d = c /\ to = "loaded"
    <3>1. loaded'[d] = db /\ db <= db
      BY <1>1, <2>1 DEF TypeOK, Version
    <3> QED
      BY <2>1, <3>1 DEF BatchNeverGoesBack
  <2>2. CASE d # c \/ to # "loaded"
    <3>1. loaded'[d] = loaded[d] /\ pc[d] \in {"loaded", "hit"}
      BY <1>1, <1>3, <2>2 DEF TypeOK
    <3> QED
      BY <3>1 DEF Loaded
  <2> QED
    BY <2>1, <2>2
<1>8. BatchNeverGoesBack' /\ Scraped'
  BY <1>2 DEF BatchNeverGoesBack, Scraped, ScrapesMonotone
<1> QED
  BY <1>4, <1>5, <1>6, <1>7, <1>8

(***************************************************************************)
(* A lookup is over: counted, missed or abandoned.                          *)
(***************************************************************************)
LEMMA ReturnInv ==
    ASSUME Inv, NEW c \in Client, Miss(c) \/ Hit(c) \/ CountError(c) \/ Panic(c)
    PROVE  Inv'
<1> USE DEF Inv
<1>1. PICK from :
        /\ Goto(c, from, "idle") /\ from # "idle"
        /\ \/ from \in {"loaded", "hit"} /\ Answer(c)
           \/ answers' = [answers EXCEPT ![c] = <<>>]
           \/ UNCHANGED answers
  BY DEF Miss, Hit, CountError, Panic
<1>2. /\ UNCHANGED <<db, lookups, loaded>>
      /\ UNCHANGED <<scrapePc, sample, last, versionPc, described>>
  BY DEF Miss, Hit, CountError, Panic, scrape, version
<1>3. \/ hits' = hits + 1 /\ UNCHANGED <<errors, misses, abandoned>>
      \/ errors' = errors + 1 /\ UNCHANGED <<hits, misses, abandoned>>
      \/ misses' = misses + 1 /\ UNCHANGED <<hits, errors, abandoned>>
      \/ abandoned' = abandoned + 1 /\ UNCHANGED <<hits, errors, misses>>
  BY DEF Miss, Hit, CountError, Panic
<1>4. pc' = [pc EXCEPT ![c] = "idle"] /\ pc[c] = from
  BY <1>1 DEF Goto
<1>5. /\ lookups \in Nat /\ hits \in Nat /\ errors \in Nat /\ misses \in Nat
      /\ abandoned \in Nat /\ lookups <= MaxLookup /\ MaxLookup \in Nat
  BY BoundAssumption DEF TypeOK, Count
<1>6. CountersAddUp' /\ hits' \in Count /\ errors' \in Count /\ misses' \in Count
      /\ abandoned' \in Count
  <2>1. /\ Cardinality(InFlight') = Cardinality(InFlight) - 1
        /\ Cardinality(InFlight) \in Nat \ {0}
    BY <1>1, OneLess
  <2>2. lookups = hits + errors + misses + abandoned + Cardinality(InFlight)
    BY DEF CountersAddUp, InFlight
  <2>3. lookups' = hits' + errors' + misses' + abandoned' + Cardinality(InFlight')
    BY <1>2, <1>3, <1>5, <2>1, <2>2
  <2>4. /\ hits' \in 0..MaxLookup /\ errors' \in 0..MaxLookup /\ misses' \in 0..MaxLookup
        /\ abandoned' \in 0..MaxLookup
    BY <1>3, <1>5, <2>1, <2>2
  <2> QED
    BY <2>3, <2>4 DEF CountersAddUp, InFlight, Count
<1>7. /\ answers' \in [Client -> Seq(Version)]
      /\ Len(answers'[c]) \in Nat /\ Len(answers'[c]) <= MaxBatch
      /\ \A d \in Client : d # c => answers'[d] = answers[d]
      /\ \A j \in DOMAIN answers'[c] :
            /\ answers'[c][j] <= db
            /\ j > 1 => answers'[c][j - 1] <= answers'[c][j]
  <2>1. /\ answers[c] \in Seq(Version) /\ Len(answers[c]) \in Nat /\ loaded[c] \in Version
        /\ answers \in [Client -> Seq(Version)] /\ db \in Nat
    BY DEF TypeOK, Version
  <2>2. Len(answers[c]) < MaxBatch /\ MaxBatch \in Nat
    BY <1>1, <1>4, BoundAssumption DEF Room
  <2>3. CASE from \in {"loaded", "hit"} /\ Answer(c)
    <3>1. /\ answers' = [answers EXCEPT ![c] = Append(answers[c], loaded[c])]
          /\ loaded[c] <= db
          /\ \A j \in DOMAIN answers[c] : answers[c][j] <= loaded[c]
      BY <1>4, <2>3 DEF Answer, Loaded
    <3>2. /\ answers'[c] = Append(answers[c], loaded[c])
          /\ Append(answers[c], loaded[c]) \in Seq(Version)
          /\ Len(Append(answers[c], loaded[c])) = Len(answers[c]) + 1
          /\ DOMAIN Append(answers[c], loaded[c]) = 1..(Len(answers[c]) + 1)
          /\ \A j \in 1..Len(answers[c]) : Append(answers[c], loaded[c])[j] = answers[c][j]
          /\ Append(answers[c], loaded[c])[Len(answers[c]) + 1] = loaded[c]
          /\ DOMAIN answers[c] = 1..Len(answers[c])
      BY <2>1, <3>1
    <3>3. ASSUME NEW j \in DOMAIN answers'[c]
          PROVE  /\ answers'[c][j] <= db
                 /\ j > 1 => answers'[c][j - 1] <= answers'[c][j]
      <4>1. CASE j \in 1..Len(answers[c])
        <5>1. /\ answers[c][j] <= db
              /\ j > 1 => answers[c][j - 1] <= answers[c][j] /\ j - 1 \in 1..Len(answers[c])
          BY <2>1, <3>2, <4>1 DEF BatchNeverGoesBack
        <5> QED
          BY <3>2, <4>1, <5>1
      <4>2. CASE j = Len(answers[c]) + 1
        <5>1. answers'[c][j] = loaded[c]
          BY <3>2, <4>2
        <5>2. j > 1 => j - 1 \in 1..Len(answers[c])
          BY <2>1, <4>2
        <5> QED
          BY <3>1, <3>2, <5>1, <5>2
      <4> QED
        BY <2>1, <3>2, <4>1, <4>2
    <3> QED
      BY <2>1, <2>2, <3>1, <3>2, <3>3
  <2>4. CASE answers' = [answers EXCEPT ![c] = <<>>]
    <3>1. answers'[c] = <<>> /\ <<>> \in Seq(Version) /\ Len(<<>>) = 0 /\ DOMAIN <<>> = {}
      BY <2>1, <2>4
    <3> QED
      BY <2>1, <2>2, <2>4, <3>1
  <2>5. CASE UNCHANGED answers
    BY <2>1, <2>2, <2>5 DEF BatchNeverGoesBack
  <2> QED
    BY <1>1, <2>3, <2>4, <2>5
<1>8. TypeOK'
  <2>1. \A d \in Client : Len(answers'[d]) <= MaxBatch
    BY <1>7 DEF TypeOK
  <2> QED
    BY <1>2, <1>4, <1>6, <1>7, <2>1 DEF TypeOK
<1>9. Room' /\ Loaded'
  BY <1>2, <1>4, <1>7 DEF Room, Loaded, TypeOK
<1>10. BatchNeverGoesBack'
  <2> SUFFICES ASSUME NEW d \in Client, NEW j \in DOMAIN answers'[d]
               PROVE  /\ answers'[d][j] <= db
                      /\ j > 1 => answers'[d][j - 1] <= answers'[d][j]
    BY <1>2 DEF BatchNeverGoesBack
  <2>1. CASE d = c
    BY <1>7, <2>1
  <2>2. CASE d # c
    BY <1>7, <2>2 DEF BatchNeverGoesBack
  <2> QED
    BY <2>1, <2>2
<1>11. Scraped'
  <2>1. sample[2] \in Nat /\ sample[3] \in Nat
    BY DEF TypeOK, Count
  <2>2. sample[2] <= hits' /\ sample[3] <= errors'
    BY <1>3, <1>5, <2>1 DEF Scraped
  <2> QED
    BY <1>2, <2>2 DEF Scraped, ScrapesMonotone
<1> QED
  BY <1>6, <1>8, <1>9, <1>10, <1>11

\* The client asks for no more IPs.
LEMMA EndBatchInv ==
    ASSUME Inv, NEW c \in Client, EndBatch(c)
    PROVE  Inv'
<1> USE DEF Inv
<1>1. /\ pc[c] = "idle" /\ answers' = [answers EXCEPT ![c] = <<>>]
      /\ UNCHANGED <<db, lookups, hits, errors, misses, abandoned, pc, loaded>>
      /\ UNCHANGED <<scrapePc, sample, last, versionPc, described>>
  BY DEF EndBatch, counters, scrape, version
<1>2. /\ answers' \in [Client -> Seq(Version)] /\ answers'[c] = <<>>
      /\ Len(<<>>) = 0 /\ DOMAIN <<>> = {}
      /\ \A d \in Client : d # c => answers'[d] = answers[d]
  BY <1>1 DEF TypeOK
<1>3. TypeOK'
  <2>1. \A d \in Client : Len(answers'[d]) <= MaxBatch
    BY <1>2, BoundAssumption DEF TypeOK
  <2> QED
    BY <1>1, <1>2, <2>1 DEF TypeOK
<1>4. CountersAddUp' /\ Scraped'
  BY <1>1 DEF CountersAddUp, Scraped, ScrapesMonotone
<1>5. Room' /\ Loaded'
  BY <1>1, <1>2 DEF Room, Loaded
<1>6. BatchNeverGoesBack'
  <2> SUFFICES ASSUME NEW d \in Client, NEW j \in DOMAIN answers'[d]
               PROVE  /\ answers'[d][j] <= db
                      /\ j > 1 => answers'[d][j - 1] <= answers'[d][j]
    BY <1>1 DEF BatchNeverGoesBack
  <2>1. answers'[d] = answers[d]
    BY <1>2
  <2> QED
    BY <2>1 DEF BatchNeverGoesBack
<1> QED
  BY <1>3, <1>4, <1>5, <1>6

-----------------------------------------------------------------------------
(***************************************************************************)
(* The steps of Reload, /metrics and /version.                              *)
(***************************************************************************)
LEMMA ReloadInv ==
    ASSUME Inv, Reload
    PROVE  Inv'
<1> USE DEF Inv
<1>1. /\ db' = db + 1 /\ db < MaxVersion /\ db \in Nat /\ MaxVersion \in Nat
      /\ UNCHANGED <<lookups, hits, errors, misses, abandoned, pc, loaded, answers>>
      /\ UNCHANGED <<scrapePc, sample, last, versionPc, described>>
  BY BoundAssumption DEF Reload, counters, client, scrape, version, TypeOK, Version
<1>2. TypeOK'
  BY <1>1 DEF TypeOK, Version
<1>3. CountersAddUp' /\ Room' /\ Scraped'
  BY <1>1 DEF CountersAddUp, Room, Scraped, ScrapesMonotone
<1>4. Loaded'
  <2>1. \A c \in Client : loaded[c] \in Nat
    BY DEF TypeOK, Version
  <2> QED
    BY <1>1, <2>1 DEF Loaded
<1>5. BatchNeverGoesBack'
  <2> SUFFICES ASSUME NEW c \in Client, NEW j \in DOMAIN answers[c]
               PROVE  /\ answers[c][j] <= db + 1
                      /\ j > 1 => answers[c][j - 1] <= answers[c][j]
    BY <1>1 DEF BatchNeverGoesBack
  <2>1. answers[c][j] \in Nat
    <3>1. answers[c] \in Seq(Version)
      BY DEF TypeOK
    <3>2. answers[c][j] \in Version
      BY <3>1
    <3> QED
      BY <3>2 DEF Version
  <2> QED
    BY <1>1, <2>1 DEF BatchNeverGoesBack
<1> QED
  BY <1>2, <1>3, <1>4, <1>5

LEMMA ScrapeInv ==
    ASSUME Inv, ScrapeLookups \/ ScrapeHits \/ ScrapeErrors
    PROVE  Inv'
<1> USE DEF Inv
<1>1. /\ UNCHANGED <<db, lookups, hits, errors, misses, abandoned, pc, loaded, answers>>
      /\ UNCHANGED <<versionPc, described>>
      /\ scrapePc' \in {"idle", "lookups", "hits"}
  BY DEF ScrapeLookups, ScrapeHits, ScrapeErrors, counters, client, version
<1>2. /\ lookups \in Nat /\ hits \in Nat /\ errors \in Nat
      /\ sample \in Count \X Count \X Count /\ last \in Count \X Count \X Count
      /\ lookups \in Count /\ hits \in Count /\ errors \in Count
  BY DEF TypeOK, Count
<1>3. \A k \in 1..3 : sample[k] \in Nat /\ last[k] \in Nat
  BY <1>2 DEF Count
<1>4. /\ sample' \in Count \X Count \X Count /\ last' \in Count \X Count \X Count
      /\ Scraped'
  <2>1. CASE ScrapeLookups
    BY <1>1, <1>2, <1>3, <2>1 DEF ScrapeLookups, Scraped, ScrapesMonotone
  <2>2. CASE ScrapeHits
    BY <1>1, <1>2, <1>3, <2>2 DEF ScrapeHits, Scraped, ScrapesMonotone
  <2>3. CASE ScrapeErrors
    BY <1>1, <1>2, <1>3, <2>3 DEF ScrapeErrors, Scraped, ScrapesMonotone
  <2> QED
    BY <2>1, <2>2, <2>3
<1>5. TypeOK'
  BY <1>1, <1>4 DEF TypeOK
<1>6. CountersAddUp' /\ Room' /\ Loaded' /\ BatchNeverGoesBack'
  BY <1>1 DEF CountersAddUp, Room, Loaded, BatchNeverGoesBack
<1> QED
  BY <1>4, <1>5, <1>6

LEMMA VersionInv ==
    ASSUME Inv,
           \/ TestDB
           \/ \E from, to \in {"tested", "metadata", "epoch", "idle"} : Describe(from, to)
    PROVE  Inv'
<1> USE DEF Inv
<1>1. /\ UNCHANGED <<db, lookups, hits, errors, misses, abandoned, pc, loaded, answers>>
      /\ UNCHANGED <<scrapePc, sample, last>>
      /\ versionPc' \in {"idle", "tested", "metadata", "epoch"}
      /\ described' \in Seq(Version)
  <2>1. described \in Seq(Version) /\ db \in Version
    BY DEF TypeOK
  <2>2. CASE TestDB
    BY <2>1, <2>2 DEF TestDB, counters, client, scrape
  <2>3. ASSUME NEW from, NEW to \in {"tested", "metadata", "epoch", "idle"}, Describe(from, to)
        PROVE  /\ UNCHANGED <<counters, client, scrape, db>>
               /\ versionPc' \in {"idle", "tested", "metadata", "epoch"}
               /\ described' \in Seq(Version)
    BY <2>1, <2>3 DEF Describe
  <2> QED
    BY <2>2, <2>3 DEF counters, client, scrape
<1>2. TypeOK'
  BY <1>1 DEF TypeOK
<1>3. CountersAddUp' /\ Room' /\ Loaded' /\ BatchNeverGoesBack' /\ Scraped'
  BY <1>1 DEF CountersAddUp, Room, Loaded, BatchNeverGoesBack, Scraped, ScrapesMonotone
<1> QED
  BY <1>2, <1>3

(***************************************************************************)
(* The inductive invariant holds of every state.                            *)
(***************************************************************************)
THEOREM Invariance == Spec => []Inv
<1>1. Init => Inv
  BY InitInv
<1>2. Inv /\ [Next]_vars => Inv'
  <2> SUFFICES ASSUME Inv, [Next]_vars PROVE Inv'
    OBVIOUS
  <2>1. CASE Reload
    BY <2>1, ReloadInv
  <2>2. ASSUME NEW c \in Client,
               \/ Begin(c) \/ EndBatch(c) \/ Err(c) \/ Load(c) \/ Found(c)
               \/ Miss(c) \/ Hit(c) \/ CountError(c) \/ Panic(c)
        PROVE  Inv'
    BY <2>2, BeginInv, EndBatchInv, MoveInv, ReturnInv
  <2>3. CASE ScrapeLookups \/ ScrapeHits \/ ScrapeErrors
    BY <2>3, ScrapeInv
  <2>4. CASE \/ TestDB \/ Describe("tested", "metadata")
             \/ Describe("metadata", "epoch") \/ Describe("epoch", "idle")
    BY <2>4, VersionInv
  <2>5. CASE UNCHANGED vars
    BY <2>5 DEF vars, Inv, TypeOK, CountersAddUp, Room, Loaded, BatchNeverGoesBack,
                Scraped, ScrapesMonotone
  <2> QED
    BY <2>1, <2>2, <2>3, <2>4, <2>5 DEF Next
<1> QED
  BY <1>1, <1>2, PTL DEF Spec

(***************************************************************************)
(* The state keeps its types; no batch holds more answers than it has IPs.  *)
(***************************************************************************)
THEOREM TypeCorrect == Spec => []TypeOK
<1>1. Inv => TypeOK
  BY DEF Inv
<1> QED
  BY <1>1, Invariance, PTL

(***************************************************************************)
(* Lookup and LookupProvider lose no lookup to the counters and count none  *)
(* twice, with any number of clients, panics included.                      *)
(***************************************************************************)
THEOREM NoLookupUncounted == Spec => []CountersAddUp
<1>1. Inv => CountersAddUp
  BY DEF Inv
<1> QED
  BY <1>1, Invariance, PTL

(***************************************************************************)
(* No counter /metrics reports ever goes back, over any number of reloads.  *)
(***************************************************************************)
THEOREM ScrapesGrow == Spec => []ScrapesMonotone
<1>1. Inv => ScrapesMonotone
  BY DEF Inv, Scraped
<1> QED
  BY <1>1, Invariance, PTL

(***************************************************************************)
(* The answers of a batch are from databases each at least as new as the    *)
(* one before, however many reloads the batch overlaps.                     *)
(***************************************************************************)
THEOREM BatchInOrder == Spec => []BatchNeverGoesBack
<1>1. Inv => BatchNeverGoesBack
  BY DEF Inv
<1> QED
  BY <1>1, Invariance, PTL
=============================================================================
