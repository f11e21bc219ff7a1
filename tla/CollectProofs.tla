---------------------------- MODULE CollectProofs ----------------------------
(***************************************************************************)
(* Proofs about Collect for any registries, command lines, pins, numbers of *)
(* tries and lengths of bodies.                                             *)
(***************************************************************************)
EXTENDS Collect, WellFoundedInduction, TLAPS

(***************************************************************************)
(* The parts of the inductive invariant.                                    *)
(***************************************************************************)
Busy == {"request", "status", "backoff", "hash", "parse", "deliver"}

\* The feed being read is one of the plan, it has a body once there was an
\* answer, and no feed was given up or handed on before its turn.
Position ==
    /\ phase = "start" => plan = <<>> /\ out = <<>>
    /\ phase \in Busy => feed \in Feeds
    /\ phase \in {"hash", "parse", "deliver"} => body[feed] \in Body
    /\ phase = "hash" => Digested
    /\ phase = "deliver" => plan[feed].isolated
    /\ \A x \in failures : x.feed < feed
    /\ \A i \in DOMAIN out : out[i][1] \in 1..feed
    /\ \A f \in Feeds : ForTable(f) => plan[f] = TableFeed

\* What the current feed has handed on is the end of out: what was parsed, or
\* what is no longer in the buffer.
Handed ==
    CASE phase = "parse" /\ ~Buffers(feed) -> parsed
      [] phase = "deliver" -> body[feed].len - Len(buf)
      [] OTHER -> 0

Current ==
    /\ phase \in Busy =>
          /\ Handed \in 0..Len(out)
          /\ Block(feed, Len(out) - Handed, Handed)
    /\ phase \in {"start", "request", "status", "backoff", "hash"} => parsed = 0 /\ buf = <<>>
    /\ phase = "parse" =>
          /\ parsed <= body[feed].len
          /\ Buffers(feed) => Len(buf) = parsed
          /\ Buffers(feed) => \A i \in 1..parsed : buf[i] = <<feed, i>>
    /\ phase = "deliver" =>
          /\ Loads(feed) /\ EndsCleanly(feed)
          /\ \A i \in 1..Len(buf) : buf[i] = <<feed, Handed + i>>
    /\ \A f \in Feeds : f = feed /\ Buffers(f) /\ phase # "deliver" => Nothing(f)

\* The feeds read before.
SettledAt(f) ==
    IF ForTable(f) THEN Nothing(f) /\ Loads(f) /\ body[f].len > 0
    ELSE IF Failed(f) THEN plan[f].isolated /\ Nothing(f)
    ELSE Complete(f)

Settled == \A f \in Feeds : Past(f) => SettledAt(f)

\* A body is parsed only if it matches its pin.
Compared ==
    /\ phase \in {"parse", "deliver"} => Matches(feed)
    /\ PinnedEntriesGenuine

Inv == TypeOK /\ Position /\ Current /\ Settled /\ Compared /\ NoBodyLeak

-----------------------------------------------------------------------------
(***************************************************************************)
(* What a step leaves alone stays as it was.                                *)
(***************************************************************************)
LEMMA SameParse ==
    ASSUME NEW f \in Feeds, plan' = plan, body'[f] = body[f]
    PROVE  /\ Loads(f)' = Loads(f)
           /\ EndsCleanly(f)' = EndsCleanly(f)
  BY DEF Loads, EndsCleanly, ParseOf, ParseDocument, ParseASN, ParseTable, ParseLines,
         ParseRezmoss, ParseRezmossAll

LEMMA SameFlags ==
    ASSUME UNCHANGED args
    PROVE  /\ Feeds' = Feeds
           /\ \A f : ForTable(f)' = ForTable(f) /\ Buffers(f)' = Buffers(f)
           /\ \A f : HasPin(f)' = HasPin(f)
           /\ Digested' = Digested /\ TableFeed' = TableFeed
  BY DEF args, Feeds, ForTable, Buffers, HasPin, Digested, TableFeed

LEMMA BodyLength ==
    ASSUME TypeOK, NEW f \in Feeds
    PROVE  body[f].len \in 0..MaxLen /\ body[f].len \in Nat
<1>1. body[f] \in Body \cup {NoBody}
  BY DEF TypeOK
<1>2. body[f] \in Body => body[f].len \in 0..MaxLen
  BY DEF Body
<1>3. body[f] = NoBody => body[f].len = 0
  BY DEF NoBody
<1> QED
  BY <1>1, <1>2, <1>3, AttemptAssumption

(***************************************************************************)
(* An entry appended to out: the blocks of the other feeds stay, the block  *)
(* of its own feed at the end grows.                                        *)
(***************************************************************************)
LEMMA Appended ==
    ASSUME out \in Seq(Nat \X Nat), NEW e \in Nat \X Nat, out' = Append(out, e)
    PROVE  /\ out' \in Seq(Nat \X Nat)
           /\ Len(out') = Len(out) + 1
           /\ \A i \in DOMAIN out : i \in DOMAIN out' /\ out'[i] = out[i]
           /\ out'[Len(out) + 1] = e
           /\ \A i \in DOMAIN out' : i \in DOMAIN out \/ i = Len(out) + 1
           /\ DOMAIN out = 1..Len(out) /\ Len(out) \in Nat
  OBVIOUS

LEMMA BlockStays ==
    ASSUME out \in Seq(Nat \X Nat), NEW e \in Nat \X Nat, out' = Append(out, e),
           NEW f \in Nat, e[1] # f,
           NEW k \in Nat, NEW n \in Nat, Block(f, k, n)
    PROVE  Block(f, k, n)'
<1> USE DEF Block
<1>1. /\ Len(out') = Len(out) + 1
      /\ \A i \in DOMAIN out : i \in DOMAIN out' /\ out'[i] = out[i]
      /\ out'[Len(out) + 1] = e
      /\ \A i \in DOMAIN out' : i \in DOMAIN out \/ i = Len(out) + 1
      /\ DOMAIN out = 1..Len(out) /\ Len(out) \in Nat
  BY Appended
<1>2. k + n <= Len(out')
  BY <1>1
<1>3. \A i \in DOMAIN out' : out'[i][1] = f <=> i \in (k + 1)..(k + n)
  <2> SUFFICES ASSUME NEW i \in DOMAIN out'
               PROVE  out'[i][1] = f <=> i \in (k + 1)..(k + n)
    OBVIOUS
  <2>1. CASE i \in DOMAIN out
    BY <1>1, <2>1
  <2>2. CASE i = Len(out) + 1
    BY <1>1, <2>2
  <2> QED
    BY <2>1, <2>2, <1>1
<1>4. \A i \in 1..n : out'[k + i] = <<f, i>>
  <2> SUFFICES ASSUME NEW i \in 1..n
               PROVE  out'[k + i] = <<f, i>>
    OBVIOUS
  <2>1. k + i \in DOMAIN out
    BY <1>1
  <2> QED
    BY <1>1, <2>1
<1> QED
  BY <1>2, <1>3, <1>4

LEMMA NothingStays ==
    ASSUME out \in Seq(Nat \X Nat), NEW e \in Nat \X Nat, out' = Append(out, e),
           NEW f \in Nat, e[1] # f, Nothing(f)
    PROVE  Nothing(f)'
  BY Appended DEF Nothing

LEMMA BlockGrows ==
    ASSUME out \in Seq(Nat \X Nat), NEW f \in Nat, NEW n \in 0..Len(out),
           out' = Append(out, <<f, n + 1>>), Block(f, Len(out) - n, n)
    PROVE  /\ n + 1 \in 0..Len(out')
           /\ Block(f, Len(out) - (n + 1), n + 1)'
<1> DEFINE e == <<f, n + 1>>
           k == Len(out) - n
<1>0. e \in Nat \X Nat /\ k \in Nat /\ n \in Nat
  OBVIOUS
<1>1. /\ Len(out') = Len(out) + 1
      /\ \A i \in DOMAIN out : i \in DOMAIN out' /\ out'[i] = out[i]
      /\ out'[Len(out) + 1] = e
      /\ \A i \in DOMAIN out' : i \in DOMAIN out \/ i = Len(out) + 1
      /\ DOMAIN out = 1..Len(out) /\ Len(out) \in Nat
  BY <1>0, Appended
<1>2. n + 1 \in 0..Len(out') /\ Len(out') - (n + 1) = k
  BY <1>1
<1>3. k + (n + 1) <= Len(out')
  BY <1>1
<1>4. \A i \in DOMAIN out' : out'[i][1] = f <=> i \in (k + 1)..(k + n + 1)
  <2> SUFFICES ASSUME NEW i \in DOMAIN out'
               PROVE  out'[i][1] = f <=> i \in (k + 1)..(k + n + 1)
    OBVIOUS
  <2>1. CASE i \in DOMAIN out
    <3>1. out[i][1] = f <=> i \in (k + 1)..(k + n)
      BY <2>1 DEF Block
    <3> QED
      BY <1>1, <2>1, <3>1
  <2>2. CASE i = Len(out) + 1
    BY <1>1, <2>2
  <2> QED
    BY <2>1, <2>2, <1>1
<1>5. \A i \in 1..(n + 1) : out'[k + i] = <<f, i>>
  <2> SUFFICES ASSUME NEW i \in 1..(n + 1)
               PROVE  out'[k + i] = <<f, i>>
    OBVIOUS
  <2>1. CASE i \in 1..n
    <3>1. out[k + i] = <<f, i>>
      BY <2>1 DEF Block
    <3>2. k + i \in DOMAIN out
      BY <1>0, <1>1, <2>1
    <3>3. out'[k + i] = out[k + i]
      BY <1>1, <3>2
    <3> QED
      BY <3>1, <3>3
  <2>2. CASE i = n + 1
    <3>1. k + i = Len(out) + 1
      BY <1>0, <2>2
    <3> QED
      BY <1>1, <2>2, <3>1
  <2>3. i \in 1..n \/ i = n + 1
    BY <1>0
  <2> QED
    BY <2>1, <2>2, <2>3
<1>6. k + n + 1 = k + (n + 1)
  BY <1>0
<1>7. \A i \in DOMAIN out' : out'[i][1] = f <=> i \in (k + 1)..(k + (n + 1))
  BY <1>4, <1>6
<1> HIDE DEF k
<1> QED
  BY <1>2, <1>3, <1>5, <1>7 DEF Block

\* An empty block is no entry at all.
LEMMA EmptyBlock ==
    ASSUME out \in Seq(Nat \X Nat), NEW f \in Nat
    PROVE  Block(f, Len(out) - 0, 0) <=> Nothing(f)
<1>1. Len(out) \in Nat /\ \A i \in DOMAIN out : i \notin (Len(out) - 0 + 1)..(Len(out) - 0 + 0)
  OBVIOUS
<1> QED
  BY <1>1 DEF Block, Nothing
-----------------------------------------------------------------------------
(***************************************************************************)
(* The plan of an accepted command line.                                    *)
(***************************************************************************)
LEMMA ResolveType ==
    ASSUME flags \in Flags, NEW s \in Seq(Plugins), NEW source
    PROVE  Resolve(s, source) \in Seq(Feed) /\ Len(Resolve(s, source)) = Len(s)
<1>1. /\ DOMAIN s = 1..Len(s) /\ Len(s) \in Nat
      /\ \A i \in DOMAIN s : s[i] \in Plugins
  OBVIOUS
<1>2. flags.keepGoing \in BOOLEAN
  BY DEF Flags
<1>3. \A i \in DOMAIN s : Resolve(s, source)[i] \in Feed
  <2> SUFFICES ASSUME NEW i \in DOMAIN s
               PROVE  Resolve(s, source)[i] \in Feed
    OBVIOUS
  <2>1. Native[s[i]] \in Parser
    BY <1>1, ParserAssumption
  <2>2. (IF RefOf(s[i], source) = "rezmoss" THEN "rezmoss" ELSE Native[s[i]]) \in Parser
    BY <2>1 DEF Parser
  <2>3. RefOf(s[i], source) \in Ref
    BY DEF RefOf, Ref
  <2> QED
    BY <1>1, <1>2, <2>2, <2>3 DEF Resolve, Feed
<1>4. DOMAIN Resolve(s, source) = 1..Len(s)
  BY <1>1 DEF Resolve
<1>5. Resolve(s, source) = [i \in 1..Len(s) |-> Resolve(s, source)[i]]
  BY <1>4 DEF Resolve
<1> QED
  BY <1>1, <1>3, <1>4, <1>5

LEMMA SelectedType ==
    ASSUME flags \in Flags, Accepted, ~IsUnified
    PROVE  Selected \in Seq(Plugins) /\ Selected # <<>>
<1>1. Registry \in Seq(Plugins) /\ Registry # <<>>
  <2>1. IPtoASN \in Plugins
    BY DEF Plugins
  <2>2. flags.mode \in {"cloud", "reputation", "asn"}
    BY DEF Flags
  <2> QED
    BY <2>1, <2>2, RegistryAssumption DEF Registry
<1>2. CASE flags.providers = <<>>
  BY <1>1, <1>2 DEF Selected
<1>3. CASE flags.providers # <<>>
  <2>1. flags.providers \in Seq(Plugins \cup {Unified})
    BY SelectionAssumption DEF Flags
  <2>2. Range(flags.providers) \subseteq Range(Registry)
    BY <1>3 DEF Accepted, Selected
  <2>3. \A i \in DOMAIN flags.providers : flags.providers[i] \in Plugins
    <3>1. \A j \in DOMAIN Registry : Registry[j] \in Plugins
      BY <1>1
    <3>2. \A x \in Range(Registry) : x \in Plugins
      BY <3>1 DEF Range
    <3>3. \A i \in DOMAIN flags.providers : flags.providers[i] \in Range(flags.providers)
      BY Zenon DEF Range
    <3> QED
      BY <2>2, <3>2, <3>3
  <2>4. flags.providers \in Seq(Plugins)
    <3> DEFINE s == flags.providers
    <3>1. DOMAIN s = 1..Len(s) /\ Len(s) \in Nat /\ s = [i \in 1..Len(s) |-> s[i]]
      BY <2>1
    <3> HIDE DEF s
    <3>2. \A i \in 1..Len(s) : s[i] \in Plugins
      BY <2>3, <3>1 DEF s
    <3>3. s \in Seq(Plugins)
      BY <3>1, <3>2
    <3> QED
      BY <3>3 DEF s
  <2> QED
    BY <1>3, <2>4 DEF Selected
<1> QED
  BY <1>2, <1>3

LEMMA PlanType ==
    ASSUME flags \in Flags, Accepted
    PROVE  /\ Plan \in Seq(Feed) /\ Plan # <<>>
           /\ flags.withASN => Plan[1] = TableFeed
<1> DEFINE table == IF flags.withASN THEN <<TableFeed>> ELSE <<>>
           main == IF IsUnified THEN <<UnifiedFeed>> ELSE Resolve(Selected, flags.source)
           rep == IF flags.withReputation THEN Resolve(Reputation, "direct") ELSE <<>>
<1>1. TableFeed \in Feed /\ UnifiedFeed \in Feed
  BY DEF TableFeed, UnifiedFeed, Feed, Ref, Parser, Plugins
<1>2. table \in Seq(Feed) /\ (flags.withASN => table = <<TableFeed>>)
  BY <1>1
<1>3. main \in Seq(Feed) /\ Len(main) > 0
  <2>1. CASE IsUnified
    BY <1>1, <2>1
  <2>2. CASE ~IsUnified
    <3>1. Selected \in Seq(Plugins) /\ Selected # <<>>
      BY <2>2, SelectedType
    <3>2. Len(Selected) > 0
      BY <3>1
    <3>3. Resolve(Selected, flags.source) \in Seq(Feed)
          /\ Len(Resolve(Selected, flags.source)) = Len(Selected)
      BY <3>1, ResolveType
    <3> QED
      BY <2>2, <3>2, <3>3
  <2> QED
    BY <2>1, <2>2
<1>4. rep \in Seq(Feed)
  BY ResolveType, RegistryAssumption
<1>5. Plan = table \o main \o rep
  BY DEF Plan
<1> HIDE DEF table, main, rep
<1>6. /\ table \o main \in Seq(Feed) /\ Len(table \o main) = Len(table) + Len(main)
      /\ flags.withASN => (table \o main)[1] = TableFeed
  BY <1>2, <1>3
<1> QED
  BY <1>2, <1>3, <1>4, <1>5, <1>6
-----------------------------------------------------------------------------
(***************************************************************************)
(* The invariant holds initially, and build's choice of a plan starts it.   *)
(***************************************************************************)
LEMMA InitInv == Init => Inv
<1> SUFFICES ASSUME Init PROVE Inv
  OBVIOUS
<1> USE DEF Init, Feeds
<1>1. TypeOK
  BY AttemptAssumption DEF TypeOK
<1>2. Position /\ Current /\ Settled /\ Compared /\ NoBodyLeak
  BY DEF Position, Current, Settled, Compared, NoBodyLeak, Busy, PinnedEntriesGenuine
<1> QED
  BY <1>1, <1>2 DEF Inv

LEMMA StartInv == Inv /\ Start => Inv'
<1> SUFFICES ASSUME Inv, Start PROVE Inv'
  OBVIOUS
<1> USE DEF Inv, Feeds
<1>1. /\ plan' \in Seq(Feed) /\ plan' # <<>>
      /\ flags.withASN => plan'[1] = TableFeed
      /\ DOMAIN plan' = 1..Len(plan') /\ Len(plan') \in Nat \ {0}
  BY PlanType DEF Start, TypeOK
<1>2. feed = 1 /\ feed' = 1 /\ out' = <<>> /\ buf' = <<>> /\ parsed' = 0
  BY DEF Start, Position, Current, TypeOK
<1>3. failures' = {} /\ open' = {}
  BY <1>2 DEF Start, Position, NoBodyLeak, TypeOK
<1>4. flags' = flags /\ phase' = "request"
  BY DEF Start
<1>5. TypeOK'
  <2>1. body' \in [DOMAIN plan' -> Body \cup {NoBody}]
    BY DEF Start
  <2> QED
    BY <1>1, <1>2, <1>3, <1>4, <2>1 DEF TypeOK, Start
<1>6. Position'
  BY <1>1, <1>2, <1>3, <1>4 DEF Position, ForTable, TableFeed, Busy
<1>7. Current'
  <2>1. Handed' = 0
    BY <1>4 DEF Handed
  <2> QED
    BY <1>2, <1>4, <2>1 DEF Current, Block, Nothing, Busy
<1>8. Settled'
  BY <1>1, <1>2 DEF Settled, Past
<1>9. Compared' /\ NoBodyLeak'
  BY <1>2, <1>3, <1>4 DEF Compared, PinnedEntriesGenuine, NoBodyLeak
<1> QED
  BY <1>5, <1>6, <1>7, <1>8, <1>9

LEMMA RejectInv == Inv /\ Reject => Inv'
<1> SUFFICES ASSUME Inv, Reject PROVE Inv'
  OBVIOUS
<1> USE DEF Inv, Reject, args, Feeds
<1>1. plan = <<>> /\ out = <<>>
  BY DEF Position
<1>2. TypeOK'
  BY DEF TypeOK
<1>3. Position' /\ Current' /\ Settled' /\ Compared' /\ NoBodyLeak'
  BY <1>1 DEF Position, Current, Settled, Compared, NoBodyLeak, Busy,
              PinnedEntriesGenuine
<1> QED
  BY <1>2, <1>3
-----------------------------------------------------------------------------
(***************************************************************************)
(* What a feed that was read before has become is left alone: by a step    *)
(* that keeps out, and by one that hands on an entry of the current feed.  *)
(***************************************************************************)
LEMMA SettledStays ==
    ASSUME UNCHANGED args, UNCHANGED out, NEW f \in Feeds, body'[f] = body[f],
           Failed(f)' <=> Failed(f), SettledAt(f)
    PROVE  SettledAt(f)'
<1>1. ForTable(f)' = ForTable(f) /\ plan' = plan
  BY SameFlags DEF args
<1>2. Loads(f)' = Loads(f) /\ EndsCleanly(f)' = EndsCleanly(f)
  BY <1>1, SameParse
<1>3. Nothing(f)' <=> Nothing(f)
  BY DEF Nothing
<1>4. Complete(f)' <=> Complete(f)
  BY <1>2 DEF Complete, Block
<1> QED
  BY <1>1, <1>2, <1>3, <1>4 DEF SettledAt

LEMMA SettledGrows ==
    ASSUME TypeOK, UNCHANGED args, UNCHANGED <<body, failures>>, NEW f \in Feeds,
           NEW e \in Nat \X Nat, out' = Append(out, e), e[1] # f, SettledAt(f)
    PROVE  SettledAt(f)'
<1>1. ForTable(f)' = ForTable(f) /\ plan' = plan /\ (Failed(f)' <=> Failed(f))
  BY SameFlags DEF args, Failed
<1>2. Loads(f)' = Loads(f) /\ EndsCleanly(f)' = EndsCleanly(f)
  BY <1>1, SameParse
<1>3. out \in Seq(Nat \X Nat) /\ f \in Nat
  BY DEF TypeOK, Feeds
<1>4. Nothing(f) => Nothing(f)'
  BY <1>3, NothingStays
<1>5. Complete(f) /\ ~ForTable(f) => Complete(f)'
  <2> SUFFICES ASSUME Complete(f) PROVE Complete(f)'
    OBVIOUS
  <2>1. PICK k \in 0..Len(out) : Block(f, k, body[f].len)
    BY DEF Complete
  <2>2. PICK n \in Nat : n = body[f].len
    BY BodyLength
  <2>3. k \in Nat /\ k \in 0..Len(out')
    BY <1>3
  <2>4. Block(f, k, n)'
    BY <1>3, <2>1, <2>2, <2>3, BlockStays
  <2>5. body'[f].len = n
    BY <2>2
  <2> QED
    BY <1>2, <2>3, <2>4, <2>5 DEF Complete
<1> QED
  BY <1>1, <1>2, <1>4, <1>5 DEF SettledAt

(***************************************************************************)
(* The next feed starts with nothing parsed and nothing handed on.          *)
(***************************************************************************)
LEMMA AdvanceInv ==
    ASSUME TypeOK, feed \in Feeds, \A i \in DOMAIN out : out[i][1] \in 1..feed,
           UNCHANGED <<flags, plan, out>>, Advance
    PROVE  /\ feed' \in 1..(Len(plan') + 1) /\ attempt' \in 1..Attempts
           /\ phase' \in {"request", "done"} /\ (phase' \in Busy => feed' \in Feeds')
           /\ parsed' \in 0..MaxLen /\ buf' \in Seq(Nat \X Nat)
           /\ \A i \in DOMAIN out' : out'[i][1] \in 1..feed'
           /\ Current'
<1>1. /\ Len(plan) \in Nat /\ DOMAIN plan = 1..Len(plan) /\ feed \in 1..Len(plan)
      /\ out \in Seq(Nat \X Nat) /\ \A i \in DOMAIN out : out[i][1] \in Nat
  BY DEF TypeOK, Feeds
<1>2. /\ feed' = feed + 1 /\ feed' \in Nat /\ attempt' = 1 /\ parsed' = 0 /\ buf' = <<>>
      /\ phase' \in {"request", "done"}
      /\ phase' = "request" => feed' \in 1..Len(plan)
  BY <1>1 DEF Advance
<1>3. Nothing(feed') /\ Len(out) \in Nat
  BY <1>1, <1>2 DEF Nothing
<1>4. Block(feed', Len(out) - 0, 0)
  BY <1>1, <1>2, <1>3, EmptyBlock
<1>5. Handed' = 0
  BY <1>2 DEF Handed
<1>6. Current'
  BY <1>2, <1>3, <1>4, <1>5 DEF Current, Block, Nothing, Busy
<1>7. \A i \in DOMAIN out' : out'[i][1] \in 1..feed'
  BY <1>1, <1>2
<1>8. Len(plan') = Len(plan) /\ Feeds' = 1..Len(plan)
  BY <1>1 DEF Feeds
<1>9. phase' \in Busy => feed' \in Feeds'
  BY <1>2, <1>8 DEF Busy
<1>10. feed' \in 1..(Len(plan') + 1)
  BY <1>1, <1>2, <1>8
<1>11. /\ attempt' \in 1..Attempts /\ parsed' \in 0..MaxLen
       /\ buf' \in Seq(Nat \X Nat)
  BY <1>2, AttemptAssumption
<1> QED
  BY <1>2, <1>6, <1>7, <1>9, <1>10, <1>11

(***************************************************************************)
(* Giving a feed up: a buffered one has handed nothing on.                  *)
(***************************************************************************)
LEMMA GiveUpInv ==
    ASSUME Inv, phase \in {"request", "status", "backoff", "hash", "parse"},
           NEW err \in {"open", "digest", "parse"}, GiveUp(err)
    PROVE  Inv'
<1> USE DEF Inv
<1>1. /\ feed \in Feeds /\ feed \in Nat
      /\ UNCHANGED <<flags, plan, out>> /\ UNCHANGED args
      /\ open' = open \ {feed}
  BY DEF GiveUp, args, Position, Busy, TypeOK
<1>2. Feeds' = Feeds /\ Feeds \subseteq Nat
  BY <1>1, SameFlags DEF Feeds, TypeOK
<1>3. NoBodyLeak /\ open' = {}
  BY <1>1 DEF NoBodyLeak
<1>4. CASE ~plan[feed].isolated
  <2>1. phase' = "failed" /\ UNCHANGED <<feed, attempt, body, parsed, buf, failures>>
    BY <1>4 DEF GiveUp
  <2>2. TypeOK'
    BY <1>1, <1>3, <2>1 DEF TypeOK, Feeds
  <2>3. Position'
    BY <1>1, <1>2, <2>1, SameFlags DEF Position, Busy
  <2>4. Current'
    BY <1>1, <1>2, <2>1, SameFlags DEF Current, Busy, Nothing
  <2>5. Settled'
    BY <1>1, <1>2, <2>1, SettledStays DEF Settled, Past, Failed
  <2>6. Compared' /\ NoBodyLeak'
    BY <1>1, <1>3, <2>1, SameFlags DEF Compared, PinnedEntriesGenuine, NoBodyLeak
  <2> QED
    BY <2>2, <2>3, <2>4, <2>5, <2>6
<1>5. CASE plan[feed].isolated
  <2>1. /\ failures' = failures \cup {[feed |-> feed, err |-> err]}
        /\ body' = [body EXCEPT ![feed] = NoBody]
        /\ Advance
    BY <1>5 DEF GiveUp
  <2>2. /\ feed' = feed + 1
        /\ feed' \in 1..(Len(plan') + 1) /\ attempt' \in 1..Attempts
        /\ phase' \in {"request", "done"} /\ (phase' \in Busy => feed' \in Feeds')
        /\ parsed' \in 0..MaxLen /\ buf' \in Seq(Nat \X Nat)
        /\ \A i \in DOMAIN out' : out'[i][1] \in 1..feed'
        /\ Current'
    BY <1>1, <2>1, AdvanceInv DEF Position, Advance
  <2>3. /\ body \in [Feeds -> Body \cup {NoBody}]
        /\ \A f \in Feeds : f # feed => body'[f] = body[f]
    BY <2>1 DEF TypeOK
  <2>4. TypeOK'
    <3>1. body' \in [Feeds -> Body \cup {NoBody}]
      BY <2>1, <2>3
    <3>2. failures' \subseteq [feed : Feeds, err : {"open", "digest", "parse"}]
      BY <1>1, <2>1 DEF TypeOK
    <3> QED
      BY <1>1, <1>2, <1>3, <2>2, <3>1, <3>2 DEF TypeOK
  <2>5. Nothing(feed)
    BY <1>1, <1>5 DEF Current, Buffers
  <2>6. Position'
    <3>1. \A x \in failures' : x.feed < feed'
      <4> SUFFICES ASSUME NEW x \in failures'
                   PROVE  x.feed < feed + 1
        BY <2>2
      <4>1. CASE x \in failures
        <5>1. x.feed < feed /\ x.feed \in Nat
          BY <1>2, <4>1 DEF Position, TypeOK
        <5> QED
          BY <1>1, <5>1
      <4>2. CASE x = [feed |-> feed, err |-> err]
        BY <1>1, <4>2
      <4> QED
        BY <2>1, <4>1, <4>2
    <3> QED
      BY <1>1, <1>2, <2>2, <3>1, SameFlags DEF Position
  <2>7. Settled'
    <3> SUFFICES ASSUME NEW f \in Feeds, f < feed + 1
                 PROVE  SettledAt(f)'
      BY <1>2, <2>2 DEF Settled, Past
    <3>1. CASE f = feed
      <4>1. ~ForTable(f)' /\ plan'[f].isolated
        BY <1>1, <1>5, <3>1, SameFlags DEF Position, TableFeed
      <4>2. Failed(f)'
        <5>1. [feed |-> f, err |-> err] \in failures'
          BY <2>1, <3>1
        <5> QED
          BY <5>1 DEF Failed
      <4>3. Nothing(f)'
        BY <1>1, <2>5, <3>1 DEF Nothing
      <4> QED
        BY <4>1, <4>2, <4>3 DEF SettledAt
    <3>2. CASE f # feed
      <4>1. f < feed
        BY <1>1, <1>2, <3>2
      <4>2. Failed(f)' <=> Failed(f)
        BY <2>1, <3>2 DEF Failed
      <4> QED
        BY <1>1, <2>3, <3>2, <4>1, <4>2, SettledStays DEF Settled, Past
    <3> QED
      BY <3>1, <3>2
  <2>8. Compared' /\ NoBodyLeak'
    <3>1. \A i \in DOMAIN out : out[i][1] \in Feeds /\ out[i][1] # feed
      BY <1>1, <2>5 DEF Nothing, Position, TypeOK, Feeds
    <3> QED
      BY <1>1, <1>3, <2>2, <2>3, <3>1, SameFlags
      DEF Compared, PinnedEntriesGenuine, NoBodyLeak
  <2> QED
    BY <2>2, <2>4, <2>6, <2>7, <2>8
<1> QED
  BY <1>4, <1>5
-----------------------------------------------------------------------------
(***************************************************************************)
(* Source.Open: nothing has been parsed or handed on yet.                   *)
(***************************************************************************)
LEMMA RequestInv ==
    ASSUME Inv, NetworkError \/ BadStatus \/ Abandon \/ Retry
    PROVE  Inv'
<1> USE DEF Inv
<1>1. /\ UNCHANGED <<flags, plan, feed, body, parsed, buf, out, failures>>
      /\ UNCHANGED args /\ attempt' \in 1..Attempts
      /\ phase \in {"request", "status", "backoff"}
      /\ phase' \in {"request", "status", "backoff"}
  BY AttemptAssumption DEF NetworkError, BadStatus, Abandon, Retry, args, TypeOK
<1>0. NoBodyLeak' /\ feed \in Feeds
  BY DEF NetworkError, BadStatus, Abandon, Retry, NoBodyLeak, Position, Busy
<1>2. TypeOK'
  <2>1. open' \subseteq Feeds
    BY <1>0 DEF NoBodyLeak, NetworkError, BadStatus, Abandon, Retry
  <2> QED
    BY <1>1, <2>1 DEF TypeOK, Feeds
<1>3. Position'
  BY <1>1, SameFlags DEF Position, Busy
<1>4. Current'
  <2>1. Handed = 0 /\ Handed' = 0
    BY <1>1 DEF Handed
  <2> QED
    BY <1>1, <2>1, SameFlags DEF Current, Busy, Nothing, Block
<1>5. Settled'
  BY <1>1, SettledStays, SameFlags DEF Settled, Past, Failed
<1>6. Compared'
  BY <1>1, SameFlags DEF Compared, PinnedEntriesGenuine
<1> QED
  BY <1>0, <1>2, <1>3, <1>4, <1>5, <1>6

LEMMA RespondInv ==
    ASSUME Inv, Respond
    PROVE  Inv'
<1> USE DEF Inv
<1>1. /\ UNCHANGED <<flags, plan, feed, attempt, parsed, buf, out, failures>>
      /\ UNCHANGED args /\ feed \in Feeds /\ feed \in Nat /\ Feeds \subseteq Nat
      /\ phase = "request" /\ phase' = IF Digested THEN "hash" ELSE "parse"
  <2>1. Feeds \subseteq Nat
    BY DEF TypeOK, Feeds
  <2> QED
    BY <2>1 DEF Respond, args, Position, Busy
<1>2. PICK b \in Body : /\ HasPin(feed) \/ b.genuine
                        /\ body' = [body EXCEPT ![feed] = b]
  BY DEF Respond
<1>3. /\ body' \in [Feeds -> Body \cup {NoBody}] /\ body'[feed] = b
      /\ \A f \in Feeds : f # feed => body'[f] = body[f]
  BY <1>1, <1>2 DEF TypeOK
<1>4. open = {} /\ open' = {feed}
  BY <1>1 DEF NoBodyLeak, Respond
<1>5. /\ Block(feed, Len(out) - 0, 0) /\ Nothing(feed)
      /\ parsed = 0 /\ buf = <<>> /\ Len(out) \in Nat
  <2>1. Handed = 0
    BY <1>1 DEF Handed
  <2>2. out \in Seq(Nat \X Nat)
    BY DEF TypeOK
  <2> QED
    BY <1>1, <2>1, <2>2, EmptyBlock DEF Current, Busy
<1>6. TypeOK'
  BY <1>1, <1>3, <1>4, SameFlags DEF TypeOK
<1>7. Position'
  BY <1>1, <1>3, SameFlags DEF Position, Busy
<1>8. Current'
  <2>1. Handed' = 0
    BY <1>1, <1>5 DEF Handed
  <2>2. b.len \in Nat
    BY AttemptAssumption DEF Body
  <2> QED
    BY <1>1, <1>3, <1>5, <2>1, <2>2 DEF Current, Busy, Nothing, Block
<1>9. Settled'
  <2> SUFFICES ASSUME NEW f \in Feeds, f < feed
               PROVE  SettledAt(f)'
    BY <1>1, SameFlags DEF Settled, Past
  <2>1. f # feed /\ body'[f] = body[f]
    BY <1>1, <1>3
  <2> QED
    BY <1>1, <2>1, SettledStays DEF Settled, Past, Failed
<1>10. Compared'
  <2>1. phase' = "parse" => b.genuine
    BY <1>1, <1>2 DEF HasPin, Digested
  <2>2. \A i \in DOMAIN out : out[i][1] \in Feeds /\ out[i][1] # feed
    BY <1>1, <1>5 DEF Nothing, Position, TypeOK, Feeds
  <2> QED
    BY <1>1, <1>2, <1>3, <2>1, <2>2, SameFlags DEF Compared, Matches, PinnedEntriesGenuine
<1>11. NoBodyLeak'
  BY <1>1, <1>4, SameFlags DEF NoBodyLeak
<1> QED
  BY <1>6, <1>7, <1>8, <1>9, <1>10, <1>11

LEMMA HashInv ==
    ASSUME Inv, Hash
    PROVE  Inv'
<1> USE DEF Inv
<1>1. /\ UNCHANGED <<flags, plan, feed, attempt, body, parsed, buf, out, failures>>
      /\ UNCHANGED args /\ Matches(feed)
      /\ phase = "hash" /\ phase' = "parse"
      /\ feed \in Feeds /\ body[feed].len \in Nat
  BY BodyLength DEF Hash, args, Position, Busy
<1>2. open' = {} /\ Digested
  BY <1>1 DEF NoBodyLeak, Hash, Position
<1>3. TypeOK'
  BY <1>1, <1>2, SameFlags DEF TypeOK
<1>4. Position'
  BY <1>1, SameFlags DEF Position, Busy
<1>5. Current'
  <2>1. Handed = 0 /\ Handed' = 0 /\ parsed = 0 /\ buf = <<>>
    BY <1>1 DEF Handed, Current
  <2> QED
    BY <1>1, <2>1, SameFlags DEF Current, Busy, Nothing, Block
<1>6. Settled'
  BY <1>1, SettledStays, SameFlags DEF Settled, Past, Failed
<1>7. Compared' /\ NoBodyLeak'
  BY <1>1, <1>2, SameFlags DEF Compared, Matches, PinnedEntriesGenuine, NoBodyLeak
<1> QED
  BY <1>3, <1>4, <1>5, <1>6, <1>7
-----------------------------------------------------------------------------
(***************************************************************************)
(* The parsers: an entry is buffered or handed on, the feed is over.        *)
(***************************************************************************)
LEMMA BufferInv ==
    ASSUME Inv, Parse, Buffers(feed)
    PROVE  Inv'
<1> USE DEF Inv
<1>1. /\ UNCHANGED <<flags, plan, feed, attempt, body, open, out, failures>>
      /\ UNCHANGED args /\ phase = "parse" /\ phase' = "parse"
      /\ parsed' = parsed + 1 /\ buf' = Append(buf, <<feed, parsed + 1>>)
      /\ feed \in Feeds /\ feed \in Nat /\ parsed \in Nat /\ parsed < body[feed].len
  BY DEF Parse, Entry, args, Position, Busy, TypeOK
<1>2. /\ Handed = 0 /\ Len(buf) = parsed
      /\ \A i \in 1..parsed : buf[i] = <<feed, i>>
  BY <1>1 DEF Handed, Current
<1>3. Handed' = 0
  BY <1>1, SameFlags DEF Handed
<1>4. parsed + 1 \in 0..MaxLen /\ parsed + 1 <= body[feed].len
  BY <1>1, BodyLength, AttemptAssumption
<1>5. /\ buf' \in Seq(Nat \X Nat) /\ Len(buf') = parsed + 1
      /\ \A i \in 1..(parsed + 1) : buf'[i] = <<feed, i>>
  <2>1. buf \in Seq(Nat \X Nat) /\ <<feed, parsed + 1>> \in Nat \X Nat
    BY <1>1 DEF TypeOK
  <2> QED
    BY <1>1, <1>2, <2>1
<1>6. TypeOK'
  BY <1>1, <1>4, <1>5, SameFlags DEF TypeOK
<1>7. Position'
  BY <1>1, SameFlags DEF Position, Busy
<1>8. Current'
  BY <1>1, <1>2, <1>3, <1>4, <1>5, SameFlags DEF Current, Busy, Nothing, Block
<1>9. Settled'
  BY <1>1, SettledStays, SameFlags DEF Settled, Past, Failed
<1>10. Compared' /\ NoBodyLeak'
  BY <1>1, SameFlags DEF Compared, Matches, PinnedEntriesGenuine, NoBodyLeak
<1> QED
  BY <1>6, <1>7, <1>8, <1>9, <1>10

(***************************************************************************)
(* An entry of the current feed is handed on, whether from its parser or    *)
(* from the buffer.                                                         *)
(***************************************************************************)
LEMMA HandInv ==
    ASSUME Inv, feed \in Feeds, phase \in {"parse", "deliver"},
           UNCHANGED <<args, feed, body, open, failures>>,
           out' = Append(out, <<feed, Handed + 1>>), Handed \in 0..Len(out)
    PROVE  /\ out' \in Seq(Nat \X Nat)
           /\ Handed + 1 \in 0..Len(out')
           /\ \A n : n = Handed + 1 => Block(feed, Len(out) - n, n)'
           /\ \A i \in DOMAIN out' : out'[i][1] \in 1..feed
           /\ Settled' /\ PinnedEntriesGenuine'
<1> USE DEF Inv
<1>1. /\ out \in Seq(Nat \X Nat) /\ Feeds' = Feeds /\ Feeds \subseteq Nat /\ feed \in 1..feed
      /\ feed \in Nat
  BY SameFlags DEF TypeOK, Feeds
<1>2. PICK f \in Nat, n \in 0..Len(out) : f = feed /\ n = Handed
  BY <1>1
<1>3. Block(f, Len(out) - n, n)
  BY <1>2 DEF Current, Busy
<1>4. out' = Append(out, <<f, n + 1>>)
  BY <1>2
<1>5. n + 1 \in 0..Len(out') /\ Block(f, Len(out) - (n + 1), n + 1)'
  BY <1>1, <1>3, <1>4, BlockGrows
<1>6. <<f, n + 1>> \in Nat \X Nat /\ <<f, n + 1>>[1] = f
  BY <1>2
<1>7. /\ out' \in Seq(Nat \X Nat)
      /\ \A i \in DOMAIN out' : (i \in DOMAIN out /\ out'[i] = out[i]) \/ out'[i] = <<f, n + 1>>
  BY <1>1, <1>4, <1>6, Appended
<1>8. \A i \in DOMAIN out' : out'[i][1] \in 1..feed
  BY <1>1, <1>2, <1>6, <1>7 DEF Position
<1>9. Settled'
  <2> SUFFICES ASSUME NEW g \in Feeds, g < feed
               PROVE  SettledAt(g)'
    BY <1>1 DEF Settled, Past
  <2>1. g # f /\ SettledAt(g)
    BY <1>1, <1>2 DEF Settled, Past
  <2> QED
    BY <1>4, <1>6, <2>1, SettledGrows
<1>10. PinnedEntriesGenuine'
  BY <1>2, <1>6, <1>7, SameFlags DEF Compared, Matches, PinnedEntriesGenuine
<1>11. \A m : m = Handed + 1 => Block(feed, Len(out) - m, m)'
  BY <1>2, <1>5 DEF Block
<1> QED
  BY <1>2, <1>5, <1>7, <1>8, <1>9, <1>10, <1>11

LEMMA StreamInv ==
    ASSUME Inv, Parse, ~Buffers(feed)
    PROVE  Inv'
<1> USE DEF Inv
<1>1. /\ UNCHANGED <<flags, plan, feed, attempt, body, open, buf, failures>>
      /\ UNCHANGED args /\ phase = "parse" /\ phase' = "parse"
      /\ parsed' = parsed + 1 /\ out' = Append(out, <<feed, parsed + 1>>)
      /\ feed \in Feeds /\ feed \in Nat /\ parsed \in Nat /\ parsed < body[feed].len
  BY DEF Parse, Entry, args, Position, Busy, TypeOK
<1>2. Handed = parsed /\ Handed' = parsed + 1 /\ Handed \in 0..Len(out)
  BY <1>1, SameFlags DEF Handed, Current, Busy
<1>3. /\ out' \in Seq(Nat \X Nat)
      /\ Handed + 1 \in 0..Len(out')
      /\ \A n : n = Handed + 1 => Block(feed, Len(out) - n, n)'
      /\ \A i \in DOMAIN out' : out'[i][1] \in 1..feed
      /\ Settled' /\ PinnedEntriesGenuine'
  BY <1>1, <1>2, HandInv
<1>4. parsed + 1 \in 0..MaxLen /\ parsed + 1 <= body[feed].len
  BY <1>1, BodyLength, AttemptAssumption
<1>5. TypeOK'
  BY <1>1, <1>3, <1>4, SameFlags DEF TypeOK
<1>6. Position'
  BY <1>1, <1>3, SameFlags DEF Position, Busy
<1>7. Current'
  <2>1. Handed' \in 0..Len(out') /\ Block(feed, Len(out) - Handed, Handed)'
    BY <1>2, <1>3 DEF Block
  <2> QED
    BY <1>1, <1>4, <2>1, SameFlags DEF Current, Busy
<1>8. Compared' /\ NoBodyLeak'
  BY <1>1, <1>3, SameFlags DEF Compared, Matches, NoBodyLeak
<1> QED
  BY <1>3, <1>5, <1>6, <1>7, <1>8
(***************************************************************************)
(* The current feed is over and has become what a feed read before must be. *)
(***************************************************************************)
LEMMA OverInv ==
    ASSUME Inv, feed \in Feeds, phase \in {"parse", "deliver"}, Advance,
           UNCHANGED <<flags, plan, body, out, failures>>, open' = {}, SettledAt(feed)
    PROVE  Inv'
<1> USE DEF Inv
<1>1. UNCHANGED args /\ Feeds' = Feeds /\ Feeds \subseteq Nat
  BY SameFlags DEF args, TypeOK, Feeds
<1>2. /\ feed' = feed + 1
      /\ feed' \in 1..(Len(plan') + 1) /\ attempt' \in 1..Attempts
      /\ phase' \in {"request", "done"} /\ (phase' \in Busy => feed' \in Feeds')
      /\ parsed' \in 0..MaxLen /\ buf' \in Seq(Nat \X Nat)
      /\ \A i \in DOMAIN out' : out'[i][1] \in 1..feed'
      /\ Current'
  BY AdvanceInv DEF Position, Advance
<1>3. TypeOK'
  BY <1>1, <1>2 DEF TypeOK
<1>4. Position'
  <2>1. \A x \in failures : x.feed < feed + 1
    <3>1. feed \in Nat /\ \A x \in failures : x.feed \in Nat /\ x.feed < feed
      BY <1>1 DEF Position, TypeOK
    <3> QED
      BY <3>1
  <2> QED
    BY <1>1, <1>2, <2>1, SameFlags DEF Position
<1>5. Settled'
  <2> SUFFICES ASSUME NEW f \in Feeds, f < feed + 1
               PROVE  SettledAt(f)'
    BY <1>1, <1>2 DEF Settled, Past
  <2>1. f = feed \/ f < feed
    BY <1>1
  <2>2. SettledAt(f)
    BY <2>1 DEF Settled, Past
  <2> QED
    BY <1>1, <2>2, SettledStays DEF Failed
<1>6. Compared' /\ NoBodyLeak'
  BY <1>1, <1>2, SameFlags DEF Compared, PinnedEntriesGenuine, NoBodyLeak
<1> QED
  BY <1>2, <1>3, <1>4, <1>5, <1>6

LEMMA EndInv ==
    ASSUME Inv, End
    PROVE  Inv'
<1> USE DEF Inv
<1>1. /\ UNCHANGED <<flags, plan, body, out, failures>> /\ UNCHANGED args
      /\ phase = "parse" /\ feed \in Feeds /\ feed \in Nat
      /\ parsed = body[feed].len /\ parsed \in Nat
      /\ Loads(feed) /\ EndsCleanly(feed) /\ (ForTable(feed) => parsed > 0)
      /\ out \in Seq(Nat \X Nat) /\ Len(out) \in Nat
  BY DEF End, args, Position, Busy, TypeOK
<1>2. open' = {}
  BY <1>1 DEF End, NoBodyLeak
<1>3. CASE plan[feed].isolated
  <2>1. UNCHANGED <<feed, attempt, parsed, buf>> /\ phase' = "deliver"
    BY <1>3 DEF End
  <2>2. /\ Buffers(feed) /\ Len(buf) = parsed
        /\ \A i \in 1..parsed : buf[i] = <<feed, i>>
        /\ Handed = 0 /\ Block(feed, Len(out) - 0, 0)
    BY <1>1, <1>3 DEF Buffers, Handed, Current, Busy
  <2>3. Handed' = 0
    BY <1>1, <2>1, <2>2 DEF Handed
  <2>4. TypeOK'
    BY <1>1, <1>2, <2>1, SameFlags DEF TypeOK
  <2>5. Position'
    BY <1>1, <1>3, <2>1, SameFlags DEF Position, Busy
  <2>6. Current'
    <3>1. Loads(feed)' /\ EndsCleanly(feed)'
      BY <1>1, <2>1
      DEF Loads, EndsCleanly, ParseOf, ParseDocument, ParseASN, ParseTable, ParseLines,
          ParseRezmoss, ParseRezmossAll
    <3>2. Block(feed, Len(out) - Handed, Handed)' /\ Handed' \in 0..Len(out')
      BY <1>1, <2>1, <2>2, <2>3 DEF Block
    <3>3. \A i \in 1..Len(buf') : buf'[i] = <<feed', Handed' + i>>
      BY <2>1, <2>2, <2>3
    <3> QED
      BY <2>1, <3>1, <3>2, <3>3 DEF Current
  <2>7. Settled'
    BY <1>1, <2>1, SettledStays, SameFlags DEF Settled, Past, Failed
  <2>8. Compared' /\ NoBodyLeak'
    BY <1>1, <1>2, <2>1, SameFlags DEF Compared, Matches, PinnedEntriesGenuine, NoBodyLeak
  <2> QED
    BY <2>4, <2>5, <2>6, <2>7, <2>8
<1>4. CASE ~plan[feed].isolated
  <2>1. Advance
    BY <1>4 DEF End
  <2>2. SettledAt(feed)
    <3>1. CASE ForTable(feed)
      BY <1>1, <3>1 DEF SettledAt, Buffers, Current
    <3>2. CASE ~ForTable(feed)
      <4>1. ~Failed(feed)
        BY <1>1 DEF Failed, Position
      <4>2. Handed = parsed /\ parsed \in 0..Len(out) /\ Block(feed, Len(out) - parsed, parsed)
        BY <1>1, <1>4, <3>2 DEF Handed, Buffers, Current, Busy
      <4>3. Len(out) - parsed \in 0..Len(out)
        BY <1>1, <4>2
      <4>4. Complete(feed)
        BY <1>1, <4>2, <4>3 DEF Complete
      <4> QED
        BY <3>2, <4>1, <4>4 DEF SettledAt
    <3> QED
      BY <3>1, <3>2
  <2> QED
    BY <1>1, <1>2, <2>1, <2>2, OverInv
<1> QED
  BY <1>3, <1>4

LEMMA DeliverInv ==
    ASSUME Inv, Deliver
    PROVE  Inv'
<1> USE DEF Inv
<1>1. /\ UNCHANGED <<flags, plan, body, open, failures>> /\ UNCHANGED args
      /\ phase = "deliver" /\ feed \in Feeds /\ feed \in Nat /\ open = {}
      /\ plan[feed].isolated
      /\ out \in Seq(Nat \X Nat) /\ Len(out) \in Nat
      /\ buf \in Seq(Nat \X Nat) /\ Len(buf) \in Nat
  BY DEF Deliver, args, Position, Busy, TypeOK, NoBodyLeak
<1>2. /\ Handed = body[feed].len - Len(buf) /\ body[feed].len \in Nat
      /\ Handed \in 0..Len(out) /\ Block(feed, Len(out) - Handed, Handed)
      /\ Loads(feed) /\ EndsCleanly(feed)
      /\ \A i \in 1..Len(buf) : buf[i] = <<feed, Handed + i>>
  BY <1>1, BodyLength DEF Handed, Current, Busy
<1>3. CASE buf # <<>>
  <2>1. /\ out' = Append(out, Head(buf)) /\ buf' = Tail(buf)
        /\ UNCHANGED <<feed, phase, attempt, parsed>>
    BY <1>3 DEF Deliver
  <2>2. /\ Len(buf) > 0 /\ Head(buf) = buf[1] /\ 1 \in 1..Len(buf)
        /\ buf' \in Seq(Nat \X Nat) /\ Len(buf') = Len(buf) - 1
        /\ \A i \in 1..Len(buf') : buf'[i] = buf[i + 1] /\ i + 1 \in 1..Len(buf)
    BY <1>1, <1>3, <2>1
  <2>3. out' = Append(out, <<feed, Handed + 1>>)
    BY <1>2, <2>1, <2>2
  <2>4. Handed' = Handed + 1
    BY <1>1, <1>2, <2>1, <2>2 DEF Handed
  <2>5. /\ out' \in Seq(Nat \X Nat)
        /\ Handed + 1 \in 0..Len(out')
        /\ \A n : n = Handed + 1 => Block(feed, Len(out) - n, n)'
        /\ \A i \in DOMAIN out' : out'[i][1] \in 1..feed
        /\ Settled' /\ PinnedEntriesGenuine'
    BY <1>1, <1>2, <2>1, <2>3, HandInv
  <2>6. TypeOK'
    BY <1>1, <2>1, <2>2, <2>5, SameFlags DEF TypeOK
  <2>7. Position'
    BY <1>1, <2>1, <2>5, SameFlags DEF Position, Busy
  <2>8. Current'
    <3>1. Loads(feed)' /\ EndsCleanly(feed)'
      BY <1>1, <1>2, <2>1
      DEF Loads, EndsCleanly, ParseOf, ParseDocument, ParseASN, ParseTable, ParseLines,
          ParseRezmoss, ParseRezmossAll
    <3>2. Block(feed, Len(out) - Handed, Handed)' /\ Handed' \in 0..Len(out')
      BY <2>4, <2>5 DEF Block
    <3>3. \A i \in 1..Len(buf') : buf'[i] = <<feed', Handed' + i>>
      <4> SUFFICES ASSUME NEW i \in 1..Len(buf')
                   PROVE  buf'[i] = <<feed, Handed + 1 + i>>
        BY <2>1, <2>4
      <4>1. buf'[i] = <<feed, Handed + (i + 1)>>
        BY <1>2, <2>2
      <4>2. Handed + (i + 1) = Handed + 1 + i
        <5>1. Handed \in Int /\ i \in Int
          BY <1>2
        <5> QED
          BY <5>1
      <4> QED
        BY <4>1, <4>2
    <3> QED
      BY <1>1, <2>1, <3>1, <3>2, <3>3 DEF Current
  <2>9. Compared' /\ NoBodyLeak'
    BY <1>1, <2>1, <2>5, SameFlags DEF Compared, Matches, NoBodyLeak
  <2> QED
    BY <2>5, <2>6, <2>7, <2>8, <2>9
<1>4. CASE buf = <<>>
  <2>1. Advance /\ UNCHANGED out
    BY <1>4 DEF Deliver
  <2>2. Handed = body[feed].len /\ Len(out) - body[feed].len \in 0..Len(out)
    BY <1>1, <1>2, <1>4
  <2>3. Complete(feed)
    BY <1>2, <2>2 DEF Complete
  <2>4. ~Failed(feed) /\ ~ForTable(feed)
    BY <1>1 DEF Failed, Position, TableFeed
  <2>5. SettledAt(feed)
    BY <2>3, <2>4 DEF SettledAt
  <2> QED
    BY <1>1, <2>1, <2>5, OverInv
<1> QED
  BY <1>3, <1>4
-----------------------------------------------------------------------------
(***************************************************************************)
(* Every step of the collection keeps the invariant.                        *)
(***************************************************************************)
LEMMA NextInv == Inv /\ [Next]_vars => Inv'
<1> SUFFICES ASSUME Inv, [Next]_vars PROVE Inv'
  OBVIOUS
<1>1. CASE Start
  BY <1>1, StartInv
<1>2. CASE Reject
  BY <1>2, RejectInv
<1>3. CASE Respond
  BY <1>3, RespondInv
<1>4. CASE NetworkError \/ BadStatus \/ Abandon \/ Retry
  BY <1>4, RequestInv
<1>5. CASE Exhausted \/ Refused \/ Unread \/ Mismatch \/ Undecodable \/ ParseFails \/ EmptyTable
  <2>1. /\ phase \in {"request", "status", "backoff", "hash", "parse"}
        /\ GiveUp("open") \/ GiveUp("digest") \/ GiveUp("parse")
    BY <1>5 DEF Exhausted, Refused, Unread, Mismatch, Undecodable, ParseFails, EmptyTable
  <2> QED
    BY <2>1, GiveUpInv
<1>6. CASE Hash
  BY <1>6, HashInv
<1>7. CASE Parse
  BY <1>7, BufferInv, StreamInv
<1>8. CASE End
  BY <1>8, EndInv
<1>9. CASE Deliver
  BY <1>9, DeliverInv
<1>10. CASE UNCHANGED vars
  <2> USE <1>10 DEF vars, args, Feeds
  <2>1. TypeOK' /\ Position'
    BY SameFlags DEF Inv, TypeOK, Position, Busy
  <2>2. Current'
    <3>1. Handed' = Handed /\ (feed \in Feeds)' = (feed \in Feeds)
      BY SameFlags DEF Handed
    <3>2. Loads(feed)' = Loads(feed) /\ EndsCleanly(feed)' = EndsCleanly(feed)
      BY DEF Loads, EndsCleanly, ParseOf, ParseDocument, ParseASN, ParseTable, ParseLines,
             ParseRezmoss, ParseRezmossAll
    <3> QED
      BY <3>1, <3>2, SameFlags DEF Inv, Current, Block, Nothing
  <2>3. Settled'
    BY SettledStays DEF Inv, Settled, Past, Failed
  <2>4. Compared' /\ NoBodyLeak'
    BY SameFlags DEF Inv, Compared, Matches, PinnedEntriesGenuine, NoBodyLeak
  <2> QED
    BY <2>1, <2>2, <2>3, <2>4 DEF Inv
<1> QED
  BY <1>1, <1>2, <1>3, <1>4, <1>5, <1>6, <1>7, <1>8, <1>9, <1>10 DEF Next

(***************************************************************************)
(* The inductive invariant holds of every state of every build.             *)
(***************************************************************************)
THEOREM Invariance == Spec => []Inv
<1>1. Init => Inv
  BY InitInv
<1>2. Inv /\ [Next]_vars => Inv'
  BY NextInv
<1> QED
  BY <1>1, <1>2, PTL DEF Spec

(***************************************************************************)
(* The state of a build keeps its types: the plan names feeds that exist,   *)
(* the attempts stay within HTTPSource.Attempts, and what bufferFeed and    *)
(* Build hold are entries of feeds.                                         *)
(***************************************************************************)
THEOREM TypeCorrect == Spec => []TypeOK
<1>1. Inv => TypeOK
  BY DEF Inv
<1> QED
  BY <1>1, Invariance, PTL

(***************************************************************************)
(* The order of what Build gets.  What the current feed hands on comes      *)
(* after the entries it has handed on, and those come last in out.          *)
(***************************************************************************)
LEMMA HandedInOrder ==
    ASSUME Inv, InPlanOrder, phase \in {"parse", "deliver"}, Handed \in 0..Len(out),
           out' = Append(out, <<feed, Handed + 1>>)
    PROVE  InPlanOrder'
<1>1. PICK f \in Nat, n \in Nat : f = feed /\ n = Handed /\ n <= Len(out)
  <2>1. feed \in Nat /\ out \in Seq(Nat \X Nat)
    BY DEF Inv, TypeOK
  <2> QED
    BY <2>1
<1>2. out \in Seq(Nat \X Nat) /\ <<f, n + 1>> \in Nat \X Nat
  BY <1>1 DEF Inv, TypeOK
<1>3. out' = Append(out, <<f, n + 1>>)
  BY <1>1
<1>4. /\ \A i \in DOMAIN out : i \in DOMAIN out' /\ out'[i] = out[i]
      /\ out'[Len(out) + 1] = <<f, n + 1>>
      /\ \A i \in DOMAIN out' : i \in DOMAIN out \/ i = Len(out) + 1
      /\ DOMAIN out = 1..Len(out) /\ Len(out) \in Nat
  BY <1>2, <1>3, Appended
<1>5. Block(f, Len(out) - n, n)
  BY <1>1 DEF Inv, Current, Busy
<1>6. ASSUME NEW i \in DOMAIN out
      PROVE  out[i][1] < f \/ (out[i][1] = f /\ out[i][2] < n + 1)
  <2>1. out[i][1] \in 1..f
    BY <1>1 DEF Inv, Position
  <2>2. CASE out[i][1] = f
    <3>1. i \in (Len(out) - n + 1)..(Len(out) - n + n)
      BY <1>5, <2>2 DEF Block
    <3>2. PICK m \in 1..n : i = Len(out) - n + m
      <4>1. i - (Len(out) - n) \in 1..n
        BY <1>1, <1>4, <3>1
      <4>2. i = Len(out) - n + (i - (Len(out) - n))
        BY <1>1, <1>4
      <4> QED
        BY <4>1, <4>2
    <3>3. out[i] = <<f, m>>
      BY <1>5, <3>2 DEF Block
    <3>4. out[i][2] = m /\ m < n + 1
      BY <1>1, <3>3
    <3> QED
      BY <2>2, <3>4
  <2> QED
    BY <1>1, <2>1, <2>2
<1> SUFFICES ASSUME NEW i \in DOMAIN out', NEW j \in DOMAIN out', i < j
             PROVE  \/ out'[i][1] < out'[j][1]
                    \/ out'[i][1] = out'[j][1] /\ out'[i][2] < out'[j][2]
  BY DEF InPlanOrder
<1>7. i \in DOMAIN out /\ out'[i] = out[i]
  BY <1>4
<1>8. CASE j \in DOMAIN out
  BY <1>4, <1>7, <1>8 DEF InPlanOrder
<1>9. CASE j = Len(out) + 1
  <2>1. out'[j][1] = f /\ out'[j][2] = n + 1
    BY <1>4, <1>9
  <2> QED
    BY <1>6, <1>7, <2>1
<1> QED
  BY <1>4, <1>8, <1>9

LEMMA OrderStep == Inv /\ InPlanOrder /\ [Next]_vars => InPlanOrder'
<1> SUFFICES ASSUME Inv, InPlanOrder, [Next]_vars
             PROVE  InPlanOrder'
  OBVIOUS
<1>1. CASE UNCHANGED out
  BY <1>1 DEF InPlanOrder
<1>2. CASE Parse
  <2>1. CASE Buffers(feed)
    BY <1>1, <1>2, <2>1 DEF Parse
  <2>2. CASE ~Buffers(feed)
    <3>1. out' = Append(out, <<feed, parsed + 1>>) /\ phase = "parse"
      BY <1>2, <2>2 DEF Parse, Entry
    <3>2. Handed = parsed /\ Handed \in 0..Len(out)
      BY <2>2, <3>1 DEF Handed, Inv, Current, Busy
    <3> QED
      BY <3>1, <3>2, HandedInOrder
  <2> QED
    BY <2>1, <2>2
<1>3. CASE Deliver
  <2>1. CASE buf = <<>>
    BY <1>1, <1>3, <2>1 DEF Deliver
  <2>2. CASE buf # <<>>
    <3>1. out' = Append(out, Head(buf)) /\ phase = "deliver" /\ buf \in Seq(Nat \X Nat)
      BY <1>3, <2>2 DEF Deliver, Inv, TypeOK
    <3>2. Head(buf) = buf[1] /\ 1 \in 1..Len(buf)
      BY <2>2, <3>1
    <3>3. Handed \in 0..Len(out) /\ \A i \in 1..Len(buf) : buf[i] = <<feed, Handed + i>>
      BY <3>1 DEF Inv, Current, Busy
    <3> QED
      BY <3>1, <3>2, <3>3, HandedInOrder
  <2> QED
    BY <2>1, <2>2
<1>4. CASE Exhausted \/ Refused \/ Unread \/ Mismatch \/ Undecodable \/ ParseFails \/ EmptyTable
  BY <1>1, <1>4 DEF Exhausted, Refused, Unread, Mismatch, Undecodable, ParseFails, EmptyTable, GiveUp
<1>5. CASE \/ Start \/ Reject \/ Respond \/ NetworkError \/ BadStatus \/ Abandon
           \/ Retry \/ Hash \/ End
  BY <1>1, <1>5 DEF Start, Reject, Respond, NetworkError, BadStatus, Abandon, Retry,
     Hash, End
<1>6. CASE UNCHANGED vars
  BY <1>1, <1>6 DEF vars
<1> QED
  BY <1>2, <1>3, <1>4, <1>5, <1>6 DEF Next

(***************************************************************************)
(* Collect, CollectResilient and the mixtures of the two that build makes   *)
(* hand each feed to Build whole, in order and once, or not at all, and the *)
(* feeds in the order of the plan, for any plugins, command line, retries   *)
(* and bodies.  A feed is whole when its parser saw its end without an      *)
(* error.  The table of --with-asn is one whose rows all parsed and of      *)
(* which a range was left, not one all of whose rows were ranges:           *)
(* NewASNTable drops the others in silence.                                 *)
(***************************************************************************)
THEOREM WholeOrNothing == Spec => []AllOrNothing
<1>1. Init => InPlanOrder
  BY DEF Init, InPlanOrder
<1>2. Spec => []InPlanOrder
  BY <1>1, OrderStep, Invariance, PTL DEF Spec
<1>3. Inv /\ InPlanOrder => AllOrNothing
  BY DEF Inv, Settled, SettledAt, Current, AllOrNothing
<1> QED
  BY <1>2, <1>3, Invariance, PTL

(***************************************************************************)
(* No entry of a feed whose ref is pinned comes from another body than the  *)
(* pinned one.                                                              *)
(***************************************************************************)
THEOREM PinsHold == Spec => []PinnedEntriesGenuine
<1>1. Inv => PinnedEntriesGenuine
  BY DEF Inv, Compared
<1> QED
  BY <1>1, Invariance, PTL

(***************************************************************************)
(* Open, bufferFeed, collectFeed and loadASNTable close every body they     *)
(* opened, on each of their error paths too and before each retry.          *)
(***************************************************************************)
THEOREM BodiesClosed == Spec => []NoBodyLeak
<1>1. Inv => NoBodyLeak
  BY DEF Inv
<1> QED
  BY <1>1, Invariance, PTL

-----------------------------------------------------------------------------
(***************************************************************************)
(* Termination.  What is left to do, the weightiest first: to choose the    *)
(* feeds, the feeds, the tries and stages of the current one, its entries.  *)
(***************************************************************************)
TriesLeft == Attempts - attempt

StagesLeft ==
    CASE phase = "request" -> 3 * TriesLeft + 6
      [] phase = "status"  -> 3 * TriesLeft + 5
      [] phase = "backoff" -> 3 * TriesLeft + 4
      [] phase = "hash"    -> 3
      [] phase = "parse"   -> 2
      [] phase = "deliver" -> 1
      [] OTHER             -> 0

EntriesLeft ==
    CASE phase = "parse"   -> body[feed].len - parsed
      [] phase = "deliver" -> Len(buf)
      [] OTHER             -> 0

Left == <<IF phase = "start" THEN 1 ELSE 0, Len(plan) + 1 - feed, StagesLeft, EntriesLeft>>

Measure == [1..4 -> Nat]
Smaller == {p \in Nat \X Nat : p[1] < p[2]}
Descent == LexProductOrdering(Smaller, Nat, 4)
Descends == <<Left', Left>> \in Descent

\* Nothing can get smaller for ever.
LEMMA DescentEnds == IsWellFoundedOn(Descent, Measure)
<1>1. IsWellFoundedOn(Smaller, Nat)
  BY NatLessThanWellFounded DEF OpToRel, Smaller
<1> QED
  BY <1>1, WFLexProductOrdering DEF Descent, Measure

\* One measure is below another if it is smaller at one place and the same before.
LEMMA DescentRule ==
    ASSUME NEW x \in Measure, NEW y \in Measure,
           \/ x[1] < y[1]
           \/ x[1] = y[1] /\ x[2] < y[2]
           \/ x[1] = y[1] /\ x[2] = y[2] /\ x[3] < y[3]
           \/ x[1] = y[1] /\ x[2] = y[2] /\ x[3] = y[3] /\ x[4] < y[4]
    PROVE  <<x, y>> \in Descent
<1>1. \A j \in 1..4 : x[j] \in Nat /\ y[j] \in Nat
  BY DEF Measure
<1>2. PICK j \in 1..4 : x[j] < y[j] /\ \A i \in 1..(j - 1) : x[i] = y[i]
  <2>1. CASE x[1] < y[1]
    BY <2>1
  <2>2. CASE x[1] = y[1] /\ x[2] < y[2]
    BY <2>2
  <2>3. CASE x[1] = y[1] /\ x[2] = y[2] /\ x[3] < y[3]
    BY <2>3
  <2>4. CASE x[1] = y[1] /\ x[2] = y[2] /\ x[3] = y[3] /\ x[4] < y[4]
    BY <2>4
  <2> QED
    BY <2>1, <2>2, <2>3, <2>4
<1>3. <<x[j], y[j]>> \in Smaller
  BY <1>1, <1>2 DEF Smaller
<1>4. <<x, y>> \in [1..4 -> Nat] \X [1..4 -> Nat]
  BY DEF Measure
<1> QED
  BY <1>2, <1>3, <1>4 DEF Descent, LexProductOrdering

\* What is left is a number of each.
LEMMA LeftIsMeasure == Inv => Left \in Measure
<1> SUFFICES ASSUME Inv PROVE Left \in Measure
  OBVIOUS
<1>1. Len(plan) + 1 - feed \in Nat
  BY DEF Inv, TypeOK
<1>2. TriesLeft \in Nat
  BY AttemptAssumption DEF Inv, TypeOK, TriesLeft
<1>3. StagesLeft \in Nat
  BY <1>2 DEF StagesLeft
<1>4. EntriesLeft \in Nat
  <2>1. phase = "parse" => /\ feed \in Feeds
                           /\ parsed \in 0..MaxLen /\ parsed <= body[feed].len
    BY DEF Inv, TypeOK, Position, Current, Busy
  <2>2. phase = "parse" => body[feed].len - parsed \in Nat
    BY <2>1, BodyLength, AttemptAssumption DEF Inv
  <2>3. Len(buf) \in Nat
    BY DEF Inv, TypeOK
  <2> QED
    BY <2>2, <2>3 DEF EntriesLeft
<1> QED
  BY <1>1, <1>3, <1>4 DEF Left, Measure

\* A feed that is over leaves one fewer; a build that gives up leaves no stage.
LEMMA OverDescends ==
    ASSUME Inv, Left \in Measure, Left' \in Measure, phase # "start", plan' = plan,
           Advance \/ (phase' = "failed" /\ phase # "failed" /\ feed' = feed
                         /\ phase \in Busy)
    PROVE  <<Left', Left>> \in Descent
<1>1. CASE Advance
  <2>1. feed \in Nat /\ Len(plan) \in Nat /\ feed' = feed + 1 /\ phase' # "start"
    BY <1>1 DEF Advance, Inv, TypeOK
  <2>2. Left'[1] = Left[1] /\ Left'[2] < Left[2]
    BY <2>1 DEF Left
  <2> QED
    BY <2>2, DescentRule
<1>2. CASE phase' = "failed" /\ feed' = feed /\ phase \in Busy
  <2>1. TriesLeft \in Nat
    BY AttemptAssumption DEF Inv, TypeOK, TriesLeft
  <2>2. StagesLeft > 0 /\ StagesLeft' = 0
    BY <1>2, <2>1 DEF StagesLeft, Busy
  <2>3. Left'[1] = Left[1] /\ Left'[2] = Left[2] /\ Left'[3] < Left[3]
    BY <1>2, <2>2 DEF Left
  <2> QED
    BY <2>3, DescentRule
<1> QED
  BY <1>1, <1>2

\* Every step leaves less to do.
LEMMA StepDescends ==
    ASSUME Inv, Inv', Left \in Measure, Left' \in Measure, Next
    PROVE  <<Left', Left>> \in Descent
<1>1. attempt \in 1..Attempts /\ attempt' \in 1..Attempts /\ Attempts \in Nat
  BY AttemptAssumption DEF Inv, TypeOK
<1>2. CASE Start \/ Reject
  <2>1. Left'[1] < Left[1]
    BY <1>2 DEF Start, Reject, Left
  <2> QED
    BY <2>1, DescentRule
<1>3. CASE Respond \/ NetworkError \/ BadStatus \/ Abandon \/ Retry \/ Hash
  <2>1. plan' = plan /\ feed' = feed /\ phase # "start" /\ phase' # "start"
    BY <1>3 DEF Respond, NetworkError, BadStatus, Abandon, Retry, Hash, args
  <2>2. StagesLeft' < StagesLeft
    BY <1>1, <1>3 DEF Respond, NetworkError, BadStatus, Abandon, Retry, Hash,
       StagesLeft, TriesLeft
  <2>3. Left'[1] = Left[1] /\ Left'[2] = Left[2] /\ Left'[3] < Left[3]
    BY <2>1, <2>2 DEF Left
  <2> QED
    BY <2>3, DescentRule
<1>4. CASE Exhausted \/ Refused \/ Unread \/ Mismatch \/ Undecodable \/ ParseFails \/ EmptyTable
  <2>1. phase \in Busy \ {"deliver"} /\ \E err : GiveUp(err)
    BY <1>4 DEF Exhausted, Refused, Unread, Mismatch, Undecodable, ParseFails, EmptyTable, Busy
  <2>2. phase # "start" /\ phase # "failed" /\ phase \in Busy
    BY <2>1 DEF Busy
  <2>3. plan' = plan /\ (Advance \/ (phase' = "failed" /\ feed' = feed))
    BY <2>1 DEF GiveUp, args
  <2> QED
    BY <2>2, <2>3, OverDescends
<1>5. CASE Parse
  <2>1. /\ plan' = plan /\ feed' = feed /\ phase = "parse" /\ phase' = "parse"
        /\ body' = body /\ parsed' = parsed + 1
    BY <1>5 DEF Parse, args
  <2>2. parsed \in Nat /\ feed \in Feeds
    BY <2>1, AttemptAssumption DEF Inv, TypeOK, Position, Busy
  <2>3. StagesLeft' = StagesLeft /\ EntriesLeft' < EntriesLeft
    BY <2>1, <2>2, BodyLength DEF StagesLeft, EntriesLeft, Inv
  <2>4. /\ Left'[1] = Left[1] /\ Left'[2] = Left[2] /\ Left'[3] = Left[3]
        /\ Left'[4] < Left[4]
    BY <2>1, <2>3 DEF Left
  <2> QED
    BY <2>4, DescentRule
<1>6. CASE End
  <2>1. plan' = plan /\ phase = "parse"
    BY <1>6 DEF End, args
  <2>2. CASE plan[feed].isolated
    <3>1. feed' = feed /\ phase' = "deliver"
      BY <1>6, <2>2 DEF End
    <3>2. Left'[1] = Left[1] /\ Left'[2] = Left[2] /\ Left'[3] < Left[3]
      BY <2>1, <3>1 DEF Left, StagesLeft
    <3> QED
      BY <3>2, DescentRule
  <2>3. CASE ~plan[feed].isolated
    BY <1>6, <2>1, <2>3, OverDescends DEF End
  <2> QED
    BY <2>2, <2>3
<1>7. CASE Deliver
  <2>1. plan' = plan /\ phase = "deliver"
    BY <1>7 DEF Deliver, args
  <2>2. CASE buf # <<>>
    <3>1. feed' = feed /\ phase' = "deliver" /\ buf' = Tail(buf)
      BY <1>7, <2>1, <2>2 DEF Deliver
    <3>2. Len(buf') < Len(buf)
      BY <2>2, <3>1 DEF Inv, TypeOK
    <3>3. /\ Left'[1] = Left[1] /\ Left'[2] = Left[2] /\ Left'[3] = Left[3]
          /\ Left'[4] < Left[4]
      BY <2>1, <3>1, <3>2 DEF Left, StagesLeft, EntriesLeft
    <3> QED
      BY <3>3, DescentRule
  <2>3. CASE buf = <<>>
    BY <1>7, <2>1, <2>3, OverDescends DEF Deliver
  <2> QED
    BY <2>2, <2>3
<1> QED
  BY <1>2, <1>3, <1>4, <1>5, <1>6, <1>7 DEF Next

(***************************************************************************)
(* A collection does not go on for ever: every step, a retry included,      *)
(* leaves less to do in a well-founded order.  So retries are bounded over  *)
(* all the feeds, and no feed that fails is begun again.                    *)
(***************************************************************************)
THEOREM EveryStepProgresses ==
    /\ IsWellFoundedOn(Descent, Measure)
    /\ Spec => [](Left \in Measure) /\ [][Descends]_vars
<1>1. Spec => [](Left \in Measure)
  BY LeftIsMeasure, Invariance, PTL
<1>2. Inv /\ Inv' /\ Left \in Measure /\ (Left \in Measure)' /\ [Next]_vars
        => [Descends]_vars
  BY StepDescends DEF Descends
<1>3. Spec => [][Descends]_vars
  BY <1>1, <1>2, Invariance, PTL DEF Spec
<1> QED
  BY <1>1, <1>3, DescentEnds
=============================================================================
