------------------------------ MODULE MergeTree ------------------------------
(***************************************************************************)
(* Build (attribution/build.go): entries arrive as a concatenation of       *)
(* streams and are merged into a search tree.  InsertFunc of mmdbwriter     *)
(* calls the merge once for every slot of the tree that the network covers, *)
(* so the tree is a map from addresses to records and an insert is          *)
(* pointwise.  A prefix is the set of addresses it covers.                  *)
(*                                                                          *)
(* The log of inserted entries is history: the properties say what record   *)
(* an address must have in terms of the entries that covered it.            *)
(***************************************************************************)
EXTENDS Integers, Sequences

CONSTANTS
    Addr,          \* addresses, those inside an aliased range left out
    Prefix,        \* normalized networks: sets of addresses
    Provider, Region, Service, Category,
    ExtKey,        \* keys of ext
    ExtValue,      \* non-empty values of ext
    Empty,         \* the value ""
    NoValue,       \* the key is not there
    NoRecord,      \* an empty slot
    Time,          \* feed timestamps, in seconds since the epoch
    NStream,       \* how many streams ConcatEntries chains
    Feed(_),       \* the records stream s may yield
    MaxEntry       \* bound on the entries consumed

ASSUME PrefixAssumption == Prefix \subseteq SUBSET Addr
ASSUME ValueAssumption == Empty # NoValue /\ {Empty, NoValue} \cap ExtValue = {}
ASSUME TimeAssumption == Time \subseteq Int
ASSUME BoundAssumption == MaxEntry \in Nat /\ NStream \in Nat \ {0}

\* A record a parser yields: a zero or pre-epoch SyncedAt is below 1.
Record == [provider : Provider, region : Region, services : SUBSET Service,
           categories : SUBSET Category,
           ext : [ExtKey -> ExtValue \cup {Empty, NoValue}], synced : Time]

ASSUME FeedAssumption == \A s \in 1..NStream : Feed(s) \subseteq Record
ASSUME RecordAssumption == NoRecord \notin Record

\* A record of the tree; region stands for region, source and ipv6, which no
\* merge changes.
Stored == [provider : Provider, region : Region, services : SUBSET Service,
           categories : SUBSET Category,
           ext : [ExtKey -> ExtValue \cup {NoValue}], synced : Nat]

ASSUME StoredAssumption == NoRecord \notin Stored

VARIABLES
    tree,          \* the record of each address
    log,           \* the entries inserted, in order
    skipped,       \* BuildStats.Skipped
    stream,        \* the stream being consumed
    pc             \* "reading", "written" or "failed"

vars == <<tree, log, skipped, stream, pc>>

Logged == [prefix : Prefix, record : Stored, stream : 1..NStream]

TypeOK ==
    /\ tree \in [Addr -> Stored \cup {NoRecord}]
    /\ log \in Seq(Logged)
    /\ skipped \in Nat
    /\ stream \in 1..NStream
    /\ pc \in {"reading", "written", "failed"}

Init ==
    /\ tree = [a \in Addr |-> NoRecord]
    /\ log = <<>>
    /\ skipped = 0
    /\ stream = 1
    /\ pc = "reading"

-----------------------------------------------------------------------------
Larger(m, n) == IF n > m THEN n ELSE m

(***************************************************************************)
(* toMMDB: empty ext values are dropped, a timestamp not after the epoch is *)
(* stored as 0, and the slices become sets (sorted, without duplicates).    *)
(***************************************************************************)
ToMMDB(r) ==
    [r EXCEPT !.ext = [k \in ExtKey |-> IF r.ext[k] = Empty THEN NoValue
                                                            ELSE r.ext[k]],
              !.synced = Larger(0, @)]

\* unionExt: the incoming value wins where there is one.
UnionExt(old, new) ==
    [k \in ExtKey |-> IF new[k] # NoValue THEN new[k] ELSE old[k]]

(***************************************************************************)
(* mergeRecords: categories always accumulate, everything else only within  *)
(* one provider, and the first writer of the slot stays its provider.       *)
(***************************************************************************)
WithCategories(cur, new) == [cur EXCEPT !.categories = @ \cup new.categories]

WithFields(cur, new) ==
    [cur EXCEPT !.services = @ \cup new.services,
                !.ext = UnionExt(@, new.ext),
                !.synced = Larger(@, new.synced)]

\* Variant: the last writer takes the slot over.
MergeLastWriter(cur, new) ==
    IF cur = NoRecord \/ cur.provider # new.provider THEN new
    ELSE WithFields(WithCategories(cur, new), new)

\* Variant: categories merge like everything else, within one provider.
MergeWithinProvider(cur, new) ==
    IF cur = NoRecord THEN new
    ELSE IF cur.provider # new.provider THEN cur
    ELSE WithFields(WithCategories(cur, new), new)

\* Variant: services, ext and synced_at of two providers are fused.
MergeFused(cur, new) ==
    IF cur = NoRecord THEN new ELSE WithFields(WithCategories(cur, new), new)

Merge(cur, new) ==
    IF cur = NoRecord THEN new
    ELSE IF cur.provider # new.provider THEN WithCategories(cur, new)
    ELSE WithFields(WithCategories(cur, new), new)

-----------------------------------------------------------------------------
More == pc = "reading" /\ Len(log) + skipped < MaxEntry

Insert(p, r) ==
    /\ More
    /\ tree' = [a \in Addr |-> IF a \in p THEN Merge(tree[a], ToMMDB(r)) ELSE tree[a]]
    /\ log' = Append(log, [prefix |-> p, record |-> ToMMDB(r), stream |-> stream])
    /\ UNCHANGED <<skipped, stream, pc>>

(***************************************************************************)
(* normalizePrefix refuses a 4-in-6 network shorter than /96, or InsertFunc *)
(* refuses one inside an aliased range (6to4, Teredo): the entry is counted *)
(* and nothing else happens.                                                *)
(***************************************************************************)
Skip ==
    /\ More
    /\ skipped' = skipped + 1
    /\ UNCHANGED <<tree, log, stream, pc>>

\* ConcatEntries: the next stream starts when this one is exhausted.
NextStream ==
    /\ pc = "reading"
    /\ stream < NStream
    /\ stream' = stream + 1
    /\ UNCHANGED <<tree, log, skipped, pc>>

\* Variant: the streams are chained the other way round.
StreamRecordsReversed(s) == Feed(NStream + 1 - s)
StreamRecords(s) == Feed(s)

(***************************************************************************)
(* The end of the last stream: a build of nothing is an error.  An error of *)
(* the stream, an invalid network or a failed write ends the build earlier. *)
(***************************************************************************)
Write ==
    /\ pc = "reading"
    /\ stream = NStream
    /\ log # <<>>
    /\ pc' = "written"
    /\ UNCHANGED <<tree, log, skipped, stream>>

Abort ==
    /\ pc = "reading"
    /\ pc' = "failed"
    /\ UNCHANGED <<tree, log, skipped, stream>>

Next ==
    \/ \E p \in Prefix, r \in StreamRecords(stream) : Insert(p, r)
    \/ Skip
    \/ NextStream
    \/ Write
    \/ Abort

Spec == Init /\ [][Next]_vars

-----------------------------------------------------------------------------
(***************************************************************************)
(* The entries that covered an address, and those of them that share the    *)
(* provider of the first.                                                   *)
(***************************************************************************)
Covering(a) == {i \in DOMAIN log : a \in log[i].prefix}
First(f, a) == f \in Covering(a) /\ \A i \in Covering(a) : f <= i
Mates(f, a) == {i \in Covering(a) : log[i].record.provider = log[f].record.provider}

(***************************************************************************)
(* An address has a record exactly if an inserted entry covered it, and the *)
(* first such entry gives it its provider and region ("keep the first       *)
(* writer's provider-scoped fields").                                       *)
(***************************************************************************)
FirstWriterOwns ==
    \A a \in Addr :
        /\ tree[a] = NoRecord <=> Covering(a) = {}
        /\ \A f \in Covering(a) : First(f, a) =>
              /\ tree[a].provider = log[f].record.provider
              /\ tree[a].region = log[f].record.region

(***************************************************************************)
(* Categories are the union over every entry that covered the address,      *)
(* whatever its provider ("categories are inherently cross-source").        *)
(***************************************************************************)
CategoriesFromAll ==
    \A a \in Addr : tree[a] # NoRecord =>
        tree[a].categories = UNION {log[i].record.categories : i \in Covering(a)}

(***************************************************************************)
(* Services, timestamp and ext come from the first writer's provider alone: *)
(* the union, the freshest, and for each key the last non-empty value.      *)
(***************************************************************************)
LatestValue(M, k, v) ==
    \/ v = NoValue /\ \A i \in M : log[i].record.ext[k] = NoValue
    \/ \E i \in M : /\ log[i].record.ext[k] = v
                    /\ v # NoValue
                    /\ \A j \in M : j > i => log[j].record.ext[k] = NoValue

FieldsFromOwner ==
    \A a \in Addr : \A f \in Covering(a) : First(f, a) =>
        LET M == Mates(f, a)
        IN  /\ tree[a].services = UNION {log[i].record.services : i \in M}
            /\ \A i \in M : log[i].record.synced <= tree[a].synced
            /\ \E i \in M : log[i].record.synced = tree[a].synced
            /\ \A k \in ExtKey : LatestValue(M, k, tree[a].ext[k])

(***************************************************************************)
(* An address that an entry of an earlier stream covers is never attributed *)
(* to a later one: a reputation entry inside a cloud range enriches the     *)
(* cloud record and does not claim it (the comment on --with-reputation).   *)
(***************************************************************************)
EarlierStreamOwns ==
    \A a \in Addr : \A i \in Covering(a) :
        \E r \in UNION {Feed(s) : s \in 1..log[i].stream} :
            r.provider = tree[a].provider

=============================================================================
