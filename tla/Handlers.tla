------------------------------ MODULE Handlers ------------------------------
(***************************************************************************)
(* The request handlers above the Service (server/http.go, server/grpc.go)  *)
(* and its counters: batches of lookups, /metrics and /version, while the   *)
(* SIGHUP goroutine installs newer databases.                               *)
(*                                                                          *)
(* Every atomic operation is a step: a handler that loads the pointer or a  *)
(* counter twice may see two values.  Mappings and their lifetime are in    *)
(* Service; here a database is its version, and serve runs one Reload at a  *)
(* time.                                                                    *)
(***************************************************************************)
EXTENDS Integers, Sequences, FiniteSets

CONSTANTS
    Client,        \* goroutines with a batch (or, of length 1, a single) lookup
    MaxBatch,      \* IPs of a batch
    MaxLookup,     \* bound on the lookups ever counted
    MaxVersion     \* bound on the databases ever installed

ASSUME BoundAssumption ==
    /\ MaxBatch \in Nat \ {0} /\ MaxLookup \in Nat /\ MaxVersion \in Nat
ASSUME ClientAssumption == IsFiniteSet(Client)

VARIABLES
    db,                        \* the version behind Service.db
    lookups, hits, errors,     \* Service's counters
    misses, abandoned,         \* lookups that found nothing or panicked, which
                               \* nothing counts
    pc,                        \* where each client is
    loaded,                    \* the version its lookup loaded
    answers,                   \* the versions its batch was answered from
    scrapePc, sample,          \* /metrics: the counters loaded so far
    last,                      \* what the scrape before it returned
    versionPc, described       \* /version: the versions its fields come from

counters == <<lookups, hits, errors, misses, abandoned>>
client   == <<pc, loaded, answers>>
scrape   == <<scrapePc, sample, last>>
version  == <<versionPc, described>>
vars == <<db, lookups, hits, errors, misses, abandoned, pc, loaded, answers, scrapePc,
          sample, last, versionPc, described>>

Version == 0..MaxVersion
Count   == 0..MaxLookup

TypeOK ==
    /\ db \in Version
    /\ lookups \in Count /\ hits \in Count /\ errors \in Count
    /\ misses \in Count /\ abandoned \in Count
    /\ pc \in [Client -> {"idle", "counted", "loaded", "hit", "error"}]
    /\ loaded \in [Client -> Version]
    /\ answers \in [Client -> Seq(Version)]
    /\ \A c \in Client : Len(answers[c]) <= MaxBatch
    /\ scrapePc \in {"idle", "lookups", "hits"}
    /\ sample \in Count \X Count \X Count
    /\ last \in Count \X Count \X Count
    /\ versionPc \in {"idle", "tested", "metadata", "epoch"}
    /\ described \in Seq(Version)

Init ==
    /\ db = 0
    /\ lookups = 0 /\ hits = 0 /\ errors = 0 /\ misses = 0 /\ abandoned = 0
    /\ pc = [c \in Client |-> "idle"]
    /\ loaded = [c \in Client |-> 0]
    /\ answers = [c \in Client |-> <<>>]
    /\ scrapePc = "idle" /\ sample = <<0, 0, 0>> /\ last = <<0, 0, 0>>
    /\ versionPc = "idle" /\ described = <<>>

-----------------------------------------------------------------------------
\* Variant: a reload starts the counters over.
ReloadReset ==
    /\ db < MaxVersion
    /\ db' = db + 1
    /\ lookups' = 0 /\ hits' = 0 /\ errors' = 0 /\ UNCHANGED <<misses, abandoned>>
    /\ UNCHANGED <<client, scrape, version>>

\* Reload's Swap.
Reload ==
    /\ db < MaxVersion
    /\ db' = db + 1
    /\ UNCHANGED <<counters, client, scrape, version>>

(***************************************************************************)
(* Lookup and LookupProvider, and the loop of the batch handlers over them. *)
(***************************************************************************)
Goto(c, from, to) == pc[c] = from /\ pc' = [pc EXCEPT ![c] = to]

\* s.lookups.Add(1), for the next IP of the batch or the first of a new one.
Begin(c) ==
    /\ Goto(c, "idle", "counted")
    /\ lookups < MaxLookup
    /\ lookups' = lookups + 1
    /\ answers' = [answers EXCEPT ![c] = IF Len(@) = MaxBatch THEN <<>> ELSE @]
    /\ UNCHANGED <<db, hits, errors, misses, abandoned, loaded, scrape, version>>

\* The client asks for fewer than MaxBatch IPs.
EndBatch(c) ==
    /\ pc[c] = "idle"
    /\ answers[c] # <<>>
    /\ answers' = [answers EXCEPT ![c] = <<>>]
    /\ UNCHANGED <<db, counters, pc, loaded, scrape, version>>

\* ParseAddr fails, or later the reader does.
Err(c) ==
    /\ \E from \in {"counted", "loaded"} : Goto(c, from, "error")
    /\ UNCHANGED <<db, counters, loaded, answers, scrape, version>>

\* Variant: only the first lookup of a batch sees the database installed last.
LoadOlder(c) ==
    /\ Goto(c, "counted", "loaded")
    /\ loaded' = [loaded EXCEPT ![c] = IF answers[c] = <<>> THEN db ELSE 0]
    /\ UNCHANGED <<db, counters, answers, scrape, version>>

\* s.db.Load(): each lookup of a batch loads it again.
Load(c) ==
    /\ Goto(c, "counted", "loaded")
    /\ loaded' = [loaded EXCEPT ![c] = db]
    /\ UNCHANGED <<db, counters, answers, scrape, version>>

\* Variant: a hit adds to the lookups as well.
FoundTwice(c) ==
    /\ Goto(c, "loaded", "hit")
    /\ hits' = hits + 1
    /\ UNCHANGED <<db, lookups, errors, misses, abandoned, loaded, answers, scrape, version>>

Found(c) ==
    /\ Goto(c, "loaded", "hit")
    /\ UNCHANGED <<db, counters, loaded, answers, scrape, version>>

\* The lookup returns and its result is appended to the batch.
Answer(c) == answers' = [answers EXCEPT ![c] = Append(@, loaded[c])]

Miss(c) ==
    /\ Goto(c, "loaded", "idle")
    /\ misses' = misses + 1
    /\ Answer(c)
    /\ UNCHANGED <<db, lookups, hits, errors, abandoned, loaded, scrape, version>>

Hit(c) ==
    /\ Goto(c, "hit", "idle")
    /\ hits' = hits + 1
    /\ Answer(c)
    /\ UNCHANGED <<db, lookups, errors, misses, abandoned, loaded, scrape, version>>

\* The error is reported for this IP; the batch goes on.
CountError(c) ==
    /\ Goto(c, "error", "idle")
    /\ errors' = errors + 1
    /\ UNCHANGED <<db, lookups, hits, misses, abandoned, loaded, answers, scrape, version>>

\* The reader panics: recoverHTTP answers 500, the interceptors Internal, to the
\* whole request, and the server goes on.
Panic(c) ==
    /\ Goto(c, "loaded", "idle")
    /\ abandoned' = abandoned + 1
    /\ answers' = [answers EXCEPT ![c] = <<>>]
    /\ UNCHANGED <<db, lookups, hits, errors, misses, loaded, scrape, version>>

-----------------------------------------------------------------------------
(***************************************************************************)
(* Stats: the three counters are loaded one after the other.                *)
(***************************************************************************)
ScrapeLookups ==
    /\ scrapePc = "idle"
    /\ scrapePc' = "lookups"
    /\ last' = sample
    /\ sample' = [sample EXCEPT ![1] = lookups]
    /\ UNCHANGED <<db, counters, client, version>>

ScrapeHits ==
    /\ scrapePc = "lookups"
    /\ scrapePc' = "hits"
    /\ sample' = [sample EXCEPT ![2] = hits]
    /\ UNCHANGED <<db, counters, client, last, version>>

ScrapeErrors ==
    /\ scrapePc = "hits"
    /\ scrapePc' = "idle"
    /\ sample' = [sample EXCEPT ![3] = errors]
    /\ UNCHANGED <<db, counters, client, last, version>>

(***************************************************************************)
(* handleVersion: DB() for the nil test, then again for the metadata, for   *)
(* build_epoch and for build_time.  (gRPC's Version loads it once.)         *)
(***************************************************************************)
TestDB ==
    /\ versionPc = "idle"
    /\ versionPc' = "tested"
    /\ described' = <<>>
    /\ UNCHANGED <<db, counters, client, scrape>>

Describe(from, to) ==
    /\ versionPc = from
    /\ versionPc' = to
    /\ described' = Append(described, db)
    /\ UNCHANGED <<db, counters, client, scrape>>

Next ==
    \/ Reload
    \/ \E c \in Client :
         \/ Begin(c) \/ EndBatch(c) \/ Err(c) \/ Load(c) \/ Found(c)
         \/ Miss(c) \/ Hit(c) \/ CountError(c) \/ Panic(c)
    \/ ScrapeLookups \/ ScrapeHits \/ ScrapeErrors
    \/ TestDB
    \/ Describe("tested", "metadata")
    \/ Describe("metadata", "epoch")
    \/ Describe("epoch", "idle")

Spec == Init /\ [][Next]_vars

-----------------------------------------------------------------------------
(***************************************************************************)
(* No lookup is lost to the counters or counted twice: each one is in       *)
(* flight, a hit, an error, a miss, or one that panicked.  Misses and panics*)
(* are not counted by the code but here: those who read the counters see no *)
(* more than lookups >= hits + errors.  Of a scrape, which may lie between  *)
(* two of these steps, this says nothing.                                   *)
(***************************************************************************)
CountersAddUp ==
    lookups = hits + errors + misses + abandoned
              + Cardinality({c \in Client : pc[c] # "idle"})

(***************************************************************************)
(* Each counter a scrape reports is at least what the scrape before it      *)
(* reported, over reloads too: what a Prometheus counter must be.           *)
(***************************************************************************)
ScrapesMonotone == \A k \in 1..3 : last[k] <= sample[k]

(***************************************************************************)
(* A batch that a reload overlaps is answered from the old database up to   *)
(* some IP and from newer ones after it: it never goes back.                *)
(***************************************************************************)
BatchNeverGoesBack ==
    \A c \in Client : \A j \in DOMAIN answers[c] :
        /\ answers[c][j] <= db
        /\ j > 1 => answers[c][j - 1] <= answers[c][j]

(***************************************************************************)
(* What the README says of /version: it names one build.                    *)
(***************************************************************************)
VersionNamesOneBuild ==
    versionPc = "idle" => \A j, k \in DOMAIN described : described[j] = described[k]
=============================================================================
