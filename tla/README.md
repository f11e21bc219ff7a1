# A TLA+ development of cloudip

cloudip builds a database that attributes IP networks to cloud providers (and
to reputation feeds and origin ASNs) and serves lookups from it. This directory
models the parts of it that are hard to test: the hot swap of the database under
concurrent lookups, its crash-safe publication, the merge that decides who owns
an address, the collection of feeds that may fail at any point, the enrichment
by ASN, what a reader finds in the file, the request handlers and the server
process around them. Paths below are relative to `src/`.

## Inventory

| Part | State | Operations | What makes it correct |
|---|---|---|---|
| **Service** (`server/service.go`) | the atomic pointer, `closed`, the mutex, one grace timer per retired handle, three counters | `NewServiceIndexed`, `load`, `Reload`, `Close`, `Lookup`, `LookupProvider`, `Stats` | a lookup never reads an unmapped page and answers from one database; a bad file never replaces a good one; no handle is leaked or closed twice; nothing is installed after `Close` |
| **Publication** (`attribution/sync.go`, `cmd/cloudattr/build.go`, `cmd/cloudattr/query.go`) | the file at `--out`, the CSV, temp files, what of them the disk has | `verifyCount`, `BuildFile`, `syncDir`, `exportCSVFile` | the path always holds a whole verified file, after any crash too; guards refuse a shrunken build; a failed run changes nothing |
| **Merge** (`attribution/build.go`, `attribution/storage.go`) | the search tree | `Build`, `normalizePrefix`, `prefixToIPNet`, `mergeRecords`, `toMMDB` | a listed network fills the addresses it means and no other; first writer owns an address, categories accumulate, other fields only within a provider |
| **Collection** (`cmd/cloudattr/build.go`, `attribution/pipeline.go`, `attribution/source.go`) | the plan the flags make, the current feed, its body, the buffer, the list of failures | `runBuild`'s choice of feeds, `loadASNTable`, `Collect`, `CollectResilient`, `ConcatEntries`, `HTTPSource.Open`, `DigestSource.Open` | a feed contributes whole or not at all, in order, from a body that matches its pin; bodies are closed; retries end |
| **ASN enrichment** (`attribution/asn.go`) | the table, the position in the entry being cut | `NewASNTable`, `CoalesceASNRanges`, `EnrichASN` | the table is disjoint and sorted; the pieces partition the entry; each has the right origin |
| **Handlers** (`server/http.go`, `server/grpc.go`, `server/recover.go`) | per-request progress | single and batch lookup, `/metrics`, `/version`, `/healthz`, recovery from a panic | counters add up; an answer that takes several loads is consistent |
| **Server process** (`cmd/cloudattr/serve.go`) | signals, the SIGHUP channel, two servers, the reload goroutine | `runServe`, `serve`, `shutdown` | a SIGHUP is never lost; reloads are joined before `Close`; shutdown ends |
| **Reader, verify, export** (`attribution/reader.go`, `verify.go`, `export.go`) | the mmap, the optional index | `Open`, `Validate`, `BuildIndex`, `Lookup`, `Networks`, `Verify`, `ExportCSV` | index and decoder agree; a bad file is refused |
| **Plugins** (`plugins/`, `attribution/rezmoss.go`) | how far the parse has come | streaming parsers | each format is read as published; a body that is cut short is an error |
| Registry, command line, generated protobuf, benchmarks | - | - | not modelled (see `PROJECT.json`) |

How they interact: a `build` process collects feeds, merges them and publishes a
file; a `serve` process maps that file and, on SIGHUP, maps its replacement. The
two share nothing but the path. Inside `serve`, request goroutines, the SIGHUP
goroutine, the grace timers and the deferred `Close` share the Service.

Hard behaviours: the interleaving of lookups, reloads, timers and `Close`; steps
of a build that fail one at a time, a kill or a crash between any two; builds
that overlap; feeds that fail, are cut or are tampered with halfway; the order of
entries; boundaries of ranges and of fractions. `PROJECT.json` lists each hazard
at its line with the properties that cover it.

## Modules

| Module | What it is |
|---|---|
| `HotSwap` | abstract: one current database, lookups bound to it, a switch that closes |
| `Service` | the Service, one action per step another goroutine can see; implements `HotSwap` |
| `MCService` | its instances |
| `ServiceProofs` | inductive invariant, safety theorems, refinement |
| `AtomicFile` | abstract: a path whose content is replaced at once, and its durable counterpart |
| `Publish` | builders sharing a directory, the page cache and the disk; implements `AtomicFile` twice (database and CSV) |
| `MCPublish` | its instances |
| `PublishProofs` | what holds of the database file for any number of builders, runs and crashes |
| `MergeTree` | `Build` and the merge, over any sets of addresses |
| `PrefixTree` | the networks as the feeds list them, with their bits: `normalizePrefix`, `prefixToIPNet`, the insert; drives `MergeTree` |
| `TreeProofs` | who owns an address and whose categories it has, for every feed; `PrefixTree` implements `MergeTree`; an address has a record exactly if a listed network claims it |
| `Reader`, `MCReader` | lookups and the walk that `BuildIndex`, `Verify` and `ExportCSV` make, over the tree `PrefixTree` builds, and an instance of all three |
| `ReaderProofs` | honest networks, and an index, a CSV and a report that agree with `Lookup`, for every tree |
| `Collect`, `MCCollect` | flags, fetching, hashing, parsing and handing on of feeds, and instances |
| `CollectProofs` | whole feeds, pins and closed bodies for any registry and command line |
| `Enrich`, `MCEnrich` | the ASN table and the splitting of an entry, and an instance |
| `EnrichProofs` | normal table, first row wins, partition and origins for any table and entry |
| `Serve` | the server process: signals, the reload goroutine, shutdown |
| `ServeProofs` | what still runs when the database is closed, for any number of clients and signals |
| `Handlers`, `MCHandlers` | lookups, batches, panics, `/metrics` and `/version` over a pointer that moves |
| `HandlersProofs` | counters, scrapes and batches for any number of clients and reloads |

### Service

A *handle* is one mmap. `status` says whether it is mapped; `Unmap` is
`DB.Close`, and closing a handle twice is remembered. `Open`, `Reject`, `Accept`
are `load`; `LockReload` to `Retire` are the body of `Reload` under the mutex,
with the test of `closed`, the swap and the start of the timer as separate
steps; `Expire` is the timer; `LockClose` to `CloseCurrent` are `Close`. A lookup
is three steps: the pointer load (`LoadPointer`), the reader's own check and
start (`StartRead`, or `FindClosed`), and the end of the read (`FinishRead`),
which faults if the mapping is gone, and otherwise returns the answer of that file
or the error of a record that does not decode (`Replies`). `Publish` puts another file
at the path: one that `Open` refuses, that `Validate` refuses, that the index cannot
decode ("undecodable", which `load` accepts when there is no index), one in which the index
decodes every provider and region but some record does not decode whole ("partial", which `load`
always accepts), or a good one. Before Close a lookup of the last kind never fails, and one of the
two kinds before it may, on its own records: `HotSwap` allows an error for what is in the
database a lookup is bound to, or after Close, and for nothing else. A mapping is taken by
`Open` in a fixed order (`NextHandle`); which one it is makes no difference. Any number of Reloads and Closes may overlap, and Close may be
called again after it returned, more than `serve` ever does, because `Service` is
written to allow it. `Publish` of this module is all the file system does to the
Service, and it may do more than module `Publish` lets it: whatever the builders
promise of the path, the Service is checked without it.

Time is counted in ticks since a handle was retired and since a lookup loaded
its handle. The one assumption is the one the comment on `closeGrace` makes:
`MaxLookup < Grace`, no lookup takes as long as the grace period. A timer may
fire late but not early.

Fairness (`FairSpec`): every runnable goroutine step is weakly fair, as the Go
scheduler is preemptive; the lock acquisition of `Reload` is strongly fair,
as a `sync.Mutex` in starvation mode is handed to each waiter; timers that are
due fire. Nobody is obliged to call `Reload`, `Close` or `Lookup`, nor is a file
ever obliged to appear.

### Publish

Files are named by the run that made them; run 0 is what stood there first,
which may be a bad file. The kernel's cache (`dbData`, `dbName`) and the disk
(`dbDisk`, `dbNameDisk`) are apart: data and directory entries are written back
at any time in any order, `Sync` and `SyncDir` force it, and `Crash` leaves what
the disk has. Every step may fail (`Fail` is the deferred removal of the temp
file), a builder may be killed anywhere. Entries are abstracted to the number of
networks and whether the skip guard trips; `Verify`'s verdict is the `state` of
the file. After a crash the model does not track which temp *names* reached the
disk; `NoStrayTemp` is about runs without a kill or crash. `DropNum = 0` is
`--max-drop 0`, which turns the drop guard off.

### MergeTree and PrefixTree

mmdbwriter calls the merge function once for each slot of the tree a network
covers, so the tree is a map from addresses to records and an insert is
pointwise. In `MergeTree` a network is any set of addresses; slices that the code
sorts and deduplicates are sets. The log of inserted entries is a history variable
the properties are stated with; it does not influence a step. Entries come in
streams, one after the other, as `ConcatEntries` hands them on.

`PrefixTree` says which set a listed network is. Addresses are numbers of
`V6Bits` bits, IPv4 is the low block, and the aliases of IPv4 are no slots of their
own. `NormalizePrefix` and `PrefixToIPNet` are the functions of the code, with the
arithmetic of their lengths; `CIDRMask` of a negative length, which mmdbwriter
takes for no bits at all, is what `Larger(0, ..)` is about. A network inside an alias is
refused and skipped; a larger one leaves the aliases out, as the tests of build.go
say of mmdbwriter.

### Reader

A leaf of the finished tree is the largest block of one content, IPv4's root and the
aliases being fixed nodes (two aliases are no part of each other, `DisjointAssumption`);
the records are shared by content, as mmdbwriter shares them by offset. `Lookup` and
`Contains` are operators of the tree. `Visit` is one round of the loops of `BuildIndex`,
`Verify` and `ExportCSV`: it takes the next leaf that has a record, in the order of the
addresses, decodes the record where the code does, groups its network in the index
(`idx`), counts it in the report (`rep`) and writes its row (`csv`). `Finish` is the end
of the loops: `d.idx` is set, and `LookupProvider` reads it from then on and scans before.
One walk drives all three loops because they range over the same leaves of a file that
no longer changes and share no state. `ReaderNext` runs Build first and the walk when the
file is written, so the run explores every tree a build can leave. maxminddb-golang is
external, modelled from the comments and tests of reader.go.

### Collect

One build. `Flags` is its command line, `Accepted` what `runBuild` requires of it, and
`Plan` the feeds in the order they are read: with `--with-asn` the table first, then
the selected plugins of the registry, or the one document of `--source rezmoss-all`,
then those of `--with-reputation`. For each feed the plan has the parser (the
plugin's own, or rezmoss's), which of its refs it is read under, and whether it is
isolated (`CollectResilient`) or streamed (`Collect`).

`Respond`, `NetworkError`, `BadStatus`, `Abandon`, `Retry`, `Exhausted` and `Refused` are
`HTTPSource.Open`: a response with a status other than 200 has a body too, which is open
until the status has been looked at and the try is given up or the feed is; `Hash`, `Unread` and
`Mismatch` are `DigestSource.Open`; `Parse`, `ParseFails`, `Undecodable`, `EmptyTable` and
`End` are the parser under `bufferFeed`, `collectFeed` or `loadASNTable`; `Deliver`
hands a buffer on. A body has some rows and an end (`full`, `badrow`, `inverted`, `garbled`,
`cut`, `gap`), and it is genuine or not. What a parser makes of each end is `ParseOf`: the
document parsers decode everything first, the line parsers scan and report the
scanner's error, the rezmoss parsers decode record by record and take a read error
between two records for the end of the array. A row of the ASN table whose two addresses
parse and make no range ("inverted") is no error to `iptoasn.ParseTable`. `NewASNTable`
drops it from the table of `--with-asn` without a word (`ParseTable` of the module), and the build goes on
with the other rows, as long as a range is left (`EmptyTable`); an `--asn` feed reports it, after
the entries of the rows sorted before it (`ParseASN`). A pin belongs to a ref: a plugin has one on the
rezmoss mirror, one for its own files and mirrors, and perhaps a URL (`RefOf`), and a
pin for one does not hold the others. `--reputation-source` and `--asn-source`, where they
go with `--with-reputation` and `--with-asn`, are at their default. A stream of lines, or a local file, that ends early
*without* a read error looks like a shorter feed to the code and to the model.
`FileSource` has no retries, and what it reads is a body like any other.

Fairness: the collection is one goroutine that waits for nothing but the HTTP
client, whose timeout covers request and body.

### Enrich

Rows are what `NewASNTable` lets through: both bounds in one family and in order.
Addresses are integers, IPv4 below IPv6; `NextAddr` of the last address of a
family is not an address, as with `netip.Addr.Next`. Input rows come sorted by
first address, rows with the same first address in any order (`sort.Slice` is not
stable). A piece is a range; netipx cuts it into CIDRs, which adds and loses no
address.

### Handlers

Every load of the pointer or of a counter is a step. A reload installs a newer
database; `serve` runs one `Reload` at a time, so versions never go down. A lookup
may panic while it reads (`Panic`): recovery ends its request, and with it the
batch, but not the process, and the lookup stays counted without a hit, a miss or
an error; `abandoned` counts those, which the code does not.

### Serve

`main` is where the main goroutine of `runServe` is; `MainStep` is one of its
steps, `ReloadStep` one of the SIGHUP goroutine's, `ServerStep` one of a server
goroutine's. `hup` and `errc` are the two channels. A signal that is not caught
(before `Notify`, after `stop` or `signal.Stop`) kills the process. A Reload is a
load and an install; what it does under the Service's mutex is in `Service`.
net/http and grpc-go are external: `Shutdown` returns when no request is left or
gives up, `GracefulStop` waits, and a `Serve` that comes after either closes its
listener and returns.

Fairness: the goroutines of the process run, and `Serve` returns once it is told
to stop (`FairSpec`). `PoliteSpec` adds that clients end their calls, which the
code cannot ensure: `serve` needs it for `Stops`, and `serve_hang` shows that it
does. HTTP requests need not end, because `Shutdown` does not wait for them.

## Runs

| Run | Shows | Bounds, and why they are enough |
|---|---|---|
| `service` | type, `InFlightStaysMapped`, `ServesLoadedDatabase`, `NoDoubleClose`, `NoLeak`, `NoInstallAfterClose`; under fairness `ImplementsFairHotSwap`, `NoMappingLingers`, `ReloadReturns` | 3 mmaps (one serving, one retired, one coming), 1 client, 2 overlapping Reloads, a Close that is called again, grace of 2 ticks against lookups of 1. Lookups do not see each other. Liveness rules `SYMMETRY` out, so the first handle is chosen (any other is like it) and later ones are taken in a fixed order; the first file is a good one, as the others come as replacements. The proofs remove every bound and both choices of the first, and none of them uses the order of the handles |
| `publish` | `ImplementsAtomicFile`, a failed run replaces nothing | 2 overlapping builders, 2 runs, 1 kill or crash anywhere |
| `publish_solo` | no stray temp file, the CSV is atomic and matches the database, the drop guard, durability | 1 builder, 2 runs with `--csv`, 1 crash; `--max-drop` one third, so that the fraction and its complement differ |
| `publish_failed` | *violated*: a run whose CSV export fails has replaced the database | 1 builder, 1 run |
| `reader` | who owns an address, whose services, categories and ext it has, which addresses a listed network claims; that Lookup, the index, the CSV and Verify agree | IPv4 of 2 bits in an IPv6 of 5, two aliases of different lengths; 6 networks: IPv4 and IPv6 with host bits, 4-in-6, too short for 4-in-6, around everything and inside an alias; 2 cloud providers, 1 reputation provider with 2 records, 3 entries: a first writer, another provider, and a second entry of the first. The proofs remove every bound |
| `collect` | whole feeds in order, pins, closed bodies, termination | every command line over 2 cloud plugins (one without a URL of its own), 1 reputation plugin and the table; pins for some refs of a plugin and not for others; 2 tries, bodies of up to 2 rows with every end |
| `collect_truncated` | *violated*: a truncated feed contributes nothing | as `collect` |
| `enrich` | normal table, first row wins, partition, right origins | 4 IPv4 and 2 IPv6 addresses, every CIDR, every sorted table of up to 3 rows of 2 origins: containment, overlap, adjacency, gaps and both ends of both families occur |
| `handlers` | counters add up, scrapes and batches never go back | 2 clients, 3 lookups, batches of 2, 1 reload, a panic of any lookup |
| `serve` | no SIGHUP is lost, nothing runs at `Close` but what Shutdown gave up on, server goroutines can end, the process ends | 1 request, 1 call, 2 versions and 3 SIGHUPs: one being handled, one waiting in the channel, one dropped |
| `serve_hang` | *violated*: the process ends whatever its clients do | 1 call |
| `version_torn` | *violated*: `/version` names one build | 1 reload |

Deadlock is checked in `service`, `publish` and `publish_solo`; it is off where the
system comes to an end (a build that is over, a process that has exited, counters
at their bound). Type invariants other than the Service's are proved and not run.

## What the violated runs say

* A run that fails may have published (`publish_failed`): `--csv` is exported
  after the rename. The systemd unit says a failed run leaves the previous
  database in place, and it does not reload the server after such a run.
* A BatchLookup stream that its client never ends keeps the process from ending
  (`serve_hang`): `GracefulStop` has no timeout, and until `stop()` runs a second
  SIGTERM is swallowed as well. The comment on `serve` and its test speak of a
  clean shutdown; the test has no stream open.
* A rezmoss download that breaks off after a whole record, before the comma, is
  built as if it were the whole feed (`collect_truncated`): `json.Decoder.More` is
  false on a read error too, and neither rezmoss parser looks for the closing bracket.
  The comment on `CollectResilient` names a truncated download as the case it is
  there for. With a digest the same read error is reported, as `DigestSource` reads
  the body itself.
* `/version` (`version_torn`) takes each of its fields from the database current
  at that moment; the gRPC `Version` loads the pointer once.

Noted while reading, without a run of their own: the drop guard compares with the
count taken before the feeds were fetched (build.go:104-109), so with builds that
overlap the file it replaces is another one than README.md:299-300 suggests, and
`DropGuardHolds` is checked for a single builder only; services and ext of
different providers do not union, as README.md:367 says, but stay the owner's, as
README.md:128 and `mergeRecords` say and `OwnerFields` proves; a SIGHUP sent while
`serve` still loads its first file ends the process, since it is not caught yet; README.md:342-345 ("any
fetch/parse error aborts the whole build") and the comment on `DigestSource`
("a changed payload fails the build") hold with `--keep-going=false`, which is
not the default; the comment on `Stats` calls its three separate loads a
snapshot; the comment in `mergeRecords` says plugins are sorted by name, which
`selectFrom` does only when no `--providers` are given.

## Proofs

TLAPS checks every proof below; each theorem holds for every value of the
constants that satisfies the named `ASSUME`s of its module.

**`ServiceProofs`.** Assumptions: `MaxLookup < Grace`, `MaxVersion` is a natural
number, `None` is no handle, actor or version, and Reloads and Closes are different
actors. `InFlightStaysMapped` is not inductive: that a
held handle is mapped depends on how long ago it was retired and how long ago it
was loaded. `Inv` adds

* `Owners` and `Timers`: a busy Reload owns a mapped handle that no other actor
  knows of; a timer runs for a mapped handle that is not the current one;
* `Holders`: a held handle is the current one, one that a Reload is about to
  retire, or one whose timer started after the lookup did (its age is at most
  the lookup's, and so below `Grace`);
* `Mutex`: one Reload or Close is between Lock and Unlock, and `closed` is FALSE
  from the moment a Reload has seen it so until it has retired the old handle;
* `Current`: the current handle was accepted and stays mapped until Close unmaps
  it; the same of what a Reload is about to install.

From it follow `TypeCorrect`, `NoLookupUnmapped` (no lookup is left without its
mapping), `AlwaysServes`, `ClosedOnce`, `NoneLeaked`, `CloseIsFinal`, and
`HotSwapImplemented`: the refinement of `HotSwap`, with the current database (its version,
and whether all its records decode) and each client's binding as the mapping. It needs one more
assumption, `DatabaseAssumption`: `None` is no database.

`ServedGoesForward` and `AnswersGoForward` are about the versions of the files, for one goroutine
that calls Reload (`OneReload`), which is how `serve` calls it: what is served never goes back to an older file,
and neither do the answers a client gets. `load` runs before the mutex is taken, so of two Reloads the
slower installs what it opened first and both properties fail: the hypothesis is needed. Their invariant, `Versions`, orders what is at the path, in the hands of a
Reload, served, held by a lookup and answered.

Two theorems are the safety in `ReloadReturns`. `MutexHasRunningOwner`: a Reload that has opened a
file has a step to take, or it waits for `mu` and the owner of `mu` has one, so that no
return path keeps the mutex and nobody waits in a circle. `ReloadStepsRunOut`: each of its own
steps brings a Reload, or a Close that owns `mu`, nearer to its return, and no step of
another goroutine takes it back. That the scheduler runs them, and hands `mu` to
each waiter, is the fairness.

**`PublishProofs`.** Assumptions: bounds, fractions and `None`; nothing about
the number of builders, runs or crashes. `ImplementsAtomicFile` needs to know
that the file being renamed is whole *on disk* and that nobody still writes a
file the path names. `IInv` says so: runs are numbered apart (`Stamped`), the
path and its durable entry never name a file in progress (`Unnamed`), what each
step has established about the temp file (`Checked`), and that named files are
whole in the cache and on disk alike (`Sound`). `FailedRunHarmless` and
`NothingLeftBehind` each add one conjunct to it. The first assumes `~WithCSV`:
with `--csv` it is false, as `publish_failed` shows.

`AtomicCSVImplemented` repeats the argument for the CSV: `CsvInv` says that it is whole,
on disk too, before it gets its name, and that nobody writes one that has it. Three theorems assume `SingleBuilder`, which says that no two builders
differ: with two, another run may replace the file between the count and the
rename, and the CSV of one may land beside the database of the other.
`GuardHolds` carries the count that was read up to the rename (`Guarded`: nobody
else moves the path meanwhile); `SyncedSurvives` that what a finished run left is what
the disk has (`Kept`); `CsvListsDatabase` that the CSV was read from the file the
path names (`Listed`).

**`TreeProofs`**, on `MergeTree`: for every feed, every set of prefixes and any number of
entries. `FirstWriterOwns` mentions the first entry that covered an address if
there is one; `Owned` adds that there is, which stands in for the least-element
argument. `Provenance` (an entry is logged under the stream it came from, and
streams come in order) gives `EarlierStreamOwns`. `MergeFacts` and `ToMMDBType`
say what the operators return; `InsertFacts`, `CoveringStep`, `FirstStep` and
`MatesStep` what an insert does to the sets the properties are stated with.

On `PrefixTree`: every step of Build's loop over listed networks is a step of
`MergeTree` (`MergeImplemented`), whose theorems so hold of it (`RecordsOfLoop`).
`ClaimsAlwaysHonoured` is about bits: a network of IPv4, mapped or not, fills the
addresses it contains, after the length has been shifted and the host bits
masked, for any widths. The lemmas are those of division by powers of two, and as
the provers know nothing of `^`, `PowerAssumption` states the two facts of it they need
(`2^m` is a positive number, `2^(m+n)` a product), which TLC evaluates.

**`ReaderProofs`.** For every width of addresses with at least one bit of IPv4, every set
of disjoint aliases and every tree; assumptions `BitsAssumption`, `PowerAssumption` and
`DisjointAssumption`. First the leaves: every address has one (`DepthFacts`), those of IPv4 lie
below its root (`LeafOfIPv4`) and none reaches into an alias
(`LeafInTree`); two addresses that agree down to the leaf of one have the same leaf and
the same content (`SameLeaf`). Then the prefix
`Lookup` reports: in IPv4, in IPv6 and in an alias, where the address is cut at both
ends (`ModDiv`, `MaskMod`), every address inside it ends in the same leaf (`ResultFacts`),
and unmapping keeps that (`MappedLookup`): `NetworkHonest`. The walk is harder to see
through, and its properties say nothing of a walk under way. `ReaderInv` does, of the leaves met
so far, those below `at`: the index has each of them, and no wrong identity (`IndexInv`); there
is one row for each (`CsvInv`); the report counts and bounds their records (`ReportInv`);
and the walk is over only when no leaf is left (`WalkInv`). `IndexAgrees`, `ExportMatches` and
`VerifyHonest` follow with what relates the leaves to the answers of `Lookup`: every answer
is the row of a leaf (`AnswersAreRows`), different leaves have different rows
(`RowsDiffer`), and the range of a row is its leaf (`RangeIsLeaf`). `TreeImplemented`
says that the walk leaves the tree alone, which carries the theorems of `TreeProofs` over.

**`CollectProofs`.** For any registries, command lines, pins, tries and bodies.
`AllOrNothing` speaks of feeds that are over; `Position` says that nothing was given
up or handed on before its turn, `Current` that what the feed being read has
handed on is the end of the output and its buffer the parsed part of its body, `Settled`
that every earlier feed was complete or isolated and absent, and `Compared` that a
body is parsed only after it matched its pin. `WholeOrNothing`, `PinsHold` and
`BodiesClosed` follow. That the feeds reach Build in the order of the plan (`InPlanOrder`, part of
`AllOrNothing`) holds at every moment, of a build that is going to fail as well: what the
current feed has handed on is last in the output, and the next entry comes after it
(`HandedInOrder`). The plan puts cloud feeds before those of `--with-reputation`, so `TreeProofs` may take
the streams to come in order, which `EarlierStreamOwns` rests on. `EveryStepProgresses` is termination without the fairness: what is
left to do (the plan, the feeds, the tries and stages of the current one, its entries)
gets smaller with every step, in a lexicographic order that `DescentEnds` shows to have
no infinite descent. `Ends` adds that a collection that is not over has a step, which is about
ENABLED and stays with TLC. "Complete" includes that the parser saw what it takes for the
end of the body: that this may be wrong is `collect_truncated`. For the table of `--with-asn` the theorem
says that its body was read to the end, that every row parsed and that a range was left, and no
more: rows that are no range are missing from it, as the code has it.

**`EnrichProofs`.** For any address space, rows and entry. That coalescing keeps the
table ascending and minimal needs no more (`AbsorbInv`, by its three outcomes:
nothing left, merged, appended). That the first row wins does: `Newest` says that
from the start of the newest row to the end of the table no address is free, so what
the next row overlaps already has an earlier owner. For `enrichEntry`, `Position` says
where the loop is in the table, and `Cut` that what it has yielded is a correct cut of
the entry up to the address before `cur`; `Extend` adds a piece. The binary search
is used through the least candidate, which `LeastNat` shows to exist. `LoopsEnd` is the
termination of both loops, by the rows to come and the addresses left from `cur` on: a
turn of `enrichEntry` that is not the last has an address after it, also at the end of
IPv4 and of IPv6, where `Next` has none.

**`HandlersProofs`.** Assumption: the clients are finitely many. `CountersAddUp` is
the sum with the lookups in flight; `Room`, `Loaded` and `Scraped` carry what a batch
and a scrape under way have seen. A panic moves a lookup from those in flight to those
abandoned. Misses and panics are counted by the model only, so the sum says that no path of a
lookup bumps a counter twice or leaves one out, not that a reader of `/metrics` could check it; of
a scrape, whose three loads may lie around other lookups, only `ScrapesGrow` speaks.

**`ServeProofs`.** Assumptions: bounds, and requests and calls are different
clients. `QuiescentAtClose` speaks of one moment, after shutdown; the invariant
carries what each step of the shutdown has achieved up to it. `Started`: a client
runs at a server that was started, and a listener outlives the stop of its server
only for `Serve` itself to close. `Told`: by the time shutdown waits for a server,
that server refuses clients. `Drained`: what shutdown has waited for is over, and by
`Told` stays over. `Reported` bounds the error channel by the servers that have
ended, and gives `ReportNeverBlocks`. `HupsKept` is the safety in `HupHeard`: as long as the
wanted file has not been opened, a signal is in the channel or a load is under way, however
many signals the runtime dropped; what is left of `HupHeard` is that the goroutine runs.
`ReloadsGoForward` says that the database never goes back to an older file, for the one
goroutine that calls Reload, one call at a time (as `ServedGoesForward` does where the steps of
Reload, of lookups and of Close interleave); `Handlers` takes it as given. Both rest on `InOrder`: a file is served after it is opened and opened
after it stands there.

The safety in `Stops` has two parts. `WaitsOnlyForClients`: unless it is gone or serves with no
reason to stop, the process has a step of the main or of the reload goroutine to take, or
GracefulStop waits for calls; in particular `wg.Wait` never waits for a goroutine that
nobody has told to end, or that was never started (`Joinable`). This is where `serve_hang` finds its
counterexample, and there is no other place for one. `ProcessRunsOut`: whatever happens, except a request
or call that begins or ends, lowers a natural number (`WorkLeft`), in which a signal costs more
than the Reload it asks for: as signals and files are bounded, the process cannot turn in a circle. What is left of
`Stops` is that goroutines run and that calls end.

**Only model-checked.** Liveness, which the prover does not do: `ImplementsFairHotSwap`,
`NoMappingLingers` and `ReloadReturns` of the Service, `Ends`, `HupHeard` and `Stops`. Their safety
halves are proved where they have one (`HotSwapImplemented`, `NoneLeaked`,
`MutexHasRunningOwner`, `ReloadStepsRunOut`, `EveryStepProgresses`, `HupsKept`, `WaitsOnlyForClients`,
`ProcessRunsOut`). "Has a step to take" is stated by the guards of the steps, as the prover has no ENABLED. Every invariant and action property of the passing runs is a theorem.

## Not modelled, and why

See `components` in `PROJECT.json`. In short:

* formats: the fields of a record a parser fills in (dates, services, categories), the
  text of a CSV row, JSON and protobuf conversions, status codes;
* the region and the IPv6 flag of a record travel together as `region`, which no merge
  changes, and so does the source;
* netipx's cutting of a piece into CIDRs, mmdbwriter's serialization;
* of `Verify`'s report, the counts of IPv4 and IPv6 networks and the error for a record
  without a provider;
* the lengths of backoffs, the batch limit, `/healthz`;
* registration of plugins, the command line's parsing and printing, generated code: no
  state of their own.

A network around `::/96`, such as `::/0`, claims IPv4 in the code and in the
model (`Claims`); no feed lists one.

There is no composition of `Publish`, `Serve` and `Service`. They share the path of the file
and the calls `Reload` and `Close`: `Service` is checked against any file at any time, and with
more Reloads and Closes than `Serve` makes, so a composition would restrict each
module to behaviours its own run already has.

## Plan

Done: all components with a state, a proof module for each, a theorem for each safety
property of the passing runs, and for the safety half of each liveness property. What is left, in order of worth:

1. `PiecesPartitionEntry` down to CIDRs, by a model of netipx's range cutting.
2. The drop guard with overlapping builders: what of `DropGuardHolds` survives without
   `SingleBuilder`.
3. `LookupProvider` under the hot swap: that index and file of one answer belong to one
   database, by composing `Service` and `Reader`.
