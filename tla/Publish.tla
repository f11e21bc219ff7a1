------------------------------- MODULE Publish -------------------------------
(***************************************************************************)
(* How `cloudattr build` publishes a database (cmd/cloudattr/build.go,      *)
(* attribution/sync.go) and the CSV derived from it (cmd/cloudattr/query.go)*)
(* in a directory shared by the runs of any number of builders.             *)
(*                                                                          *)
(* A run counts the networks of the existing file, builds into a temp file, *)
(* syncs it, applies the skip guard, verifies the file by reopening it,     *)
(* applies the drop guard, renames it over the path, syncs the directory    *)
(* and then exports the CSV from the path the same way.  Any step may fail. *)
(*                                                                          *)
(* Files are named by the run that made them: a run makes at most one       *)
(* database and one CSV.  The page cache and the disk are apart: the kernel *)
(* may write either data or a directory entry back at any time, in any      *)
(* order, and a crash leaves what the disk has.                             *)
(***************************************************************************)
EXTENDS Integers, FiniteSets

CONSTANTS
    Builder,               \* concurrent `cloudattr build` processes
    None,                  \* no file, no run, no previous report
    MaxRun,                \* bound on the runs ever started
    MaxCount,              \* bound on the networks and entries of a build
    MaxCrash,              \* bound on kills and machine crashes
    DropNum, DropDen,      \* --max-drop  = DropNum / DropDen
    SkipNum, SkipDen,      \* --max-skip  = SkipNum / SkipDen
    WithCSV                \* --csv is given

ASSUME BoundAssumption ==
    MaxRun \in Nat /\ MaxCount \in Nat \ {0} /\ MaxCrash \in Nat
ASSUME FractionAssumption ==
    /\ DropDen \in Nat \ {0} /\ DropNum \in 0..DropDen
    /\ SkipDen \in Nat \ {0} /\ SkipNum \in 0..SkipDen
ASSUME CSVAssumption == WithCSV \in BOOLEAN

Run == 1..MaxRun
\* Run 0 is whatever file stood at the path before the first run.
File == 0..MaxRun

ASSUME NoneAssumption == None \notin File \cup (0..MaxCount)

VARIABLES
    dbData,        \* what each database file contains
    dbDisk,        \* the same, on disk
    dbName,        \* the file at --out
    dbNameDisk,    \* the same directory entry, on disk
    csvData,       \* the database each CSV was exported from
    csvDisk, csvName, csvNameDisk,
    temps,         \* the temp names that exist: <<"db" or "csv", run>>
    pc,            \* where each builder is
    run,           \* the run it stamped last, 0 if none yet
    prev,          \* its count of the file that stood at --out, None if none
    skips,         \* its build skipped more than --max-skip
    source,        \* the database its CSV export opened
    result,        \* how its last run ended
    synced,        \* whether its syncDir reached the disk
    runs,          \* runs that stamped an epoch
    crashes        \* kills and machine crashes so far

db    == <<dbData, dbDisk, dbName, dbNameDisk>>
csv   == <<csvData, csvDisk, csvName, csvNameDisk>>
local == <<run, prev, skips, source, synced>>
vars == <<dbData, dbDisk, dbName, dbNameDisk, csvData, csvDisk, csvName,
          csvNameDisk, temps, pc, run, prev, skips, source, result, synced,
          runs, crashes>>

\* A whole database file; Open or Verify refuses a "bad" one.
Whole == [state : {"good", "bad"}, networks : 1..MaxCount]
Partial == [state |-> "partial", networks |-> 0]
DbContent == Whole \cup {Partial}
Good(c) == c.state = "good"
GoodBuild == {c \in Whole : Good(c)}

\* The content of a CSV is the file it lists, once it lists all of it.
Unwritten == -1
CsvContent == File \cup {Unwritten}

TypeOK ==
    /\ dbData \in [File -> DbContent] /\ dbDisk \in [File -> DbContent]
    /\ dbName \in File \cup {None} /\ dbNameDisk \in File \cup {None}
    /\ csvData \in [File -> CsvContent] /\ csvDisk \in [File -> CsvContent]
    /\ csvName \in Run \cup {None} /\ csvNameDisk \in Run \cup {None}
    /\ temps \subseteq {"db", "csv"} \X Run
    /\ pc \in [Builder -> {"idle", "counted", "created", "built", "synced",
                           "guarded", "renamed", "flushed", "exporting",
                           "exported"}]
    /\ run \in [Builder -> File]
    /\ prev \in [Builder -> (1..MaxCount) \cup {None}]
    /\ skips \in [Builder -> BOOLEAN]
    /\ source \in [Builder -> File]
    /\ result \in [Builder -> {"none", "ok", "failed"}]
    /\ synced \in [Builder -> BOOLEAN]
    /\ runs \in File
    /\ crashes \in 0..MaxCrash

Init ==
    /\ dbName \in {0, None}
    /\ dbNameDisk = dbName
    /\ \E c \in Whole : dbData = [f \in File |-> IF f = dbName THEN c ELSE Partial]
    /\ dbDisk = dbData
    /\ csvData = [f \in File |-> Unwritten] /\ csvDisk = csvData
    /\ csvName = None /\ csvNameDisk = None
    /\ temps = {}
    /\ pc = [b \in Builder |-> "idle"]
    /\ run = [b \in Builder |-> 0]
    /\ prev = [b \in Builder |-> None]
    /\ skips = [b \in Builder |-> FALSE]
    /\ source = [b \in Builder |-> 0]
    /\ result = [b \in Builder |-> "none"]
    /\ synced = [b \in Builder |-> FALSE]
    /\ runs = 0
    /\ crashes = 0

-----------------------------------------------------------------------------
Step(b, from, to) == pc[b] = from /\ pc' = [pc EXCEPT ![b] = to]
DbTemp(b) == <<"db", run[b]>>
CsvTemp(b) == <<"csv", run[b]>>

\* Stats.Skipped / (Inserted + Skipped) > maxSkipFrac
TooManySkipped(inserted, skipped) ==
    SkipNum > 0 /\ skipped * SkipDen > SkipNum * (inserted + skipped)

\* Variant: the fraction that may go is taken as the fraction that must stay.
DroppedFromKept(before, now) ==
    before # None /\ DropNum > 0 /\ now * DropDen < before * DropNum

\* rep.Networks < prev.Networks * (1 - maxDropFrac)
DroppedTooFar(before, now) ==
    before # None /\ DropNum > 0 /\ now * DropDen < before * (DropDen - DropNum)

\* Variant: a failed step leaves its temp file.
FailDirty(b, from, temp) ==
    /\ Step(b, from, "idle")
    /\ result' = [result EXCEPT ![b] = "failed"]
    /\ UNCHANGED <<db, csv, temps, local, runs, crashes>>

(***************************************************************************)
(* A step returns an error: the deferred Remove takes an uncommitted temp   *)
(* file away and the run ends.                                              *)
(***************************************************************************)
Fail(b, from, temp) ==
    /\ Step(b, from, "idle")
    /\ temps' = temps \ {temp}
    /\ result' = [result EXCEPT ![b] = "failed"]
    /\ UNCHANGED <<db, csv, local, runs, crashes>>

-----------------------------------------------------------------------------
(***************************************************************************)
(* A run up to the rename.                                                  *)
(***************************************************************************)
\* verifyCount(*out), before anything is fetched: an error means no report.
Count(b) ==
    /\ Step(b, "idle", "counted")
    /\ runs < MaxRun
    /\ prev' = [prev EXCEPT ![b] =
                   IF dbName # None /\ Good(dbData[dbName])
                   THEN dbData[dbName].networks ELSE None]
    /\ run' = [run EXCEPT ![b] = 0]
    /\ result' = [result EXCEPT ![b] = "none"]
    /\ UNCHANGED <<db, csv, temps, skips, source, synced, runs, crashes>>

\* The plugins, the ASN table or CreateTemp fail: no temp file was made.
Abort(b) == Fail(b, "counted", DbTemp(b))

\* BuildEpoch is stamped and CreateTemp makes an empty file.
Create(b) ==
    /\ Step(b, "counted", "created")
    /\ runs < MaxRun
    /\ runs' = runs + 1
    /\ run' = [run EXCEPT ![b] = runs + 1]
    /\ temps' = temps \cup {<<"db", runs + 1>>}
    /\ UNCHANGED <<db, csv, prev, skips, source, result, synced, crashes>>

\* Build consumes the entries and writes the tree to the temp file.
Build(b) ==
    /\ Step(b, "created", "built")
    /\ \E c \in Whole : dbData' = [dbData EXCEPT ![run[b]] = c]
    /\ \E inserted \in 1..MaxCount, skipped \in 0..MaxCount :
         skips' = [skips EXCEPT ![b] = TooManySkipped(inserted, skipped)]
    /\ UNCHANGED <<dbDisk, dbName, dbNameDisk, csv, temps, run, prev, source,
                   result, synced, runs, crashes>>

BuildFails(b) == Fail(b, "created", DbTemp(b))

\* Variant: the temp file is closed without a sync.
CloseOnly(b) ==
    /\ Step(b, "built", "synced")
    /\ UNCHANGED <<db, csv, temps, local, result, runs, crashes>>

\* tmp.Sync() and tmp.Close()
Sync(b) ==
    /\ Step(b, "built", "synced")
    /\ dbDisk' = [dbDisk EXCEPT ![run[b]] = dbData[run[b]]]
    /\ UNCHANGED <<dbData, dbName, dbNameDisk, csv, temps, local, result, runs,
                   crashes>>

SyncFails(b) == Fail(b, "built", DbTemp(b))

\* The skip guard, Open and Verify of the temp file, and the drop guard.
Publishable(b) ==
    LET c == dbData[run[b]]
    IN  ~skips[b] /\ Good(c) /\ ~DroppedTooFar(prev[b], c.networks)

Accept(b) ==
    /\ Step(b, "synced", "guarded")
    /\ Publishable(b)
    /\ UNCHANGED <<db, csv, temps, local, result, runs, crashes>>

Refuse(b) == ~Publishable(b) /\ Fail(b, "synced", DbTemp(b))

Rename(b) ==
    /\ Step(b, "guarded", "renamed")
    /\ dbName' = run[b]
    /\ temps' = temps \ {DbTemp(b)}
    /\ UNCHANGED <<dbData, dbDisk, dbNameDisk, csv, local, result, runs, crashes>>

RenameFails(b) == Fail(b, "guarded", DbTemp(b))

\* Variant: an error of syncDir fails the run, which is published by now.
SyncDirStrict(b) ==
    /\ \/ Step(b, "renamed", "flushed")
          /\ dbNameDisk' = dbName /\ synced' = [synced EXCEPT ![b] = TRUE]
          /\ UNCHANGED result
       \/ Step(b, "renamed", "idle")
          /\ result' = [result EXCEPT ![b] = "failed"]
          /\ UNCHANGED <<dbNameDisk, synced>>
    /\ UNCHANGED <<dbData, dbDisk, dbName, csv, temps, run, prev, skips, source,
                   runs, crashes>>

\* Variant: syncDir syncs the file again, not the directory.
SyncDirNoName(b) ==
    /\ Step(b, "renamed", "flushed")
    /\ synced' = [synced EXCEPT ![b] = TRUE]
    /\ UNCHANGED <<db, csv, temps, run, prev, skips, source, result, runs, crashes>>

\* syncDir: an error is ignored.
SyncDir(b) ==
    /\ Step(b, "renamed", "flushed")
    /\ \/ dbNameDisk' = dbName /\ synced' = [synced EXCEPT ![b] = TRUE]
       \/ UNCHANGED dbNameDisk /\ synced' = [synced EXCEPT ![b] = FALSE]
    /\ UNCHANGED <<dbData, dbDisk, dbName, csv, temps, run, prev, skips, source,
                   result, runs, crashes>>

-----------------------------------------------------------------------------
(***************************************************************************)
(* The CSV export, and the end of the run.                                  *)
(***************************************************************************)
Finish(b) ==
    /\ ~WithCSV
    /\ Step(b, "flushed", "idle")
    /\ result' = [result EXCEPT ![b] = "ok"]
    /\ UNCHANGED <<db, csv, temps, local, runs, crashes>>

\* Variant: the export opens --out as it was when the run counted it.
ExportOld(b) ==
    /\ WithCSV
    /\ Step(b, "flushed", "exporting")
    /\ \E f \in File : /\ dbData[f] \in Whole /\ dbData[f].networks = prev[b]
                       /\ source' = [source EXCEPT ![b] = f]
    /\ temps' = temps \cup {CsvTemp(b)}
    /\ UNCHANGED <<db, csv, run, prev, skips, result, synced, runs, crashes>>

\* exportCSVFile opens --out, whatever is there by now, and makes a temp file.
Export(b) ==
    /\ WithCSV
    /\ Step(b, "flushed", "exporting")
    /\ source' = [source EXCEPT ![b] = dbName]
    /\ temps' = temps \cup {CsvTemp(b)}
    /\ UNCHANGED <<db, csv, run, prev, skips, result, synced, runs, crashes>>

ExportFails(b) ==
    WithCSV /\ \E from \in {"flushed", "exporting", "exported"} : Fail(b, from, CsvTemp(b))

\* Variant: the rows are not synced.
WriteCSVOnly(b) ==
    /\ Step(b, "exporting", "exported")
    /\ csvData' = [csvData EXCEPT ![run[b]] = source[b]]
    /\ UNCHANGED <<db, csvDisk, csvName, csvNameDisk, temps, local, result, runs,
                   crashes>>

\* ExportCSV, Sync and Close.
WriteCSV(b) ==
    /\ Step(b, "exporting", "exported")
    /\ csvData' = [csvData EXCEPT ![run[b]] = source[b]]
    /\ csvDisk' = [csvDisk EXCEPT ![run[b]] = source[b]]
    /\ UNCHANGED <<db, csvName, csvNameDisk, temps, local, result, runs, crashes>>

\* The rename, with no sync of the directory.
RenameCSV(b) ==
    /\ Step(b, "exported", "idle")
    /\ csvName' = run[b]
    /\ temps' = temps \ {CsvTemp(b)}
    /\ result' = [result EXCEPT ![b] = "ok"]
    /\ UNCHANGED <<db, csvData, csvDisk, csvNameDisk, local, runs, crashes>>

-----------------------------------------------------------------------------
(***************************************************************************)
(* The kernel writes pages and directory entries back when it likes; a      *)
(* builder is killed; the machine crashes.  Only a kill or a crash leaves   *)
(* temp files behind.                                                       *)
(***************************************************************************)
Named(f) == f \in {dbName, dbNameDisk} \/ <<"db", f>> \in temps

WriteBackData(f) ==
    /\ Named(f)
    /\ dbDisk' = [dbDisk EXCEPT ![f] = dbData[f]]
    /\ UNCHANGED <<dbData, dbName, dbNameDisk, csv, temps, pc, local, result, runs,
                   crashes>>

WriteBackName ==
    /\ dbNameDisk' = dbName
    /\ UNCHANGED <<dbData, dbDisk, dbName, csv, temps, pc, local, result, runs,
                   crashes>>

WriteBackCSVName ==
    /\ csvNameDisk' = csvName
    /\ UNCHANGED <<db, csvData, csvDisk, csvName, temps, pc, local, result, runs,
                   crashes>>

Kill(b) ==
    /\ pc[b] # "idle"
    /\ pc' = [pc EXCEPT ![b] = "idle"]
    /\ crashes < MaxCrash
    /\ crashes' = crashes + 1
    /\ UNCHANGED <<db, csv, temps, local, result, runs>>

Crash ==
    /\ crashes < MaxCrash
    /\ crashes' = crashes + 1
    /\ dbData' = dbDisk /\ dbName' = dbNameDisk
    /\ csvData' = csvDisk /\ csvName' = csvNameDisk
    /\ pc' = [b \in Builder |-> "idle"]
    /\ UNCHANGED <<dbDisk, dbNameDisk, csvDisk, csvNameDisk, temps, local, result,
                   runs>>

RunStep(b) ==
    \/ Count(b) \/ Abort(b) \/ Create(b) \/ Build(b) \/ BuildFails(b)
    \/ Sync(b) \/ SyncFails(b) \/ Accept(b) \/ Refuse(b)
    \/ Rename(b) \/ RenameFails(b) \/ SyncDir(b)
    \/ Finish(b) \/ Export(b) \/ ExportFails(b) \/ WriteCSV(b) \/ RenameCSV(b)

Next ==
    \/ \E b \in Builder : RunStep(b) \/ Kill(b)
    \/ \E f \in File : WriteBackData(f)
    \/ WriteBackName
    \/ WriteBackCSVName
    \/ Crash

Spec == Init /\ [][Next]_vars

-----------------------------------------------------------------------------
(***************************************************************************)
(* What opening --out would yield, now and after a crash: nothing, what     *)
(* stood there before, or one whole verified build.                         *)
(***************************************************************************)
Content(data, name) == IF name = None THEN None ELSE data[name]
dbVisible == Content(dbData, dbName)
dbDurable == Content(dbDisk, dbNameDisk)

DbFile == INSTANCE AtomicFile WITH
    Complete <- GoodBuild,
    Old     <- Whole,
    visible <- dbVisible,
    durable <- dbDurable

(***************************************************************************)
(* The database is replaced atomically, readers never see a partial or      *)
(* unverified file, and no crash can leave one: BuildFile's comments on     *)
(* rename and fsync.                                                        *)
(***************************************************************************)
ImplementsAtomicFile == DbFile!Spec

CsvFile == INSTANCE AtomicFile WITH
    Complete <- File,
    Old     <- {},
    visible <- Content(csvData, csvName),
    durable <- Content(csvDisk, csvNameDisk)

(***************************************************************************)
(* So is the CSV: a crash in the middle of an export never leaves a         *)
(* truncated file that looks complete (exportCSVFile's comment).            *)
(***************************************************************************)
ImplementsAtomicCSV == CsvFile!Spec

(***************************************************************************)
(* Unless something was killed or crashed, every temp file belongs to a run *)
(* in progress: each error path removes its own.                            *)
(***************************************************************************)
NoStrayTemp ==
    crashes = 0 =>
        \A t \in temps : \E b \in Builder : pc[b] # "idle" /\ run[b] = t[2]

(***************************************************************************)
(* A run that failed has not replaced the database ("a failed run leaves    *)
(* the previous database in place").                                        *)
(***************************************************************************)
FailedRunPublishesNothing ==
    \A b \in Builder : result[b] = "failed" => run[b] = 0 \/ dbName # run[b]

(***************************************************************************)
(* A single builder: no rename shrinks the database at --out by more than   *)
(* --max-drop, if there is one: the guard is against the file that is       *)
(* replaced.                                                                *)
(***************************************************************************)
DropGuardHolds ==
    [][ \A b \in Builder :
          DropNum > 0 /\ Rename(b) /\ dbName # None /\ Good(dbData[dbName]) =>
            dbData[dbName'].networks * DropDen
              >= dbData[dbName].networks * (DropDen - DropNum) ]_vars

(***************************************************************************)
(* A single builder: once a run has succeeded, the CSV lists exactly the    *)
(* database at --out, until the next run or a crash.                        *)
(***************************************************************************)
CsvMatchesDatabase ==
    \A b \in Builder : WithCSV /\ crashes = 0 /\ result[b] = "ok" =>
        csvName # None /\ csvData[csvName] = dbName

(***************************************************************************)
(* A single builder: as long as the last run stands as a success, nobody    *)
(* having started another, what is at --out is on the disk: a crash leaves  *)
(* that database.  Of the file of a run before it nothing is said here.     *)
(***************************************************************************)
PublishSurvivesCrash ==
    \A b \in Builder :
        result[b] = "ok" /\ synced[b] => dbName = run[b] /\ dbNameDisk = run[b]
=============================================================================
