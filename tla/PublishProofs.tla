---------------------------- MODULE PublishProofs ----------------------------
(***************************************************************************)
(* What holds of the database file for any number of builders, runs, kills  *)
(* and crashes: it is replaced atomically, and so is the CSV, a failed run  *)
(* replaces nothing unless it also exports a CSV, and no temp file is left  *)
(* behind.  More holds of a single builder: the last part.                  *)
(***************************************************************************)
EXTENDS Publish, TLAPS

-----------------------------------------------------------------------------
(***************************************************************************)
(* The inductive invariant.                                                 *)
(***************************************************************************)
\* A run whose database is still in its temp file, and one that renamed it.
Working == {"created", "built", "synced", "guarded"}
Published == {"renamed", "flushed", "exporting", "exported"}

\* A run has a number of its own, and no name is newer than the newest run.
Stamped ==
    /\ \A b \in Builder : run[b] <= runs /\ (pc[b] \in Working \cup Published => run[b] # 0)
    /\ \A b, c \in Builder : run[b] = run[c] /\ run[b] # 0 => b = c
    /\ \A f \in {dbName, dbNameDisk} : f # None => f <= runs

\* The path never names a file that somebody still writes.
Unnamed == \A b \in Builder : pc[b] \in Working => run[b] \notin {dbName, dbNameDisk}

\* What the steps of a run have established about its temp file.
Checked ==
    \A b \in Builder :
        /\ pc[b] \in {"built", "synced", "guarded"} => dbData[run[b]] \in Whole
        /\ pc[b] \in {"synced", "guarded"} => dbDisk[run[b]] = dbData[run[b]]
        /\ pc[b] = "guarded" => Good(dbData[run[b]])

\* A named file is whole, and on disk.
Sound ==
    \A f \in {dbName, dbNameDisk} : f # None =>
        dbData[f] \in Whole /\ dbDisk[f] = dbData[f]

\* Nothing but a crash, which ends every run, takes the path away.
PathExists == \A b \in Builder : pc[b] \in Published => dbName # None

FileInv == Stamped /\ Unnamed /\ Checked /\ Sound /\ PathExists

IInv == TypeOK /\ FileInv

-----------------------------------------------------------------------------
\* A run in progress names a file; a count is a count or there is none.
LEMMA RunFacts ==
    ASSUME TypeOK, Stamped, NEW b \in Builder
    PROVE  /\ run[b] \in File /\ runs \in Nat /\ MaxRun \in Nat
           /\ pc[b] \in Working \cup Published => run[b] \in Run
BY BoundAssumption DEF TypeOK, Stamped, File, Run

\* The types hold initially.
LEMMA TypeInitial == Init => TypeOK
BY BoundAssumption, NoneAssumption
   DEF Init, TypeOK, File, Run, DbContent, Whole, Partial, CsvContent, Unwritten

(***************************************************************************)
(* Every step keeps the types.                                              *)
(***************************************************************************)
LEMMA TypeStep == IInv /\ [Next]_vars => TypeOK'
<1> SUFFICES ASSUME IInv, [Next]_vars PROVE TypeOK'
    OBVIOUS
<1> USE DEF IInv, FileInv
<1>1. runs \in Nat /\ MaxRun \in Nat /\ crashes \in Nat /\ MaxCrash \in Nat
    BY BoundAssumption DEF TypeOK, File
<1>2. ASSUME NEW b \in Builder, NEW from, NEW temp, Fail(b, from, temp)
      PROVE  TypeOK'
    BY <1>2 DEF Fail, Step, TypeOK, db, csv, local
<1>3. ASSUME NEW b \in Builder, RunStep(b)
      PROVE  TypeOK'
    <2>0. run[b] \in File /\ (pc[b] \in Working \cup Published => run[b] \in Run)
        BY RunFacts
    <2>1. CASE Count(b)
        BY <2>1, <1>1 DEF Count, Step, TypeOK, db, csv, File, DbContent, Whole, Partial, Good
    <2>2. CASE Abort(b)
        BY <2>2, <1>2 DEF Abort
    <2>3. CASE Create(b)
        BY <2>3, <1>1 DEF Create, Step, TypeOK, db, csv, File, Run
    <2>4. CASE Build(b)
        BY <2>4, <2>0 DEF Build, Step, TypeOK, csv, DbContent, TooManySkipped
    <2>5. CASE BuildFails(b)
        BY <2>5, <1>2 DEF BuildFails
    <2>6. CASE Sync(b)
        BY <2>6, <2>0 DEF Sync, Step, TypeOK, csv, local
    <2>7. CASE SyncFails(b)
        BY <2>7, <1>2 DEF SyncFails
    <2>8. CASE Accept(b)
        BY <2>8 DEF Accept, Step, TypeOK, db, csv, local
    <2>9. CASE Refuse(b)
        BY <2>9, <1>2 DEF Refuse
    <2>10. CASE Rename(b)
        BY <2>10, <2>0 DEF Rename, Step, TypeOK, csv, local
    <2>11. CASE RenameFails(b)
        BY <2>11, <1>2 DEF RenameFails
    <2>12. CASE SyncDir(b)
        BY <2>12 DEF SyncDir, Step, TypeOK, csv
    <2>13. CASE Finish(b)
        BY <2>13 DEF Finish, Step, TypeOK, db, csv, local
    <2>14. CASE Export(b)
        <3>1. pc[b] = "flushed" /\ dbName \in File /\ run[b] \in Run
            BY <2>14, <2>0 DEF Export, Step, PathExists, Published, TypeOK
        <3> QED BY <2>14, <3>1 DEF Export, Step, TypeOK, db, csv, CsvTemp
    <2>15. CASE ExportFails(b)
        BY <2>15, <1>2 DEF ExportFails
    <2>16. CASE WriteCSV(b)
        BY <2>16, <2>0 DEF WriteCSV, Step, TypeOK, db, local, CsvContent
    <2>17. CASE RenameCSV(b)
        <3>1. run[b] \in Run
            BY <2>17, <2>0 DEF RenameCSV, Step, Published
        <3> QED BY <2>17, <3>1 DEF RenameCSV, Step, TypeOK, db, local
    <2> QED BY <1>3, <2>1, <2>2, <2>3, <2>4, <2>5, <2>6, <2>7, <2>8, <2>9, <2>10, <2>11,
               <2>12, <2>13, <2>14, <2>15, <2>16, <2>17 DEF RunStep
<1>4. ASSUME NEW b \in Builder, Kill(b)
      PROVE  TypeOK'
    BY <1>1, <1>4 DEF Kill, TypeOK, db, csv, local
<1>5. ASSUME NEW f \in File, WriteBackData(f)
      PROVE  TypeOK'
    BY <1>5 DEF WriteBackData, TypeOK, csv, local
<1>6. CASE WriteBackName
    BY <1>6 DEF WriteBackName, TypeOK, csv, local
<1>7. CASE WriteBackCSVName
    BY <1>7 DEF WriteBackCSVName, TypeOK, db, local
<1>8. CASE Crash
    BY <1>1, <1>8 DEF Crash, TypeOK, local
<1>9. CASE UNCHANGED vars
    BY <1>9 DEF vars, TypeOK
<1> QED BY <1>3, <1>4, <1>5, <1>6, <1>7, <1>8, <1>9 DEF Next


-----------------------------------------------------------------------------
(***************************************************************************)
(* The rest of the invariant.  Most steps leave the files alone and move    *)
(* one builder to a place of which no more is claimed.                      *)
(***************************************************************************)
\* Whatever stood at the path satisfies the invariant.
LEMMA FileInitial == Init => FileInv
<1> SUFFICES ASSUME Init PROVE FileInv
    OBVIOUS
<1>1. \A b \in Builder : pc[b] = "idle" /\ run[b] = 0
    BY DEF Init
<1>2. runs = 0 /\ dbName \in {0, None} /\ dbNameDisk = dbName /\ dbDisk = dbData
    BY DEF Init
<1>3. dbName # None => dbName \in File /\ dbData[dbName] \in Whole
    BY BoundAssumption DEF Init, File
<1> QED BY <1>1, <1>2, <1>3
        DEF FileInv, Stamped, Unnamed, Checked, Sound, PathExists, Working, Published

\* A step that only moves builders to the start, or where nothing new is claimed.
LEMMA Quiet ==
    ASSUME IInv, UNCHANGED <<db, run, runs>>,
           \A b \in Builder : pc'[b] \in {pc[b], "idle", "counted"}
    PROVE  FileInv'
BY DEF IInv, FileInv, Stamped, Unnamed, Checked, Sound, PathExists, Working, Published, db,
       Good

\* Every step of a run preserves what is claimed of the files.
LEMMA RunStepInv ==
    ASSUME IInv, NEW b \in Builder, RunStep(b)
    PROVE  FileInv'
<1> USE DEF IInv, FileInv
<1>1. ASSUME NEW from, NEW temp, Fail(b, from, temp)
      PROVE  FileInv'
    BY <1>1, Quiet DEF Fail, Step, local, TypeOK
<1>2. runs \in Nat /\ \A c \in Builder : run[c] \in Nat /\ run[c] \in File
    BY DEF TypeOK, File
<1>3. DOMAIN pc = Builder /\ run \in [Builder -> File]
    BY DEF TypeOK
<1>4. dbData \in [File -> DbContent] /\ dbDisk \in [File -> DbContent]
    BY DEF TypeOK
<1>5. ASSUME UNCHANGED <<db, run, runs>>,
             \E to \in {"exporting", "exported"} : pc' = [pc EXCEPT ![b] = to],
             pc[b] \in Published
      PROVE  FileInv'
    BY <1>3, <1>5 DEF Stamped, Unnamed, Checked, Sound, PathExists, Working, Published, db, Good
<1>6. CASE Count(b)
    <2>1. run' = [run EXCEPT ![b] = 0] /\ pc' = [pc EXCEPT ![b] = "counted"]
          /\ UNCHANGED <<db, runs>>
        BY <1>6 DEF Count, Step
    <2> QED BY <1>2, <1>3, <2>1 DEF Stamped, Unnamed, Checked, Sound, PathExists, Working,
                               Published, db, Good
<1>7. CASE Create(b)
    <2>1. run' = [run EXCEPT ![b] = runs + 1] /\ pc' = [pc EXCEPT ![b] = "created"]
          /\ runs' = runs + 1 /\ UNCHANGED db
        BY <1>7 DEF Create, Step
    <2>2. \A f \in {dbName, dbNameDisk} : f # None => f \in Nat /\ f <= runs
        BY DEF Stamped, TypeOK, File
    <2>3. None # runs + 1
        BY <1>7, <1>2, NoneAssumption, BoundAssumption DEF Create, File
    <2>4. Stamped'
        BY <1>2, <1>3, <2>1, <2>2 DEF Stamped, db, Working, Published
    <2>5. Unnamed'
        BY <1>2, <1>3, <2>1, <2>2, <2>3 DEF Unnamed, db, Working
    <2>6. Checked' /\ Sound' /\ PathExists'
        BY <1>3, <2>1 DEF Checked, Sound, PathExists, db, Published, Good
    <2> QED BY <2>4, <2>5, <2>6
<1>8. CASE Build(b)
    <2>1. PICK c \in Whole : dbData' = [dbData EXCEPT ![run[b]] = c]
        BY <1>8 DEF Build
    <2>2. /\ pc[b] = "created" /\ pc' = [pc EXCEPT ![b] = "built"]
          /\ UNCHANGED <<dbDisk, dbName, dbNameDisk, run, runs>>
        BY <1>8 DEF Build, Step
    <2>3. /\ \A d \in Builder \ {b} : pc[d] \in Working => run[d] # run[b]
          /\ run[b] \notin {dbName, dbNameDisk} /\ run[b] # 0
        BY <2>2 DEF Stamped, Unnamed, Working
    <2>4. Stamped' /\ Unnamed' /\ PathExists'
        BY <1>3, <2>2 DEF Stamped, Unnamed, PathExists, Working, Published
    <2>5. Checked'
        BY <1>2, <1>3, <1>4, <2>1, <2>2, <2>3 DEF Checked, Working, Good
    <2>6. Sound'
        BY <1>4, <2>1, <2>2, <2>3 DEF Sound, TypeOK
    <2> QED BY <2>4, <2>5, <2>6
<1>9. CASE Sync(b)
    <2>1. /\ pc[b] = "built" /\ pc' = [pc EXCEPT ![b] = "synced"]
          /\ dbDisk' = [dbDisk EXCEPT ![run[b]] = dbData[run[b]]]
          /\ UNCHANGED <<dbData, dbName, dbNameDisk, run, runs>>
        BY <1>9 DEF Sync, Step, local
    <2>2. Stamped' /\ Unnamed' /\ PathExists'
        BY <1>3, <2>1 DEF Stamped, Unnamed, PathExists, Working, Published
    <2>3. Checked'
        BY <1>2, <1>3, <1>4, <2>1 DEF Checked, Good
    <2>4. Sound'
        BY <1>2, <1>4, <2>1 DEF Sound, TypeOK
    <2> QED BY <2>2, <2>3, <2>4
<1>10. CASE Accept(b)
    <2>1. /\ pc[b] = "synced" /\ pc' = [pc EXCEPT ![b] = "guarded"]
          /\ Good(dbData[run[b]]) /\ UNCHANGED <<db, run, runs>>
        BY <1>10 DEF Accept, Publishable, Step, local
    <2> QED BY <1>3, <2>1 DEF Stamped, Unnamed, Checked, Sound, PathExists, Working,
                          Published, db, Good
<1>11. CASE Rename(b)
    <2>1. /\ pc[b] = "guarded" /\ pc' = [pc EXCEPT ![b] = "renamed"]
          /\ dbName' = run[b] /\ UNCHANGED <<dbData, dbDisk, dbNameDisk, run, runs>>
        BY <1>11 DEF Rename, Step, local
    <2>2. /\ run[b] # 0 /\ run[b] # None /\ run[b] <= runs
          /\ \A d \in Builder \ {b} : run[d] # run[b]
        BY <1>2, <2>1, NoneAssumption DEF Stamped, Working
    <2>3. dbData[run[b]] \in Whole /\ dbDisk[run[b]] = dbData[run[b]]
        BY <2>1 DEF Checked
    <2>4. Stamped' /\ PathExists'
        BY <1>3, <2>1, <2>2 DEF Stamped, PathExists, Working, Published
    <2>5. Unnamed'
        BY <1>3, <2>1, <2>2 DEF Unnamed, Working
    <2>6. Checked'
        BY <1>3, <2>1 DEF Checked, Good
    <2>7. Sound'
        BY <2>1, <2>3 DEF Sound
    <2> QED BY <2>4, <2>5, <2>6, <2>7
<1>12. CASE SyncDir(b)
    <2>1. /\ pc[b] = "renamed" /\ pc' = [pc EXCEPT ![b] = "flushed"]
          /\ dbNameDisk' \in {dbName, dbNameDisk}
          /\ UNCHANGED <<dbData, dbDisk, dbName, run, runs>>
        BY <1>12 DEF SyncDir, Step
    <2> QED BY <1>3, <2>1 DEF Stamped, Unnamed, Checked, Sound, PathExists, Working,
                          Published, Good
<1>13. CASE Finish(b)
    BY <1>3, <1>13, Quiet DEF Finish, Step, local
<1>14. CASE Export(b)
    BY <1>5, <1>14 DEF Export, Step, Published
<1>15. CASE WriteCSV(b)
    BY <1>5, <1>15 DEF WriteCSV, Step, Published, local
<1>16. CASE RenameCSV(b)
    BY <1>3, <1>16, Quiet DEF RenameCSV, Step, local
<1>17. CASE Abort(b) \/ BuildFails(b) \/ SyncFails(b) \/ Refuse(b) \/ RenameFails(b)
            \/ ExportFails(b)
    BY <1>1, <1>17 DEF Abort, BuildFails, SyncFails, Refuse, RenameFails, ExportFails
<1> QED BY <1>6, <1>7, <1>8, <1>9, <1>10, <1>11, <1>12, <1>13, <1>14, <1>15, <1>16, <1>17
        DEF RunStep

\* So does every other step.
LEMMA FileStep == IInv /\ [Next]_vars => FileInv'
<1> SUFFICES ASSUME IInv, [Next]_vars PROVE FileInv'
    OBVIOUS
<1> USE DEF IInv, FileInv
<1>1. ASSUME NEW b \in Builder, RunStep(b)
      PROVE  FileInv'
    BY <1>1, RunStepInv
<1>2. ASSUME NEW b \in Builder, Kill(b)
      PROVE  FileInv'
    BY <1>2, Quiet DEF Kill, TypeOK, local
<1>3. ASSUME NEW f \in File, WriteBackData(f)
      PROVE  FileInv'
    <2>1. /\ dbDisk' = [dbDisk EXCEPT ![f] = dbData[f]]
          /\ UNCHANGED <<dbData, dbName, dbNameDisk, pc, run, runs>>
        BY <1>3 DEF WriteBackData, local
    <2>2. dbDisk \in [File -> DbContent] /\ \A b \in Builder : run[b] \in File
        BY DEF TypeOK
    <2>3. Checked'
        BY <2>1, <2>2 DEF Checked, Good
    <2>4. Sound'
        BY <2>1, <2>2 DEF Sound, TypeOK
    <2> QED BY <2>1, <2>3, <2>4 DEF Stamped, Unnamed, PathExists
<1>4. CASE WriteBackName
    <2>1. dbNameDisk' = dbName /\ UNCHANGED <<dbData, dbDisk, dbName, pc, run, runs>>
        BY <1>4 DEF WriteBackName, local
    <2> QED BY <2>1 DEF Stamped, Unnamed, Checked, Sound, PathExists, Good
<1>5. CASE WriteBackCSVName
    BY <1>5, Quiet DEF WriteBackCSVName, local
<1>6. CASE Crash
    <2>1. /\ dbData' = dbDisk /\ dbName' = dbNameDisk
          /\ \A b \in Builder : pc'[b] = "idle"
          /\ UNCHANGED <<dbDisk, dbNameDisk, run, runs>>
        BY <1>6 DEF Crash, local
    <2> QED BY <2>1 DEF Stamped, Unnamed, Checked, Sound, PathExists, Working, Published
<1>7. CASE UNCHANGED vars
    BY <1>7, Quiet DEF vars, db
<1> QED BY <1>1, <1>2, <1>3, <1>4, <1>5, <1>6, <1>7 DEF Next

\* The invariant always holds.
LEMMA Inductive == Spec => []IInv
<1>1. Init => IInv
    BY TypeInitial, FileInitial DEF IInv
<1>2. IInv /\ [Next]_vars => IInv'
    BY TypeStep, FileStep DEF IInv
<1> QED BY <1>1, <1>2, PTL DEF Spec

(***************************************************************************)
(* The variables keep their types, for any number of builders and runs.     *)
(***************************************************************************)
THEOREM TypeCorrect == Spec => []TypeOK
BY Inductive, PTL DEF IInv


-----------------------------------------------------------------------------
(***************************************************************************)
(* The refinement, step by step: a rename replaces the content by a whole,  *)
(* verified build, writing the directory back flushes it, and every other   *)
(* step leaves both what is visible and what is durable alone.              *)
(***************************************************************************)
LEMMA InitRefines == Init => DbFile!Init
<1> SUFFICES ASSUME Init PROVE DbFile!Init
    OBVIOUS
<1>1. dbName \in {0, None} /\ dbNameDisk = dbName /\ dbDisk = dbData
    BY DEF Init
<1>2. dbName # None => dbData[dbName] \in Whole
    BY BoundAssumption DEF Init, File
<1> QED BY <1>1, <1>2 DEF DbFile!Init, dbVisible, dbDurable, Content

\* A step that leaves the files alone stutters.
LEMMA QuietRefines ==
    ASSUME UNCHANGED db
    PROVE  UNCHANGED DbFile!vars
BY DEF db, DbFile!vars, dbVisible, dbDurable, Content

\* Every step replaces, flushes, crashes or stutters.
LEMMA StepRefines == IInv /\ [Next]_vars => [DbFile!Next]_(DbFile!vars)
<1> SUFFICES ASSUME IInv, [Next]_vars PROVE DbFile!Next \/ UNCHANGED DbFile!vars
    OBVIOUS
<1> USE DEF IInv, FileInv
<1>1. /\ dbData \in [File -> DbContent] /\ dbDisk \in [File -> DbContent]
      /\ dbName \in File \cup {None} /\ dbNameDisk \in File \cup {None}
      /\ \A b \in Builder : run[b] \in File
    BY DEF TypeOK
<1>2. ASSUME NEW b \in Builder, RunStep(b), ~Build(b), ~Sync(b), ~Rename(b), ~SyncDir(b)
      PROVE  UNCHANGED db
    BY <1>2 DEF RunStep, Count, Abort, Create, BuildFails, SyncFails, Accept, Refuse,
                RenameFails, Finish, Export, ExportFails, WriteCSV, RenameCSV, Fail
<1>3. ASSUME NEW b \in Builder, Build(b)
      PROVE  UNCHANGED DbFile!vars
    <2>1. PICK c : dbData' = [dbData EXCEPT ![run[b]] = c]
        BY <1>3 DEF Build
    <2>2. UNCHANGED <<dbDisk, dbName, dbNameDisk>>
        BY <1>3 DEF Build
    <2>3. run[b] # dbName
        BY <1>3 DEF Build, Step, Unnamed, Working
    <2> QED BY <1>1, <2>1, <2>2, <2>3 DEF DbFile!vars, dbVisible, dbDurable, Content
<1>4. ASSUME NEW b \in Builder, Sync(b)
      PROVE  UNCHANGED DbFile!vars
    <2>1. run[b] # dbNameDisk
        BY <1>4 DEF Sync, Step, Unnamed, Working
    <2> QED BY <1>1, <1>4, <2>1 DEF Sync, DbFile!vars, dbVisible, dbDurable, Content
<1>5. ASSUME NEW b \in Builder, Rename(b)
      PROVE  DbFile!Next
    <2>1. dbData[run[b]] \in GoodBuild
        BY <1>5 DEF Rename, Step, Checked, GoodBuild
    <2>2. run[b] # None
        BY <1>1, NoneAssumption
    <2>3. dbVisible' \in GoodBuild /\ dbDurable' = dbDurable
        BY <1>5, <2>1, <2>2 DEF Rename, dbVisible, dbDurable, Content
    <2> QED BY <2>3 DEF DbFile!Next, DbFile!Replace
<1>6. dbDisk[dbName] = dbData[dbName] \/ dbName = None
    BY DEF Sound
<1>7. ASSUME dbNameDisk' = dbName, UNCHANGED <<dbData, dbDisk, dbName>>
      PROVE  DbFile!Next
    <2>1. dbDurable' = dbVisible /\ dbVisible' = dbVisible
        BY <1>6, <1>7 DEF dbVisible, dbDurable, Content
    <2> QED BY <2>1 DEF DbFile!Next, DbFile!Flush
<1>8. ASSUME NEW b \in Builder, SyncDir(b)
      PROVE  DbFile!Next \/ UNCHANGED DbFile!vars
    <2>1. CASE dbNameDisk' = dbName
        BY <1>7, <1>8, <2>1 DEF SyncDir
    <2>2. CASE dbNameDisk' = dbNameDisk
        BY <1>8, <2>2, QuietRefines DEF SyncDir, db
    <2> QED BY <1>8, <2>1, <2>2 DEF SyncDir
<1>9. ASSUME NEW f \in File, WriteBackData(f)
      PROVE  UNCHANGED DbFile!vars
    <2>1. dbNameDisk # None => dbDisk[dbNameDisk] = dbData[dbNameDisk]
        BY DEF Sound
    <2> QED BY <1>1, <1>9, <2>1 DEF WriteBackData, DbFile!vars, dbVisible, dbDurable, Content
<1>10. CASE WriteBackName
    BY <1>7, <1>10 DEF WriteBackName
<1>11. CASE Crash
    <2>1. dbVisible' = dbDurable /\ dbDurable' = dbDurable
        BY <1>11 DEF Crash, dbVisible, dbDurable, Content
    <2> QED BY <2>1 DEF DbFile!Next, DbFile!Crash
<1>12. CASE UNCHANGED db
    BY <1>12, QuietRefines
<1>13. (\E b \in Builder : Kill(b)) \/ WriteBackCSVName \/ UNCHANGED vars => UNCHANGED db
    BY DEF Kill, WriteBackCSVName, vars, db
<1> QED BY <1>2, <1>3, <1>4, <1>5, <1>8, <1>9, <1>10, <1>11, <1>12, <1>13 DEF Next

(***************************************************************************)
(* A reader of --out, now or after any crash, finds nothing, what was there *)
(* before, or one whole verified build (BuildFile's rename and syncs).      *)
(***************************************************************************)
THEOREM AtomicFileImplemented == Spec => ImplementsAtomicFile
BY Inductive, InitRefines, StepRefines, PTL DEF Spec, ImplementsAtomicFile, DbFile!Spec

-----------------------------------------------------------------------------
(***************************************************************************)
(* A run that failed never reached the rename, unless it was exporting a    *)
(* CSV.  While a run is in progress it has not failed yet.                  *)
(***************************************************************************)
FailureInv ==
    \A b \in Builder :
        /\ pc[b] # "idle" => result[b] = "none"
        /\ pc[b] = "counted" => run[b] = 0
        /\ result[b] = "failed" => run[b] = 0 \/ run[b] \notin {dbName, dbNameDisk}

\* Without --csv every step preserves the failure invariant.
LEMMA FailureStep ==
    ASSUME ~WithCSV, IInv, FailureInv, [Next]_vars
    PROVE  FailureInv'
<1> USE DEF IInv, FileInv
<1>1. DOMAIN pc = Builder /\ DOMAIN result = Builder /\ DOMAIN run = Builder
    BY DEF TypeOK
<1>2. ASSUME NEW b \in Builder, NEW from \in {"counted"} \cup Working, NEW temp,
             Fail(b, from, temp)
      PROVE  FailureInv'
    <2>1. run[b] = 0 \/ run[b] \notin {dbName, dbNameDisk}
        BY <1>2 DEF Fail, Step, Unnamed, FailureInv
    <2> QED BY <1>1, <1>2, <2>1 DEF Fail, Step, FailureInv, db, local
<1>3. ASSUME NEW b \in Builder, RunStep(b)
      PROVE  FailureInv'
    <2>1. CASE Count(b)
        BY <1>1, <2>1 DEF Count, Step, FailureInv, db
    <2>2. CASE Create(b)
        BY <1>1, <2>2 DEF Create, Step, FailureInv, db
    <2>3. CASE Rename(b)
        <3>1. \A c \in Builder \ {b} : run[c] # 0 => run[c] # run[b]
            BY DEF Stamped
        <3> QED BY <1>1, <2>3, <3>1 DEF Rename, Step, FailureInv, local
    <2>4. CASE SyncDir(b)
        BY <1>1, <2>4 DEF SyncDir, Step, FailureInv
    <2>5. CASE Finish(b) \/ RenameCSV(b)
        BY <1>1, <2>5 DEF Finish, RenameCSV, Step, FailureInv, db, local
    <2>6. CASE Build(b) \/ Sync(b) \/ Accept(b) \/ Export(b) \/ WriteCSV(b)
        BY <1>1, <2>6 DEF Build, Sync, Accept, Export, WriteCSV, Step, FailureInv, db, local
    <2>7. CASE Abort(b) \/ BuildFails(b) \/ SyncFails(b) \/ Refuse(b) \/ RenameFails(b)
        BY <1>2, <2>7 DEF Abort, BuildFails, SyncFails, Refuse, RenameFails, Working
    <2>8. ~ExportFails(b)
        BY DEF ExportFails
    <2> QED BY <1>3, <2>1, <2>2, <2>3, <2>4, <2>5, <2>6, <2>7, <2>8 DEF RunStep
<1>4. ASSUME NEW b \in Builder, Kill(b)
      PROVE  FailureInv'
    BY <1>1, <1>4 DEF Kill, FailureInv, db, local
<1>5. CASE (\E f \in File : WriteBackData(f)) \/ WriteBackName \/ WriteBackCSVName
    BY <1>5 DEF WriteBackData, WriteBackName, WriteBackCSVName, FailureInv, db, local
<1>6. CASE Crash
    BY <1>6 DEF Crash, FailureInv, local
<1>7. CASE UNCHANGED vars
    BY <1>7 DEF vars, FailureInv
<1> QED BY <1>3, <1>4, <1>5, <1>6, <1>7 DEF Next

(***************************************************************************)
(* Without --csv, a run that failed has not replaced the database: neither  *)
(* the path nor, after a crash, its directory entry names the run's file.   *)
(* With --csv it may have: MCPublishFailed.cfg shows how.                   *)
(***************************************************************************)
THEOREM FailedRunHarmless ==
    ASSUME ~WithCSV
    PROVE  Spec => []FailedRunPublishesNothing
<1>1. Init => FailureInv
    BY DEF Init, FailureInv
<1>2. IInv /\ FailureInv /\ [Next]_vars => FailureInv'
    BY FailureStep
<1>3. FailureInv => FailedRunPublishesNothing
    BY DEF FailureInv, FailedRunPublishesNothing
<1> QED BY <1>1, <1>2, <1>3, Inductive, PTL DEF Spec

-----------------------------------------------------------------------------
(***************************************************************************)
(* Every temp file belongs to a run at a step that will rename or remove it.*)
(***************************************************************************)
TempOwned ==
    crashes = 0 => \A t \in temps : \E b \in Builder :
        /\ run[b] = t[2]
        /\ pc[b] \in IF t[1] = "db" THEN Working ELSE {"exporting", "exported"}

\* Every step preserves the ownership of temp files.
LEMMA TempStep ==
    ASSUME IInv, TempOwned, [Next]_vars
    PROVE  TempOwned'
<1> SUFFICES ASSUME crashes' = 0, NEW t \in temps'
             PROVE  \E b \in Builder :
                      /\ run'[b] = t[2]
                      /\ pc'[b] \in IF t[1] = "db" THEN Working
                                    ELSE {"exporting", "exported"}
    BY DEF TempOwned
<1> USE DEF IInv, FileInv
<1>1. /\ DOMAIN pc = Builder /\ DOMAIN run = Builder
      /\ temps \subseteq {"db", "csv"} \X Run
      /\ crashes \in Nat
    BY DEF TypeOK
<1>2. crashes = 0
    BY <1>1 DEF Next, RunStep, vars, Kill, Crash, WriteBackData, WriteBackName,
                WriteBackCSVName, Count, Abort, Create, Build, BuildFails, Sync, SyncFails,
                Accept, Refuse, Rename, RenameFails, SyncDir, Finish, Export, ExportFails,
                WriteCSV, RenameCSV, Fail
<1> DEFINE Owns(c) == /\ run[c] = t[2]
                      /\ pc[c] \in IF t[1] = "db" THEN Working
                                   ELSE {"exporting", "exported"}
<1>3. t \in temps => \E c \in Builder : Owns(c)
    BY <1>2 DEF TempOwned
\* The owner is the same if it does not move, or moves on to where it still owns t.
<1>4. ASSUME t \in temps, NEW b \in Builder,
             \A c \in Builder \ {b} : run'[c] = run[c] /\ pc'[c] = pc[c],
             Owns(b) => Owns(b)'
      PROVE  \E c \in Builder : Owns(c)'
    BY <1>3, <1>4
<1>5. ASSUME NEW b \in Builder, RunStep(b)
      PROVE  \E c \in Builder : Owns(c)'
    <2>1. t \in temps => t = <<t[1], t[2]>> /\ t[1] \in {"db", "csv"}
        BY <1>1
    <2>2. \A c \in Builder \ {b} : run'[c] = run[c] /\ pc'[c] = pc[c]
        BY <1>1, <1>5 DEF RunStep, Step, Count, Abort, Create, Build, BuildFails, Sync,
             SyncFails, Accept, Refuse, Rename, RenameFails, SyncDir, Finish, Export,
             ExportFails, WriteCSV, RenameCSV, Fail, local
    <2>3. ASSUME t \in temps, Owns(b) => Owns(b)'
          PROVE  \E c \in Builder : Owns(c)'
        BY <1>4, <2>2, <2>3
    <2> HIDE DEF Owns
    <2>4. ASSUME NEW temp, temps' = temps \ {temp}, Owns(b) => t = temp
          PROVE  \E c \in Builder : Owns(c)'
        BY <2>3, <2>4
    <2>5. CASE Count(b) \/ SyncDir(b) \/ Finish(b)
        <3>1. t \in temps /\ ~Owns(b)
            BY <2>5 DEF Count, SyncDir, Finish, Step, Owns, Working
        <3> QED BY <2>3, <3>1
    <2>6. CASE Build(b) \/ Sync(b) \/ Accept(b)
        <3>1. t \in temps /\ (Owns(b) => Owns(b)')
            BY <1>1, <2>6 DEF Build, Sync, Accept, Step, Owns, Working, local
        <3> QED BY <2>3, <3>1
    <2>7. CASE WriteCSV(b)
        <3>1. t \in temps /\ (Owns(b) => Owns(b)')
            BY <1>1, <2>7 DEF WriteCSV, Step, Owns, Working, local
        <3> QED BY <2>3, <3>1
    <2>8. CASE Create(b)
        <3>1. CASE t = <<"db", runs + 1>>
            BY <1>1, <2>8, <3>1 DEF Create, Step, Owns, Working
        <3>2. CASE t \in temps
            <4>1. ~Owns(b)
                BY <2>8 DEF Create, Step, Owns, Working
            <4> QED BY <2>3, <3>2, <4>1
        <3> QED BY <2>8, <3>1, <3>2 DEF Create
    <2>9. CASE Export(b)
        <3>1. CASE t = CsvTemp(b)
            BY <1>1, <2>9, <3>1 DEF Export, Step, Owns, CsvTemp
        <3>2. CASE t \in temps
            <4>1. ~Owns(b)
                BY <2>9 DEF Export, Step, Owns, Working
            <4> QED BY <2>3, <3>2, <4>1
        <3> QED BY <2>9, <3>1, <3>2 DEF Export
    <2>10. CASE Rename(b) \/ RenameCSV(b)
        <3>1. CASE Rename(b)
            <4>1. Owns(b) => t[1] # "csv" /\ t[2] = run[b]
                BY <3>1 DEF Rename, Step, Owns
            <4>2. temps' = temps \ {DbTemp(b)}
                BY <3>1 DEF Rename
            <4> QED BY <2>1, <2>4, <4>1, <4>2 DEF DbTemp
        <3>2. CASE RenameCSV(b)
            <4>1. Owns(b) => t[1] # "db" /\ t[2] = run[b]
                BY <3>2 DEF RenameCSV, Step, Owns, Working
            <4>2. temps' = temps \ {CsvTemp(b)}
                BY <3>2 DEF RenameCSV
            <4> QED BY <2>1, <2>4, <4>1, <4>2 DEF CsvTemp
        <3> QED BY <2>10, <3>1, <3>2
    <2>11. CASE Abort(b) \/ BuildFails(b) \/ SyncFails(b) \/ Refuse(b) \/ RenameFails(b)
        <3>1. PICK from \in {"counted"} \cup Working : Fail(b, from, DbTemp(b))
            BY <2>11 DEF Abort, BuildFails, SyncFails, Refuse, RenameFails, Working
        <3>2. Owns(b) => t[1] # "csv" /\ t[2] = run[b]
            BY <3>1 DEF Fail, Step, Owns, Working
        <3>3. temps' = temps \ {DbTemp(b)}
            BY <3>1 DEF Fail
        <3> QED BY <2>1, <2>4, <3>2, <3>3 DEF DbTemp
    <2>12. CASE ExportFails(b)
        <3>1. PICK from \in {"flushed", "exporting", "exported"} : Fail(b, from, CsvTemp(b))
            BY <2>12 DEF ExportFails
        <3>2. Owns(b) => t[1] # "db" /\ t[2] = run[b]
            BY <3>1 DEF Fail, Step, Owns, Working
        <3>3. temps' = temps \ {CsvTemp(b)}
            BY <3>1 DEF Fail
        <3> QED BY <2>1, <2>4, <3>2, <3>3 DEF CsvTemp
    <2> QED BY <1>5, <2>5, <2>6, <2>7, <2>8, <2>9, <2>10, <2>11, <2>12 DEF RunStep
<1>6. ASSUME UNCHANGED <<temps, pc, run>>
      PROVE  \E c \in Builder : Owns(c)'
    BY <1>3, <1>6
<1>7. (\E f \in File : WriteBackData(f)) \/ WriteBackName \/ WriteBackCSVName
        \/ UNCHANGED vars => UNCHANGED <<temps, pc, run>>
    BY DEF WriteBackData, WriteBackName, WriteBackCSVName, vars, local
<1>8. ~Crash /\ \A b \in Builder : ~Kill(b)
    BY <1>1, <1>2 DEF Crash, Kill
<1>9. \E c \in Builder : Owns(c)'
    BY <1>5, <1>6, <1>7, <1>8 DEF Next
<1> QED BY <1>9

(***************************************************************************)
(* Unless something was killed or crashed, a temp file belongs to a run in  *)
(* progress: every error path removes its own (the deferred Remove).        *)
(***************************************************************************)
THEOREM NothingLeftBehind == Spec => []NoStrayTemp
<1>1. Init => TempOwned
    BY DEF Init, TempOwned
<1>2. IInv /\ TempOwned /\ [Next]_vars => TempOwned'
    BY TempStep
<1>3. TempOwned => NoStrayTemp
    BY DEF TempOwned, NoStrayTemp, Working
<1> QED BY <1>1, <1>2, <1>3, Inductive, PTL DEF Spec

-----------------------------------------------------------------------------
(***************************************************************************)
(* The CSV.  A named CSV is whole, on disk too, and nobody writes it any    *)
(* more.                                                                    *)
(***************************************************************************)
CsvInv ==
    /\ \A f \in {csvName, csvNameDisk} : f # None =>
          f <= runs /\ csvData[f] \in File /\ csvDisk[f] = csvData[f]
    /\ \A b \in Builder : pc[b] \in Working \cup Published =>
          run[b] \notin {csvName, csvNameDisk}
    /\ \A b \in Builder : pc[b] = "exported" =>
          csvData[run[b]] \in File /\ csvDisk[run[b]] = csvData[run[b]]

\* Every step preserves it.
LEMMA CsvStep == IInv /\ CsvInv /\ [Next]_vars => CsvInv'
<1> SUFFICES ASSUME IInv, CsvInv, [Next]_vars PROVE CsvInv'
    OBVIOUS
<1> USE DEF IInv, FileInv
<1>1. /\ DOMAIN pc = Builder /\ run \in [Builder -> File] /\ runs \in Nat
      /\ csvData \in [File -> CsvContent] /\ csvDisk \in [File -> CsvContent]
      /\ csvName \in Run \cup {None} /\ csvNameDisk \in Run \cup {None}
      /\ \A b \in Builder : source[b] \in File
      /\ File \subseteq Nat /\ None \notin File
    BY BoundAssumption, NoneAssumption DEF TypeOK, File
<1>2. ASSUME UNCHANGED <<csvData, csvDisk, csvName, csvNameDisk, runs>>,
             NEW b \in Builder, NEW to, pc' = [pc EXCEPT ![b] = to],
             \/ to \in {"idle", "counted"} /\ run' \in {run, [run EXCEPT ![b] = 0]}
             \/ pc[b] \in Working \cup Published /\ to # "exported" /\ UNCHANGED run
      PROVE  CsvInv'
    BY <1>1, <1>2 DEF CsvInv, Working, Published
<1>3. ASSUME NEW b \in Builder, NEW from, NEW temp, Fail(b, from, temp)
      PROVE  CsvInv'
    BY <1>2, <1>3 DEF Fail, Step, csv, local
<1>4. ASSUME NEW b \in Builder, RunStep(b)
      PROVE  CsvInv'
    <2>1. CASE Count(b)
        BY <1>2, <2>1 DEF Count, Step, csv
    <2>2. CASE Create(b)
        <3>1. /\ pc' = [pc EXCEPT ![b] = "created"] /\ run' = [run EXCEPT ![b] = runs + 1]
              /\ runs' = runs + 1 /\ runs + 1 \in File
              /\ UNCHANGED <<csvData, csvDisk, csvName, csvNameDisk>>
            BY <1>1, <2>2, BoundAssumption DEF Create, Step, csv, File
        <3>2. \A f \in {csvName, csvNameDisk} : f # None => f \in Nat /\ f <= runs
            BY <1>1 DEF CsvInv, Run
        <3>3. runs + 1 \notin {csvName, csvNameDisk}
            BY <1>1, <3>1, <3>2
        <3> QED BY <1>1, <3>1, <3>2, <3>3 DEF CsvInv
    <2>3. CASE Build(b) \/ Sync(b) \/ Accept(b) \/ Rename(b) \/ SyncDir(b) \/ Finish(b)
               \/ Export(b)
        <3>1. /\ pc[b] \in Working \cup Published /\ UNCHANGED <<csv, run, runs>>
              /\ \E to \in {"built", "synced", "guarded", "renamed", "flushed", "idle",
                            "exporting"} : pc' = [pc EXCEPT ![b] = to]
            BY <2>3 DEF Build, Sync, Accept, Rename, SyncDir, Finish, Export, Step, local,
                        Working, Published
        <3> QED BY <1>2, <3>1 DEF csv
    <2>4. CASE WriteCSV(b)
        <3>1. /\ pc[b] = "exporting" /\ pc' = [pc EXCEPT ![b] = "exported"]
              /\ csvData' = [csvData EXCEPT ![run[b]] = source[b]]
              /\ csvDisk' = [csvDisk EXCEPT ![run[b]] = source[b]]
              /\ UNCHANGED <<csvName, csvNameDisk, run, runs>>
            BY <2>4 DEF WriteCSV, Step, local
        <3>2. run[b] \notin {csvName, csvNameDisk} /\ run[b] \in File
            BY <1>1, <3>1 DEF CsvInv, Published
        <3>3. \A f \in {csvName, csvNameDisk} : f # None =>
                 csvData'[f] = csvData[f] /\ csvDisk'[f] = csvDisk[f]
            BY <1>1, <3>1, <3>2
        <3>4. \A d \in Builder : run[d] \in File /\ (run[d] = run[b] =>
                 csvData'[run[d]] = source[b] /\ csvDisk'[run[d]] = source[b])
            BY <1>1, <3>1, <3>2
        <3>5. \A d \in Builder : run[d] # run[b] =>
                 csvData'[run[d]] = csvData[run[d]] /\ csvDisk'[run[d]] = csvDisk[run[d]]
            BY <1>1, <3>1, <3>2
        <3> QED BY <1>1, <3>1, <3>2, <3>3, <3>4, <3>5 DEF CsvInv, Working, Published
    <2>5. CASE RenameCSV(b)
        <3>1. /\ pc[b] = "exported" /\ pc' = [pc EXCEPT ![b] = "idle"] /\ csvName' = run[b]
              /\ UNCHANGED <<csvData, csvDisk, csvNameDisk, run, runs>>
            BY <2>5 DEF RenameCSV, Step, local
        <3>2. \A d \in Builder \ {b} : run[d] # run[b]
            BY <3>1 DEF Stamped, Published
        <3>3. run[b] <= runs
            BY DEF Stamped
        <3> QED BY <1>1, <3>1, <3>2, <3>3 DEF CsvInv, Working, Published
    <2>6. CASE Abort(b) \/ BuildFails(b) \/ SyncFails(b) \/ Refuse(b) \/ RenameFails(b)
               \/ ExportFails(b)
        BY <1>3, <2>6 DEF Abort, BuildFails, SyncFails, Refuse, RenameFails, ExportFails
    <2> QED BY <1>4, <2>1, <2>2, <2>3, <2>4, <2>5, <2>6 DEF RunStep
<1>5. ASSUME NEW b \in Builder, Kill(b)
      PROVE  CsvInv'
    BY <1>2, <1>5 DEF Kill, csv, local
<1>6. CASE (\E f \in File : WriteBackData(f)) \/ WriteBackName \/ WriteBackCSVName
           \/ UNCHANGED vars
    <2>1. /\ UNCHANGED <<csvData, csvDisk, csvName, pc, run, runs>>
          /\ csvNameDisk' \in {csvNameDisk, csvName}
        BY <1>6 DEF WriteBackData, WriteBackName, WriteBackCSVName, vars, csv, local
    <2> QED BY <2>1 DEF CsvInv
<1>7. CASE Crash
    <2>1. /\ csvData' = csvDisk /\ csvName' = csvNameDisk /\ UNCHANGED <<csvDisk, csvNameDisk, runs>>
          /\ \A b \in Builder : pc'[b] = "idle"
        BY <1>7 DEF Crash, local
    <2> QED BY <2>1 DEF CsvInv, Working, Published
<1> QED BY <1>4, <1>5, <1>6, <1>7 DEF Next

\* A rename replaces the CSV by a whole one, and every other step that shows
\* flushes it or crashes.
LEMMA CsvRefines == IInv /\ CsvInv /\ [Next]_vars => [CsvFile!Next]_(CsvFile!vars)
<1> SUFFICES ASSUME IInv, CsvInv, [Next]_vars
             PROVE  CsvFile!Next \/ UNCHANGED CsvFile!vars
    OBVIOUS
<1> USE DEF IInv, FileInv, CsvFile!vars, CsvFile!Next, CsvFile!Replace, CsvFile!Flush,
            CsvFile!Crash, Content
<1>1. /\ csvData \in [File -> CsvContent] /\ csvDisk \in [File -> CsvContent]
      /\ run \in [Builder -> File] /\ None \notin File
    BY NoneAssumption DEF TypeOK
<1>2. CASE UNCHANGED csv
    BY <1>2 DEF csv
<1>3. ASSUME NEW b \in Builder, WriteCSV(b)
      PROVE  UNCHANGED CsvFile!vars
    <2>1. run[b] \notin {csvName, csvNameDisk}
        BY <1>3 DEF WriteCSV, Step, CsvInv, Published
    <2>2. /\ csvData' = [csvData EXCEPT ![run[b]] = source[b]]
          /\ csvDisk' = [csvDisk EXCEPT ![run[b]] = source[b]]
          /\ UNCHANGED <<csvName, csvNameDisk>>
        BY <1>3 DEF WriteCSV
    <2> QED BY <1>1, <2>1, <2>2
<1>4. ASSUME NEW b \in Builder, RenameCSV(b)
      PROVE  CsvFile!Next
    <2>1. csvData[run[b]] \in File /\ run[b] # None
        BY <1>1, <1>4 DEF RenameCSV, Step, CsvInv
    <2>2. csvName' = run[b] /\ UNCHANGED <<csvData, csvDisk, csvNameDisk>>
        BY <1>4 DEF RenameCSV
    <2> QED BY <2>1, <2>2
<1>5. CASE WriteBackCSVName
    <2>1. csvName # None => csvDisk[csvName] = csvData[csvName]
        BY DEF CsvInv
    <2>2. csvNameDisk' = csvName /\ UNCHANGED <<csvData, csvDisk, csvName>>
        BY <1>5 DEF WriteBackCSVName
    <2> QED BY <2>1, <2>2
<1>6. CASE Crash
    BY <1>6 DEF Crash
<1>7. ASSUME NEW b \in Builder, RunStep(b), ~WriteCSV(b), ~RenameCSV(b)
      PROVE  UNCHANGED csv
    BY <1>7 DEF RunStep, Count, Abort, Create, Build, BuildFails, Sync, SyncFails, Accept,
                Refuse, Rename, RenameFails, SyncDir, Finish, Export, ExportFails, Fail
<1>8. (\E b \in Builder : Kill(b)) \/ (\E f \in File : WriteBackData(f)) \/ WriteBackName
         \/ UNCHANGED vars => UNCHANGED csv
    BY DEF Kill, WriteBackData, WriteBackName, vars, csv
<1> QED BY <1>2, <1>3, <1>4, <1>5, <1>6, <1>7, <1>8 DEF Next

(***************************************************************************)
(* A reader of the CSV, now or after any crash, finds nothing or the whole  *)
(* list of one database (exportCSVFile's temp file, sync and rename).       *)
(***************************************************************************)
THEOREM AtomicCSVImplemented == Spec => ImplementsAtomicCSV
<1>1. Init => CsvInv /\ CsvFile!Init
    BY DEF Init, CsvInv, CsvFile!Init, Content, Working, Published
<1> QED BY <1>1, Inductive, CsvStep, CsvRefines, PTL
        DEF Spec, ImplementsAtomicCSV, CsvFile!Spec

-----------------------------------------------------------------------------
(***************************************************************************)
(* What holds when only one builder runs at a time, as the systemd timer    *)
(* arranges: the drop guard compares with the file that is replaced, the    *)
(* CSV lists the database beside it, and a synced database survives every   *)
(* crash.                                                                   *)
(***************************************************************************)
SingleBuilder == \A b, c \in Builder : b = c

\* What verifyCount makes of the file at --out.
Standing ==
    IF dbName # None /\ Good(dbData[dbName]) THEN dbData[dbName].networks ELSE None

(***************************************************************************)
(* What the builder found or left at --out is still there.                  *)
(***************************************************************************)
Guarded ==
    \A b \in Builder :
        /\ pc[b] \in {"counted"} \cup Working => prev[b] = Standing
        /\ pc[b] = "guarded" => ~DroppedTooFar(prev[b], dbData[run[b]].networks)

Kept ==
    \A b \in Builder :
        /\ pc[b] \in Published => dbName = run[b]
        /\ pc[b] \in {"flushed", "exporting", "exported"} /\ synced[b] => dbNameDisk = run[b]
        /\ result[b] = "ok" => pc[b] = "idle"

Listed ==
    \A b \in Builder :
        /\ pc[b] \in {"exporting", "exported"} => source[b] = dbName
        /\ pc[b] = "exported" => csvData[run[b]] = dbName

SoloInv == Guarded /\ Kept /\ Listed /\ PublishSurvivesCrash /\ CsvMatchesDatabase

-----------------------------------------------------------------------------
\* Nothing has run yet.
LEMMA SoloInitial == Init => SoloInv
BY DEF Init, SoloInv, Guarded, Kept, Listed, PublishSurvivesCrash, CsvMatchesDatabase,
       Working, Published

\* A step that fails leaves the files alone and claims nothing.
LEMMA SoloFail ==
    ASSUME SingleBuilder, TypeOK, SoloInv, NEW b \in Builder, NEW from, NEW temp,
           Fail(b, from, temp)
    PROVE  SoloInv'
<1>1. \A d \in Builder : d = b
    BY DEF SingleBuilder
<1>2. pc'[b] = "idle" /\ result'[b] = "failed"
    BY DEF Fail, Step, TypeOK
<1> QED BY <1>1, <1>2 DEF SoloInv, Guarded, Kept, Listed, PublishSurvivesCrash,
           CsvMatchesDatabase, Working, Published

(***************************************************************************)
(* Every step of the builder preserves the invariant.                       *)
(***************************************************************************)
LEMMA SoloRunStep ==
    ASSUME SingleBuilder, IInv, SoloInv, NEW b \in Builder, RunStep(b)
    PROVE  SoloInv'
<1> USE DEF IInv, FileInv
<1>1. \A d \in Builder : d = b
    BY DEF SingleBuilder
<1>2. /\ b \in DOMAIN pc /\ b \in DOMAIN result /\ b \in DOMAIN run /\ b \in DOMAIN prev
      /\ b \in DOMAIN synced /\ b \in DOMAIN source
      /\ run[b] \in File /\ dbData \in [File -> DbContent] /\ csvData \in [File -> CsvContent]
    BY DEF TypeOK
<1>3. pc[b] # "idle" => result[b] # "ok"
    BY DEF SoloInv, Kept
<1>4. CASE Count(b)
    <2>1. /\ pc'[b] = "counted" /\ result'[b] = "none" /\ prev'[b] = Standing
          /\ UNCHANGED <<dbData, dbName>>
        BY <1>2, <1>4 DEF Count, Step, db, Standing
    <2> QED BY <1>1, <2>1 DEF SoloInv, Guarded, Kept, Listed, PublishSurvivesCrash,
               CsvMatchesDatabase, Working, Published, Standing
<1>5. CASE Create(b)
    <2>1. /\ pc[b] = "counted" /\ pc'[b] = "created" /\ UNCHANGED <<dbData, dbName, prev, result>>
        BY <1>2, <1>5 DEF Create, Step, db
    <2> QED BY <1>1, <1>3, <2>1 DEF SoloInv, Guarded, Kept, Listed, PublishSurvivesCrash,
               CsvMatchesDatabase, Working, Published, Standing
<1>6. CASE Build(b)
    <2>1. /\ pc[b] = "created" /\ pc'[b] = "built" /\ UNCHANGED <<dbName, prev, result>>
          /\ \E c \in Whole : dbData' = [dbData EXCEPT ![run[b]] = c]
        BY <1>2, <1>6 DEF Build, Step
    <2>2. run[b] # dbName
        BY <2>1 DEF Unnamed, Working
    <2>3. Standing' = Standing
        BY <1>2, <2>1, <2>2 DEF Standing, Good
    <2> QED BY <1>1, <1>3, <2>1, <2>3 DEF SoloInv, Guarded, Kept, Listed,
               PublishSurvivesCrash, CsvMatchesDatabase, Working, Published
<1>7. CASE Sync(b) \/ Accept(b)
    <2>1. /\ pc[b] \in {"built", "synced"} /\ pc'[b] \in {"synced", "guarded"}
          /\ UNCHANGED <<dbData, dbName, prev, result, run>>
          /\ pc'[b] = "guarded" => ~DroppedTooFar(prev[b], dbData[run[b]].networks)
        BY <1>2, <1>7 DEF Sync, Accept, Publishable, Step, db, local
    <2> QED BY <1>1, <1>3, <2>1 DEF SoloInv, Guarded, Kept, Listed, PublishSurvivesCrash,
               CsvMatchesDatabase, Working, Published, Standing, DroppedTooFar
<1>8. CASE Rename(b)
    <2>1. /\ pc[b] = "guarded" /\ pc'[b] = "renamed" /\ dbName' = run[b]
          /\ UNCHANGED <<run, result>>
        BY <1>2, <1>8 DEF Rename, Step, local
    <2> QED BY <1>1, <1>3, <2>1 DEF SoloInv, Guarded, Kept, Listed, PublishSurvivesCrash,
               CsvMatchesDatabase, Working, Published
<1>9. CASE SyncDir(b)
    <2>1. /\ pc[b] = "renamed" /\ pc'[b] = "flushed" /\ UNCHANGED <<dbName, run, result>>
          /\ synced'[b] => dbNameDisk' = dbName
        BY <1>2, <1>9 DEF SyncDir, Step
    <2> QED BY <1>1, <1>3, <2>1 DEF SoloInv, Guarded, Kept, Listed, PublishSurvivesCrash,
               CsvMatchesDatabase, Working, Published
<1>10. CASE Finish(b)
    <2>1. /\ ~WithCSV /\ pc[b] = "flushed" /\ pc'[b] = "idle"
          /\ UNCHANGED <<dbName, dbNameDisk, run, synced>>
        BY <1>2, <1>10 DEF Finish, Step, db, local
    <2> QED BY <1>1, <2>1 DEF SoloInv, Guarded, Kept, Listed, PublishSurvivesCrash,
               CsvMatchesDatabase, Working, Published
<1>11. CASE Export(b)
    <2>1. /\ pc[b] = "flushed" /\ pc'[b] = "exporting" /\ source'[b] = dbName
          /\ UNCHANGED <<dbName, dbNameDisk, run, synced, result>>
        BY <1>2, <1>11 DEF Export, Step, db
    <2> QED BY <1>1, <1>3, <2>1 DEF SoloInv, Guarded, Kept, Listed, PublishSurvivesCrash,
               CsvMatchesDatabase, Working, Published
<1>12. CASE WriteCSV(b)
    <2>1. /\ pc[b] = "exporting" /\ pc'[b] = "exported" /\ csvData'[run[b]] = source[b]
          /\ UNCHANGED <<dbName, dbNameDisk, run, synced, source, result>>
        BY <1>2, <1>12 DEF WriteCSV, Step, db, local
    <2> QED BY <1>1, <1>3, <2>1 DEF SoloInv, Guarded, Kept, Listed, PublishSurvivesCrash,
               CsvMatchesDatabase, Working, Published
<1>13. CASE RenameCSV(b)
    <2>1. /\ pc[b] = "exported" /\ pc'[b] = "idle" /\ csvName' = run[b]
          /\ UNCHANGED <<dbName, dbNameDisk, csvData, run, synced>>
        BY <1>2, <1>13 DEF RenameCSV, Step, db, local
    <2>2. run[b] # None
        BY <1>2, NoneAssumption
    <2> QED BY <1>1, <2>1, <2>2 DEF SoloInv, Guarded, Kept, Listed, PublishSurvivesCrash,
               CsvMatchesDatabase, Working, Published
<1>14. CASE Abort(b) \/ BuildFails(b) \/ SyncFails(b) \/ Refuse(b) \/ RenameFails(b)
            \/ ExportFails(b)
    BY <1>14, SoloFail DEF Abort, BuildFails, SyncFails, Refuse, RenameFails, ExportFails
<1> QED BY <1>4, <1>5, <1>6, <1>7, <1>8, <1>9, <1>10, <1>11, <1>12, <1>13, <1>14 DEF RunStep

\* So do the kernel's write-backs, a kill and a crash.
LEMMA SoloStep ==
    ASSUME SingleBuilder, IInv, SoloInv, [Next]_vars
    PROVE  SoloInv'
<1> USE DEF IInv, FileInv
<1>1. ASSUME NEW b \in Builder, RunStep(b)
      PROVE  SoloInv'
    BY <1>1, SoloRunStep
<1>2. ASSUME NEW b \in Builder, Kill(b)
      PROVE  SoloInv'
    <2>1. /\ \A d \in Builder : d = b
          /\ pc[b] # "idle" /\ pc'[b] = "idle" /\ UNCHANGED result
        BY <1>2 DEF Kill, SingleBuilder, TypeOK
    <2> QED BY <2>1 DEF SoloInv, Guarded, Kept, Listed, PublishSurvivesCrash,
               CsvMatchesDatabase, Working, Published
<1>3. ASSUME UNCHANGED <<dbData, dbName, csvData, csvName, pc, run, prev, source, result,
                         synced, crashes>>,
             dbNameDisk' \in {dbNameDisk, dbName}
      PROVE  SoloInv'
    BY <1>3 DEF SoloInv, Guarded, Kept, Listed, PublishSurvivesCrash, CsvMatchesDatabase,
                Working, Published, Standing, DroppedTooFar, Good
<1>4. CASE (\E f \in File : WriteBackData(f)) \/ WriteBackName \/ WriteBackCSVName \/ UNCHANGED vars
    BY <1>3, <1>4 DEF WriteBackData, WriteBackName, WriteBackCSVName, vars, db, csv, local
<1>5. CASE Crash
    <2>1. /\ \A b \in Builder : pc'[b] = "idle"
          /\ dbName' = dbNameDisk /\ UNCHANGED <<dbNameDisk, run, synced, result>>
          /\ crashes' # 0
        BY <1>5 DEF Crash, local, TypeOK
    <2> QED BY <2>1 DEF SoloInv, Guarded, Kept, Listed, PublishSurvivesCrash,
               CsvMatchesDatabase, Working, Published
<1> QED BY <1>1, <1>2, <1>4, <1>5 DEF Next

\* The invariant always holds of a single builder.
LEMMA SoloInductive ==
    ASSUME SingleBuilder
    PROVE  Spec => []SoloInv
<1>1. Init => SoloInv
    BY SoloInitial
<1>2. IInv /\ SoloInv /\ [Next]_vars => SoloInv'
    BY SoloStep
<1> QED BY <1>1, <1>2, Inductive, PTL DEF Spec

-----------------------------------------------------------------------------
(***************************************************************************)
(* A single builder that succeeds leaves a CSV that lists the database      *)
(* beside it (exportCSVFile opens --out after the rename).                  *)
(***************************************************************************)
THEOREM CsvListsDatabase ==
    ASSUME SingleBuilder
    PROVE  Spec => []CsvMatchesDatabase
<1>1. SoloInv => CsvMatchesDatabase
    BY DEF SoloInv
<1> QED BY <1>1, SoloInductive, PTL

(***************************************************************************)
(* Once syncDir has succeeded, no crash takes the database of a single      *)
(* builder away.                                                            *)
(***************************************************************************)
THEOREM SyncedSurvives ==
    ASSUME SingleBuilder
    PROVE  Spec => []PublishSurvivesCrash
<1>1. SoloInv => PublishSurvivesCrash
    BY DEF SoloInv
<1> QED BY <1>1, SoloInductive, PTL

(***************************************************************************)
(* The drop guard of a single builder holds against the very file its       *)
(* rename replaces, for every fraction.                                     *)
(***************************************************************************)
THEOREM GuardHolds ==
    ASSUME SingleBuilder
    PROVE  Spec => DropGuardHolds
<1>1. ASSUME IInv, SoloInv, NEW b \in Builder, DropNum > 0, Rename(b), dbName # None,
             Good(dbData[dbName])
      PROVE  dbData[dbName'].networks * DropDen
               >= dbData[dbName].networks * (DropDen - DropNum)
    <2>1. dbName' = run[b] /\ pc[b] = "guarded"
        BY <1>1 DEF Rename, Step
    <2>2. prev[b] = dbData[dbName].networks
          /\ ~DroppedTooFar(prev[b], dbData[run[b]].networks)
        BY <1>1, <2>1 DEF SoloInv, Guarded, Standing, Working
    <2>3. dbData[dbName] \in Whole /\ dbData[run[b]] \in Whole
        BY <1>1, <2>1 DEF IInv, FileInv, Sound, Checked
    <2>4. /\ dbData[dbName].networks \in 1..MaxCount /\ dbData[run[b]].networks \in 1..MaxCount
          /\ dbData[dbName].networks # None
        BY <2>3, BoundAssumption, NoneAssumption DEF Whole
    <2>5. ~(dbData[run[b]].networks * DropDen < dbData[dbName].networks * (DropDen - DropNum))
        BY <1>1, <2>2, <2>4 DEF DroppedTooFar
    <2>6. /\ dbData[run[b]].networks * DropDen \in Int
          /\ dbData[dbName].networks * (DropDen - DropNum) \in Int
        BY <2>4, BoundAssumption, FractionAssumption
    <2> QED BY <2>1, <2>5, <2>6
<1>2. IInv /\ SoloInv /\ [Next]_vars =>
        [ \A b \in Builder :
            DropNum > 0 /\ Rename(b) /\ dbName # None /\ Good(dbData[dbName]) =>
              dbData[dbName'].networks * DropDen
                >= dbData[dbName].networks * (DropDen - DropNum) ]_vars
    BY <1>1
<1> QED BY <1>2, Inductive, SoloInductive, PTL DEF Spec, DropGuardHolds
=============================================================================
