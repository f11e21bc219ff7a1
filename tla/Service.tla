------------------------------- MODULE Service -------------------------------
(***************************************************************************)
(* The shared lookup core of the server (server/service.go): one open       *)
(* database behind an atomic pointer, replaced by Reload, released by       *)
(* Close, read by any number of request goroutines.                         *)
(*                                                                          *)
(* A handle is one mmap of the file.  It is mapped when load() opens it and *)
(* unmapped by DB.Close.  Every goroutine step that another goroutine can   *)
(* observe is an action of its own: Reload opens and validates without the  *)
(* mutex, then takes it, tests closed, swaps the pointer and hands the old  *)
(* handle to a grace timer.  A lookup loads the pointer, enters the reader  *)
(* and reads the mapping in three separate steps.                           *)
(*                                                                          *)
(* Time is a set of ages: a retired handle and a running lookup each count  *)
(* the ticks since they were retired or started.  The counters of Service   *)
(* are not here: nothing in these actions reads them.                       *)
(***************************************************************************)
EXTENDS Integers, FiniteSets

CONSTANTS
    Handle,        \* mmaps the process ever makes (bounds the number of loads)
    Client,        \* request goroutines
    Reloader,      \* goroutines calling Reload
    Closer,        \* goroutines calling Close
    None,          \* no handle, no mutex owner, no answer
    Failed,        \* answer of a lookup that returned an error
    Crashed,       \* answer of a lookup that read an unmapped page
    Indexed,       \* NewServiceIndexed's index flag
    Grace,         \* closeGrace, in ticks
    MaxLookup,     \* the longest a lookup holds a handle, in ticks
    MaxVersion     \* bound on the files ever published at the path

ASSUME NoneAssumption ==
    None \notin Handle \cup Reloader \cup Closer \cup (0..MaxVersion)
ASSUME ActorAssumption == Reloader \cap Closer = {}
ASSUME IndexedAssumption == Indexed \in BOOLEAN
ASSUME VersionAssumption == MaxVersion \in Nat

(***************************************************************************)
(* What the comment on closeGrace requires: it exceeds the longest Lookup.  *)
(***************************************************************************)
ASSUME GraceAssumption ==
    Grace \in Nat /\ MaxLookup \in Nat /\ MaxLookup < Grace

VARIABLES
    file,          \* the content now at Service.path
    status,        \* of each handle
    content,       \* the content each handle maps
    age,           \* ticks since a handle was retired, NoTimer otherwise
    db,            \* Service.db, the atomic pointer
    closed,        \* Service.closed
    mu,            \* owner of Service.mu
    reloadPc,      \* where each Reload is
    mine,          \* the handle a Reload must install, close or retire
    closePc,       \* where each Close is
    lookupPc,      \* where each lookup is
    held,          \* the handle a lookup loaded from the pointer
    lookupAge,     \* ticks since it loaded it
    answer         \* what the last lookup of a client returned

shared  == <<closed, mu>>
handles == <<status, content, age>>
reload  == <<reloadPc, mine>>
lookup  == <<lookupPc, held, lookupAge, answer>>
vars == <<file, status, content, age, db, closed, mu, reloadPc, mine, closePc,
          lookupPc, held, lookupAge, answer>>

NoTimer == -1

(***************************************************************************)
(* The files that can stand at the path: one Open refuses, one Validate     *)
(* refuses (foreign type or no nodes), one that BuildIndex refuses since    *)
(* its tree or some record's provider or region does not decode, one that   *)
(* BuildIndex accepts though the rest of some record does not decode, and a *)
(* good one.  The version orders the files by publication.                  *)
(***************************************************************************)
Kind == {"unreadable", "invalid", "undecodable", "partial", "good"}
Content == [version : 0..MaxVersion, kind : Kind]

\* load() returns this content's database without an error.
Loads(c) == c.kind \in {"partial", "good"} \/ (c.kind = "undecodable" /\ ~Indexed)

\* What a lookup can return from a mapped database: an answer of that file, or
\* the error of the tree or of the record it is asked for.  LookupProvider on a
\* "partial" file never meets the error, Lookup may.
Replies(c) == {c.version} \cup (IF c.kind = "good" THEN {} ELSE {Failed})

Answer == {None, Failed, Crashed} \cup (0..MaxVersion)

TypeOK ==
    /\ file \in Content
    /\ status \in [Handle -> {"fresh", "mapped", "unmapped", "closed twice"}]
    /\ content \in [Handle -> Content]
    /\ age \in [Handle -> {NoTimer} \cup (0..Grace)]
    /\ db \in Handle
    /\ closed \in BOOLEAN
    /\ mu \in {None} \cup Reloader \cup Closer
    /\ reloadPc \in [Reloader -> {"idle", "opened", "loaded", "locked",
                                  "swapping", "retiring"}]
    /\ mine \in [Reloader -> Handle \cup {None}]
    /\ closePc \in [Closer -> {"idle", "locked", "closing", "done"}]
    /\ lookupPc \in [Client -> {"idle", "loaded", "reading", "dead"}]
    /\ held \in [Client -> Handle \cup {None}]
    /\ lookupAge \in [Client -> 0..MaxLookup]
    /\ answer \in [Client -> Answer]

(***************************************************************************)
(* NewServiceIndexed returned: its load() accepted some file and the handle *)
(* is installed.                                                            *)
(***************************************************************************)
Init ==
    /\ file \in {c \in Content : c.version = 0 /\ Loads(c)}
    /\ db \in Handle
    /\ status = [h \in Handle |-> IF h = db THEN "mapped" ELSE "fresh"]
    /\ content = [h \in Handle |-> file]
    /\ age = [h \in Handle |-> NoTimer]
    /\ closed = FALSE
    /\ mu = None
    /\ reloadPc = [r \in Reloader |-> "idle"]
    /\ mine = [r \in Reloader |-> None]
    /\ closePc = [c \in Closer |-> "idle"]
    /\ lookupPc = [l \in Client |-> "idle"]
    /\ held = [l \in Client |-> None]
    /\ lookupAge = [l \in Client |-> 0]
    /\ answer = [l \in Client |-> None]

-----------------------------------------------------------------------------
(***************************************************************************)
(* The environment: another file is renamed over the path.                  *)
(***************************************************************************)
Publish ==
    /\ file.version < MaxVersion
    /\ \E k \in Kind : file' = [version |-> file.version + 1, kind |-> k]
    /\ UNCHANGED <<handles, db, shared, reload, closePc, lookup>>

\* DB.Close: munmap.
Unmap(h) ==
    status' = [status EXCEPT ![h] = IF @ = "mapped" THEN "unmapped"
                                                    ELSE "closed twice"]

\* s.mu.Lock() can return.  The variant has no mutex.
NoMutex == TRUE
MutexFree == mu = None

-----------------------------------------------------------------------------
(***************************************************************************)
(* Reload.  A Reload whose Open fails returns at once and changes nothing,  *)
(* so it has no action.  One mmap is as good as another.                    *)
(***************************************************************************)
NextHandle == CHOOSE h \in Handle : status[h] = "fresh"

Open(r) ==
    /\ reloadPc[r] = "idle"
    /\ file.kind # "unreadable"
    /\ \E h \in Handle :
         /\ status[h] = "fresh" /\ h = NextHandle
         /\ status' = [status EXCEPT ![h] = "mapped"]
         /\ content' = [content EXCEPT ![h] = file]
         /\ mine' = [mine EXCEPT ![r] = h]
    /\ reloadPc' = [reloadPc EXCEPT ![r] = "opened"]
    /\ UNCHANGED <<file, age, db, shared, closePc, lookup>>

\* Validate or BuildIndex failed: load() closes what it opened.
Reject(r) ==
    /\ reloadPc[r] = "opened"
    /\ ~Loads(content[mine[r]])
    /\ Unmap(mine[r])
    /\ reloadPc' = [reloadPc EXCEPT ![r] = "idle"]
    /\ mine' = [mine EXCEPT ![r] = None]
    /\ UNCHANGED <<file, content, age, db, shared, closePc, lookup>>

\* Variant: the file is installed as it was opened, unchecked.
AcceptUnchecked(r) ==
    /\ reloadPc[r] = "opened"
    /\ reloadPc' = [reloadPc EXCEPT ![r] = "loaded"]
    /\ UNCHANGED <<file, handles, db, shared, mine, closePc, lookup>>

Accept(r) ==
    /\ reloadPc[r] = "opened"
    /\ Loads(content[mine[r]])
    /\ reloadPc' = [reloadPc EXCEPT ![r] = "loaded"]
    /\ UNCHANGED <<file, handles, db, shared, mine, closePc, lookup>>

LockReload(r) ==
    /\ reloadPc[r] = "loaded"
    /\ MutexFree
    /\ mu' = r
    /\ reloadPc' = [reloadPc EXCEPT ![r] = "locked"]
    /\ UNCHANGED <<file, handles, db, closed, mine, closePc, lookup>>

\* Variant: the handle is dropped, still mapped.
DiscardMapped(r) ==
    /\ reloadPc[r] = "locked"
    /\ closed
    /\ mu' = None
    /\ reloadPc' = [reloadPc EXCEPT ![r] = "idle"]
    /\ mine' = [mine EXCEPT ![r] = None]
    /\ UNCHANGED <<file, handles, db, closed, closePc, lookup>>

\* Variant: this return path forgets the unlock.
DiscardLocked(r) ==
    /\ reloadPc[r] = "locked"
    /\ closed
    /\ Unmap(mine[r])
    /\ reloadPc' = [reloadPc EXCEPT ![r] = "idle"]
    /\ mine' = [mine EXCEPT ![r] = None]
    /\ UNCHANGED <<file, content, age, db, shared, closePc, lookup>>

\* s.closed: the new handle is closed, nothing is installed.
Discard(r) ==
    /\ reloadPc[r] = "locked"
    /\ closed
    /\ Unmap(mine[r])
    /\ mu' = None
    /\ reloadPc' = [reloadPc EXCEPT ![r] = "idle"]
    /\ mine' = [mine EXCEPT ![r] = None]
    /\ UNCHANGED <<file, content, age, db, closed, closePc, lookup>>

SeeOpen(r) ==
    /\ reloadPc[r] = "locked"
    /\ ~closed
    /\ reloadPc' = [reloadPc EXCEPT ![r] = "swapping"]
    /\ UNCHANGED <<file, handles, db, shared, mine, closePc, lookup>>

\* Variant: the pointer is cleared instead of replaced.
SwapNil(r) ==
    /\ reloadPc[r] = "swapping"
    /\ db' = None
    /\ mine' = [mine EXCEPT ![r] = db]
    /\ reloadPc' = [reloadPc EXCEPT ![r] = "retiring"]
    /\ UNCHANGED <<file, handles, shared, closePc, lookup>>

\* old := s.db.Swap(db)
Swap(r) ==
    /\ reloadPc[r] = "swapping"
    /\ db' = mine[r]
    /\ mine' = [mine EXCEPT ![r] = db]
    /\ reloadPc' = [reloadPc EXCEPT ![r] = "retiring"]
    /\ UNCHANGED <<file, handles, shared, closePc, lookup>>

\* Variant: the old handle is closed synchronously.
RetireAtOnce(r) ==
    /\ reloadPc[r] = "retiring"
    /\ Unmap(mine[r])
    /\ mu' = None
    /\ reloadPc' = [reloadPc EXCEPT ![r] = "idle"]
    /\ mine' = [mine EXCEPT ![r] = None]
    /\ UNCHANGED <<file, content, age, db, closed, closePc, lookup>>

\* s.closeAfter(old) starts the grace timer, and the deferred Unlock runs.
Retire(r) ==
    /\ reloadPc[r] = "retiring"
    /\ age' = [age EXCEPT ![mine[r]] = 0]
    /\ mu' = None
    /\ reloadPc' = [reloadPc EXCEPT ![r] = "idle"]
    /\ mine' = [mine EXCEPT ![r] = None]
    /\ UNCHANGED <<file, status, content, db, closed, closePc, lookup>>

\* The timer's func() { old.Close() }, no earlier than closeGrace.
Expire(h) ==
    /\ age[h] = Grace
    /\ Unmap(h)
    /\ age' = [age EXCEPT ![h] = NoTimer]
    /\ UNCHANGED <<file, content, db, shared, reload, closePc, lookup>>

-----------------------------------------------------------------------------
(***************************************************************************)
(* Close, which may be called again; the calls after the one that found the *)
(* service closed would do what that one did.                               *)
(***************************************************************************)
LockClose(c) ==
    /\ closePc[c] = "idle"
    /\ MutexFree
    /\ mu' = c
    /\ closePc' = [closePc EXCEPT ![c] = "locked"]
    /\ UNCHANGED <<file, handles, db, closed, reload, lookup>>

CloseAgain(c) ==
    /\ closePc[c] = "locked"
    /\ closed
    /\ mu' = None
    /\ closePc' = [closePc EXCEPT ![c] = "done"]
    /\ UNCHANGED <<file, handles, db, closed, reload, lookup>>

MarkClosed(c) ==
    /\ closePc[c] = "locked"
    /\ ~closed
    /\ closed' = TRUE
    /\ closePc' = [closePc EXCEPT ![c] = "closing"]
    /\ UNCHANGED <<file, handles, db, mu, reload, lookup>>

CloseCurrent(c) ==
    /\ closePc[c] = "closing"
    /\ Unmap(db)
    /\ mu' = None
    /\ closePc' = [closePc EXCEPT ![c] = "idle"]
    /\ UNCHANGED <<file, content, age, db, closed, reload, lookup>>

-----------------------------------------------------------------------------
(***************************************************************************)
(* Lookup and LookupProvider, from the pointer load on.                     *)
(***************************************************************************)
LoadPointer(l) ==
    /\ lookupPc[l] = "idle"
    /\ held' = [held EXCEPT ![l] = db]
    /\ lookupPc' = [lookupPc EXCEPT ![l] = "loaded"]
    /\ UNCHANGED <<file, handles, db, shared, reload, closePc, lookupAge, answer>>

Return(l, a) ==
    /\ answer' = [answer EXCEPT ![l] = a]
    /\ lookupPc' = [lookupPc EXCEPT ![l] = IF a = Crashed THEN "dead" ELSE "idle"]
    /\ held' = [held EXCEPT ![l] = None]
    /\ lookupAge' = [lookupAge EXCEPT ![l] = 0]

\* The reader sees that it was closed and returns an error.
FindClosed(l) ==
    /\ lookupPc[l] = "loaded"
    /\ status[held[l]] # "mapped"
    /\ Return(l, Failed)
    /\ UNCHANGED <<file, handles, db, shared, reload, closePc>>

StartRead(l) ==
    /\ lookupPc[l] = "loaded"
    /\ status[held[l]] = "mapped"
    /\ lookupPc' = [lookupPc EXCEPT ![l] = "reading"]
    /\ UNCHANGED <<file, handles, db, shared, reload, closePc, held, lookupAge,
                   answer>>

\* Variant: the pointer is loaded a second time for the read.
FinishReadCurrent(l) ==
    /\ lookupPc[l] = "reading"
    /\ \E a \in (IF status[db] = "mapped" THEN Replies(content[db]) ELSE {Crashed}) :
         Return(l, a)
    /\ UNCHANGED <<file, handles, db, shared, reload, closePc>>

\* The tree walk and the decode, or a fault if the mapping is gone.
FinishRead(l) ==
    /\ lookupPc[l] = "reading"
    /\ \E a \in (IF status[held[l]] = "mapped" THEN Replies(content[held[l]])
                                               ELSE {Crashed}) :
         Return(l, a)
    /\ UNCHANGED <<file, handles, db, shared, reload, closePc>>

(***************************************************************************)
(* One tick.  No lookup outlives MaxLookup; a timer that is due may fire    *)
(* late, so an age stays at Grace.                                          *)
(***************************************************************************)
InFlight(l) == lookupPc[l] \in {"loaded", "reading"}

Tick ==
    /\ \A l \in Client : InFlight(l) => lookupAge[l] < MaxLookup
    /\ lookupAge' = [l \in Client |-> IF InFlight(l) THEN lookupAge[l] + 1
                                                     ELSE lookupAge[l]]
    /\ age' = [h \in Handle |-> IF age[h] \in 0..(Grace - 1) THEN age[h] + 1
                                                             ELSE age[h]]
    /\ UNCHANGED <<file, status, content, db, shared, reload, closePc, lookupPc,
                   held, answer>>

-----------------------------------------------------------------------------
ReloadStep(r) ==
    \/ Reject(r) \/ Accept(r) \/ LockReload(r) \/ Discard(r) \/ SeeOpen(r)
    \/ Swap(r) \/ Retire(r)
CloseStep(c) == CloseAgain(c) \/ MarkClosed(c) \/ CloseCurrent(c)
LookupStep(l) == FindClosed(l) \/ StartRead(l) \/ FinishRead(l)

Next ==
    \/ Publish
    \/ \E r \in Reloader : Open(r) \/ ReloadStep(r)
    \/ \E h \in Handle : Expire(h)
    \/ \E c \in Closer : LockClose(c) \/ CloseStep(c)
    \/ \E l \in Client : LoadPointer(l) \/ LookupStep(l)
    \/ Tick

Spec == Init /\ [][Next]_vars

(***************************************************************************)
(* The Go scheduler runs every runnable goroutine, a sync.Mutex in          *)
(* starvation mode is handed to each waiter in turn, and timers that are    *)
(* due fire.  Nothing obliges anyone to call Reload, Close or Lookup.       *)
(***************************************************************************)
Fairness ==
    /\ \A r \in Reloader : WF_vars(ReloadStep(r)) /\ SF_vars(LockReload(r))
    /\ \A c \in Closer : WF_vars(CloseStep(c))
    /\ \A l \in Client : WF_vars(LookupStep(l))
    /\ \A h \in Handle : WF_vars(Expire(h))
    /\ WF_vars(Tick)

FairSpec == Spec /\ Fairness

-----------------------------------------------------------------------------
(***************************************************************************)
(* A lookup in flight always finds its handle mapped, however many reloads  *)
(* swap it out underneath: Reload's comment on closeGrace.  Only Close may  *)
(* take the current handle away from a running lookup.                      *)
(***************************************************************************)
InFlightStaysMapped ==
    \A l \in Client : InFlight(l) =>
        \/ status[held[l]] = "mapped"
        \/ closed /\ held[l] = db

(***************************************************************************)
(* Until Close, the pointer is at a mapped database that load() accepted: a *)
(* rejected replacement keeps the old one serving.                          *)
(***************************************************************************)
ServesLoadedDatabase ==
    ~closed => status[db] = "mapped" /\ Loads(content[db])

(***************************************************************************)
(* No handle is closed twice, whatever Reloads, Closes and timers overlap:  *)
(* the comment on Service.mu.                                               *)
(***************************************************************************)
NoDoubleClose == \A h \in Handle : status[h] # "closed twice"

(***************************************************************************)
(* A mapped handle has someone left to unmap it: it is current, or a Reload *)
(* in progress owns it, or a timer does.  After Close has run no Reload     *)
(* leaks one: the comments on Service.mu and Close.                         *)
(***************************************************************************)
Closing == \E c \in Closer : closePc[c] = "closing"
NoLeak ==
    \A h \in Handle : status[h] = "mapped" =>
        \/ h = db /\ (~closed \/ Closing)
        \/ \E r \in Reloader : mine[r] = h
        \/ age[h] # NoTimer

(***************************************************************************)
(* Nothing is installed once the service is closed.                         *)
(***************************************************************************)
NoInstallAfterClose == [][closed => db' = db]_vars

(***************************************************************************)
(* The Service implements HotSwap: the handle a lookup loaded is where it   *)
(* is bound, so a reload in the middle neither changes its answer nor fails *)
(* it (the package comment of service.go).  A lookup fails only for what is *)
(* in its own file, or after Close.                                         *)
(***************************************************************************)
databaseOf(c) == [version |-> c.version, sound |-> c.kind = "good"]
boundTo == [l \in Client |->
                IF InFlight(l) THEN databaseOf(content[held[l]]) ELSE None]

ASSUME DatabaseAssumption == None \notin [version : 0..MaxVersion, sound : BOOLEAN]

Abstract == INSTANCE HotSwap WITH
    Version <- 0..MaxVersion,
    current <- databaseOf(content[db]),
    open    <- ~closed,
    bound   <- boundTo

ImplementsHotSwap == Abstract!Spec
ImplementsFairHotSwap == Abstract!FairSpec

(***************************************************************************)
(* With one goroutine calling Reload, as serve has, the database is never   *)
(* replaced by that of an older file, and a client never gets an answer     *)
(* from an older file than its last, however lookups overlap the reloads.   *)
(* Of two Reloads the slower would install what it opened first: load()     *)
(* runs before the mutex is taken.                                          *)
(***************************************************************************)
OneReload == \A r, s \in Reloader : r = s

served == content[db].version
NeverOlder == [][served <= served']_vars

Answered(a) == a \notin {None, Failed, Crashed}
ReadsNeverGoBack ==
    [][\A l \in Client : Answered(answer[l]) /\ Answered(answer'[l])
                            => answer[l] <= answer'[l]]_vars

(***************************************************************************)
(* A mapping other than the one being served is released or becomes the one *)
(* being served: retired handles by their timer, a rejected file by load(), *)
(* everything once the service is closed.                                   *)
(***************************************************************************)
Serving(h) == h = db /\ ~closed
NoMappingLingers ==
    \A h \in Handle :
        status[h] = "mapped" /\ ~Serving(h) ~> status[h] # "mapped" \/ Serving(h)

(***************************************************************************)
(* Every Reload that opened a file returns, whatever others do with mu.     *)
(***************************************************************************)
ReloadReturns ==
    \A r \in Reloader : reloadPc[r] # "idle" ~> reloadPc[r] = "idle"
=============================================================================
