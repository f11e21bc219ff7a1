---------------------------- MODULE ServiceProofs ----------------------------
(***************************************************************************)
(* Proofs about Service for any sets of goroutines, any number of handles   *)
(* and any Grace longer than MaxLookup.                                     *)
(***************************************************************************)
EXTENDS Service, TLAPS

(***************************************************************************)
(* The parts of the inductive invariant.                                    *)
(***************************************************************************)

\* A busy Reload owns one mapped handle that nobody else knows of.
Private(h) ==
    h \in Handle /\ status[h] = "mapped" /\ age[h] = NoTimer /\ h # db

Owners ==
    /\ \A r \in Reloader : reloadPc[r] = "idle" => mine[r] = None
    /\ \A r \in Reloader : reloadPc[r] # "idle" => Private(mine[r])
    /\ \A r, s \in Reloader : reloadPc[r] # "idle" /\ mine[r] = mine[s] => r = s

\* A timer runs for a mapped handle that is not the current one.
Timers == \A h \in Handle : age[h] # NoTimer => status[h] = "mapped" /\ h # db

\* mu is owned by whoever is between Lock and Unlock, and closed is stable there.
Mutex ==
    /\ \A r \in Reloader :
          mu = r <=> reloadPc[r] \in {"locked", "swapping", "retiring"}
    /\ \A c \in Closer : mu = c <=> closePc[c] \in {"locked", "closing"}
    /\ \A r \in Reloader : reloadPc[r] \in {"swapping", "retiring"} => ~closed
    /\ Closing => closed

\* The current handle stays mapped until Close unmaps it, and it was accepted.
Current ==
    /\ status[db] = "mapped" \/ (closed /\ ~Closing)
    /\ Loads(content[db])
    /\ status[db] # "fresh"
    /\ \A r \in Reloader : reloadPc[r] \in {"loaded", "locked", "swapping"} =>
          Loads(content[mine[r]])

\* A lookup in flight holds the current handle, one about to be retired, or one
\* whose timer started after the lookup did.
Holders ==
    \A l \in Client : InFlight(l) =>
        /\ held[l] \in Handle
        /\ \/ held[l] = db
           \/ \E r \in Reloader : reloadPc[r] = "retiring" /\ mine[r] = held[l]
           \/ age[held[l]] # NoTimer /\ age[held[l]] <= lookupAge[l]

Inv ==
    TypeOK /\ Owners /\ Timers /\ Mutex /\ Current /\ Holders
    /\ NoDoubleClose /\ NoLeak

-----------------------------------------------------------------------------
LEMMA ContentType ==
    ASSUME NEW c \in Content
    PROVE  c.version \in 0..MaxVersion /\ c.kind \in Kind
  BY DEF Content

(***************************************************************************)
(* The initial state.                                                       *)
(***************************************************************************)
LEMMA InitInv == Init => Inv
<1> SUFFICES ASSUME Init PROVE Inv
  OBVIOUS
<1> USE NoneAssumption DEF Init, NoTimer
<1>1. file \in Content /\ Loads(file)
  OBVIOUS
<1>2. TypeOK
  <2>1. status \in [Handle -> {"fresh", "mapped", "unmapped", "closed twice"}]
    OBVIOUS
  <2>2. /\ age \in [Handle -> {NoTimer} \cup (0..Grace)]
        /\ lookupAge \in [Client -> 0..MaxLookup]
    BY GraceAssumption
  <2>3. /\ reloadPc \in [Reloader -> {"idle", "opened", "loaded", "locked",
                                      "swapping", "retiring"}]
        /\ mine \in [Reloader -> Handle \cup {None}]
        /\ closePc \in [Closer -> {"idle", "locked", "closing", "done"}]
    OBVIOUS
  <2>4. /\ lookupPc \in [Client -> {"idle", "loaded", "reading", "dead"}]
        /\ held \in [Client -> Handle \cup {None}]
        /\ answer \in [Client -> Answer]
    BY DEF Answer
  <2>5. db \in Handle /\ content \in [Handle -> Content]
    BY <1>1
  <2> QED BY <1>1, <2>1, <2>2, <2>3, <2>4, <2>5 DEF TypeOK
<1>3. Owners /\ Timers
  BY DEF Owners, Timers
<1>4. Mutex
  BY DEF Mutex, Closing
<1>5. Current
  BY <1>1 DEF Current
<1>6. Holders
  BY DEF Holders, InFlight
<1>7. NoDoubleClose /\ NoLeak
  BY DEF NoDoubleClose, NoLeak
<1> QED BY <1>2, <1>3, <1>4, <1>5, <1>6, <1>7 DEF Inv

-----------------------------------------------------------------------------
(***************************************************************************)
(* Steps that leave the handles, or the lookups, alone.                     *)
(***************************************************************************)
LEMMA HandlesFrame ==
    ASSUME Inv, UNCHANGED <<handles, db, shared, reload, closePc>>
    PROVE  Owners' /\ Timers' /\ Mutex' /\ Current' /\ NoDoubleClose' /\ NoLeak'
<1> USE DEF handles, shared, reload, Inv
<1>1. Owners'
  BY DEF Owners, Private
<1>2. Timers'
  BY DEF Timers
<1>3. Mutex'
  BY DEF Mutex, Closing
<1>4. Current'
  BY DEF Current, Closing
<1>5. NoDoubleClose'
  BY DEF NoDoubleClose
<1>6. NoLeak'
  BY DEF NoLeak, Closing
<1> QED BY <1>1, <1>2, <1>3, <1>4, <1>5, <1>6

LEMMA HoldersFrame ==
    ASSUME Inv, UNCHANGED <<db, age, lookup>>,
           \A r \in Reloader : reloadPc[r] = "retiring" =>
               reloadPc'[r] = "retiring" /\ mine'[r] = mine[r]
    PROVE  Holders'
  BY DEF Holders, InFlight, lookup, Inv

LEMMA PublishKeeps ==
    ASSUME Inv, Publish
    PROVE  Inv'
<1>1. file' \in Content
  <2>0. file.version \in 0..MaxVersion
    BY ContentType DEF Inv, TypeOK
  <2>1. file.version + 1 \in 0..MaxVersion
    BY <2>0, VersionAssumption DEF Publish
  <2>2. PICK k \in Kind : file' = [version |-> file.version + 1, kind |-> k]
    BY DEF Publish
  <2> QED BY <2>1, <2>2 DEF Content
<1>2. TypeOK'
  BY <1>1 DEF Publish, Inv, TypeOK, handles, shared, reload, lookup
<1>3. Holders'
  BY HoldersFrame DEF Publish, handles, reload
<1> QED BY <1>2, <1>3, HandlesFrame DEF Publish, Inv

-----------------------------------------------------------------------------
(***************************************************************************)
(* Reload.                                                                  *)
(***************************************************************************)
LEMMA OpenKeeps ==
    ASSUME Inv, NEW r \in Reloader, Open(r)
    PROVE  Inv'
<1> USE DEF Inv, shared, lookup
<1> PICK h \in Handle :
        /\ status[h] = "fresh"
        /\ status' = [status EXCEPT ![h] = "mapped"]
        /\ content' = [content EXCEPT ![h] = file]
        /\ mine' = [mine EXCEPT ![r] = h]
  BY DEF Open
<1>1. reloadPc' = [reloadPc EXCEPT ![r] = "opened"] /\ reloadPc[r] = "idle"
  BY DEF Open
<1>2. UNCHANGED <<file, age, db, closed, mu, closePc, lookupPc, held, lookupAge,
                  answer>>
  BY DEF Open
<1>3. h # db /\ age[h] = NoTimer
  BY DEF Current, Timers
<1>4. TypeOK'
  BY <1>1, <1>2 DEF TypeOK
<1>5. Owners'
  <2>1. mine'[r] = h /\ status'[h] = "mapped"
    BY DEF TypeOK
  <2>2. \A s \in Reloader : s # r => mine'[s] = mine[s] /\ reloadPc'[s] = reloadPc[s]
    BY <1>1 DEF TypeOK
  <2>3. \A s \in Reloader : mine[s] # h
    BY NoneAssumption DEF Owners, Private
  <2>4. \A g \in Handle : g # h => status'[g] = status[g]
    BY DEF TypeOK
  <2>5. \A s \in Reloader : reloadPc'[s] # "idle" => Private(mine[s])'
    <3> SUFFICES ASSUME NEW s \in Reloader, reloadPc'[s] # "idle"
                 PROVE  Private(mine[s])'
      OBVIOUS
    <3>1. CASE s = r
      BY <1>2, <1>3, <2>1, <3>1 DEF Private
    <3>2. CASE s # r
      BY <1>2, <2>2, <2>3, <2>4, <3>2 DEF Owners, Private
    <3> QED BY <3>1, <3>2
  <2>6. \A s \in Reloader : reloadPc'[s] = "idle" => s # r
    BY <1>1 DEF TypeOK
  <2> QED BY <2>1, <2>2, <2>3, <2>5, <2>6 DEF Owners
<1>6. Timers'
  BY <1>2, <1>3 DEF TypeOK, Timers
<1>7. Mutex'
  BY <1>1, <1>2 DEF TypeOK, Mutex, Closing
<1>8. Current'
  BY <1>1, <1>2, <1>3 DEF TypeOK, Current, Closing, Owners, Private
<1>9. Holders'
  BY <1>1, <1>2, HoldersFrame DEF TypeOK
<1>10. NoDoubleClose'
  BY DEF TypeOK, NoDoubleClose
<1>11. NoLeak'
  <2>1. mine'[r] = h
    BY DEF TypeOK
  <2>2. mine[r] = None
    BY <1>1 DEF Owners
  <2>3. \A s \in Reloader : mine[s] \in Handle => mine'[s] = mine[s]
    BY <2>2, NoneAssumption DEF TypeOK
  <2>4. \A g \in Handle : g # h => status'[g] = status[g]
    BY DEF TypeOK
  <2> QED BY <1>2, <2>1, <2>3, <2>4 DEF NoLeak, Closing
<1> QED BY <1>4, <1>5, <1>6, <1>7, <1>8, <1>9, <1>10, <1>11

(***************************************************************************)
(* A Reload that moves on with the handle it owns.                          *)
(***************************************************************************)
LEMMA MovesOn ==
    ASSUME Inv, NEW r \in Reloader, NEW p, p # "idle", reloadPc[r] # "idle",
           reloadPc' = [reloadPc EXCEPT ![r] = p],
           UNCHANGED <<handles, db, mine>>
    PROVE  Owners' /\ Timers'
<1>1. \A s \in Reloader : reloadPc'[s] = "idle" <=> reloadPc[s] = "idle"
  BY DEF Inv, TypeOK
<1>2. Owners'
  BY <1>1 DEF Inv, Owners, Private, handles
<1>3. Timers'
  BY DEF Inv, Timers, handles
<1> QED BY <1>2, <1>3

(***************************************************************************)
(* A Reload that gives its handle up and is idle.                           *)
(***************************************************************************)
LEMMA LetsGo ==
    ASSUME TypeOK, Owners, NEW r \in Reloader, reloadPc[r] # "idle",
           reloadPc' = [reloadPc EXCEPT ![r] = "idle"],
           mine' = [mine EXCEPT ![r] = None],
           \A h \in Handle : h # mine[r] => status'[h] = status[h] /\ age'[h] = age[h],
           db' = db
    PROVE  Owners'
<1>1. reloadPc'[r] = "idle" /\ mine'[r] = None
  BY DEF TypeOK
<1>2. \A s \in Reloader : s # r => reloadPc'[s] = reloadPc[s] /\ mine'[s] = mine[s]
  BY DEF TypeOK
<1>3. \A s \in Reloader : s # r /\ reloadPc[s] # "idle" =>
          Private(mine[s]) /\ mine[s] # mine[r]
  BY DEF Owners
<1>4. \A s \in Reloader : s # r /\ reloadPc[s] # "idle" => Private(mine[s])'
  BY <1>2, <1>3 DEF Private
<1>5. \A s \in Reloader : reloadPc'[s] = "idle" => mine'[s] = None
  BY <1>1, <1>2 DEF Owners
<1>6. \A s, t \in Reloader : reloadPc'[s] # "idle" /\ mine'[s] = mine'[t] => s = t
  <2> SUFFICES ASSUME NEW s \in Reloader, NEW t \in Reloader,
                      reloadPc'[s] # "idle", mine'[s] = mine'[t]
               PROVE  s = t
    OBVIOUS
  <2>1. s # r /\ mine'[s] # None
    BY <1>1, <1>2, <1>3, NoneAssumption DEF Private
  <2>2. t # r
    BY <1>1, <2>1
  <2> QED BY <1>2, <2>1, <2>2 DEF Owners
<1> QED BY <1>1, <1>2, <1>4, <1>5, <1>6 DEF Owners

(***************************************************************************)
(* Reject and Discard: a Reload closes the handle it owns and is idle.      *)
(***************************************************************************)
LEMMA GiveUpKeeps ==
    ASSUME Inv, NEW r \in Reloader, reloadPc[r] # "idle", reloadPc[r] # "retiring",
           Unmap(mine[r]),
           reloadPc' = [reloadPc EXCEPT ![r] = "idle"],
           mine' = [mine EXCEPT ![r] = None],
           UNCHANGED <<content, age, db, closed, closePc, lookup>>
    PROVE  Owners' /\ Timers' /\ Current' /\ Holders' /\ NoDoubleClose' /\ NoLeak'
<1> USE DEF Inv, lookup
<1>1. Private(mine[r])
  BY DEF Owners
<1>2. status' = [status EXCEPT ![mine[r]] = "unmapped"]
  BY <1>1 DEF Unmap, Private, TypeOK
<1>3. Owners'
  <2>1. \A h \in Handle : h # mine[r] => status'[h] = status[h] /\ age'[h] = age[h]
    BY <1>2 DEF TypeOK
  <2> QED BY <2>1, LetsGo
<1>4. Timers'
  BY <1>1, <1>2 DEF TypeOK, Timers, Private
<1>5. Current'
  BY <1>1, <1>2 DEF TypeOK, Current, Closing, Private
<1>6. Holders'
  BY HoldersFrame DEF TypeOK
<1>7. NoDoubleClose'
  BY <1>1, <1>2 DEF TypeOK, NoDoubleClose, Private
<1>8. NoLeak'
  BY <1>1, <1>2 DEF TypeOK, NoLeak, Closing, Private, Owners
<1> QED BY <1>3, <1>4, <1>5, <1>6, <1>7, <1>8

LEMMA RejectKeeps ==
    ASSUME Inv, NEW r \in Reloader, Reject(r)
    PROVE  Inv'
<1> USE DEF Inv, shared, lookup
<1>1. TypeOK'
  BY DEF Reject, Unmap, TypeOK
<1>2. Mutex'
  BY DEF Reject, TypeOK, Mutex, Closing
<1> QED BY <1>1, <1>2, GiveUpKeeps DEF Reject

LEMMA AcceptKeeps ==
    ASSUME Inv, NEW r \in Reloader, Accept(r)
    PROVE  Inv'
<1> USE DEF Inv, handles, shared, lookup, Accept
<1>1. TypeOK'
  BY DEF TypeOK
<1>2. Owners' /\ Timers'
  BY MovesOn
<1>3. Mutex'
  BY DEF TypeOK, Mutex, Closing
<1>4. Current'
  BY DEF TypeOK, Current, Closing
<1>5. Holders'
  BY HoldersFrame DEF TypeOK
<1>6. NoDoubleClose' /\ NoLeak'
  BY DEF NoDoubleClose, NoLeak, Closing
<1> QED BY <1>1, <1>2, <1>3, <1>4, <1>5, <1>6

LEMMA LockReloadKeeps ==
    ASSUME Inv, NEW r \in Reloader, LockReload(r)
    PROVE  Inv'
<1> USE DEF Inv, handles, lookup, LockReload
<1>1. TypeOK'
  BY DEF TypeOK
<1>2. Owners' /\ Timers'
  BY MovesOn
<1>3. Mutex'
  <2>1. /\ mu = None /\ mu' = r /\ reloadPc[r] = "loaded" /\ UNCHANGED <<closed, closePc>>
        /\ reloadPc' = [reloadPc EXCEPT ![r] = "locked"]
    BY DEF MutexFree
  <2>2. r # None /\ \A c \in Closer : c # r /\ c # None
    BY NoneAssumption, ActorAssumption
  <2>3. \A s \in Reloader : s # None
    BY NoneAssumption
  <2>4. \A s \in Reloader : reloadPc'[s] = IF s = r THEN "locked" ELSE reloadPc[s]
    BY <2>1 DEF TypeOK
  <2> HIDE DEF LockReload
  <2> QED BY <2>1, <2>2, <2>3, <2>4 DEF Mutex, Closing
<1>4. Current'
  BY DEF TypeOK, Current, Closing
<1>5. Holders'
  BY HoldersFrame DEF TypeOK
<1>6. NoDoubleClose' /\ NoLeak'
  BY DEF NoDoubleClose, NoLeak, Closing
<1> QED BY <1>1, <1>2, <1>3, <1>4, <1>5, <1>6

LEMMA DiscardKeeps ==
    ASSUME Inv, NEW r \in Reloader, Discard(r)
    PROVE  Inv'
<1> USE DEF Inv, lookup
<1>1. TypeOK'
  BY DEF Discard, Unmap, TypeOK
<1>2. Mutex'
  BY NoneAssumption, ActorAssumption DEF Discard, TypeOK, Mutex, Closing
<1> QED BY <1>1, <1>2, GiveUpKeeps DEF Discard

LEMMA SeeOpenKeeps ==
    ASSUME Inv, NEW r \in Reloader, SeeOpen(r)
    PROVE  Inv'
<1> USE DEF Inv, handles, shared, lookup, SeeOpen
<1>1. TypeOK'
  BY DEF TypeOK
<1>2. Owners' /\ Timers'
  BY MovesOn
<1>3. Mutex'
  BY DEF TypeOK, Mutex, Closing
<1>4. Current'
  BY DEF TypeOK, Current, Closing
<1>5. Holders'
  BY HoldersFrame DEF TypeOK
<1>6. NoDoubleClose' /\ NoLeak'
  BY DEF NoDoubleClose, NoLeak, Closing
<1> QED BY <1>1, <1>2, <1>3, <1>4, <1>5, <1>6

LEMMA SwapKeeps ==
    ASSUME Inv, NEW r \in Reloader, Swap(r)
    PROVE  Inv'
<1> USE DEF Inv, handles, shared, lookup, Swap
<1>1. Private(mine[r]) /\ ~closed
  BY DEF Owners, Mutex
<1>2. db \in Handle /\ status[db] = "mapped" /\ age[db] = NoTimer
  BY <1>1 DEF Current, Timers, TypeOK
<1>3. TypeOK'
  BY <1>1, <1>2 DEF TypeOK, Private
<1>4. Owners'
  <2>1. \A s \in Reloader : s # r => mine'[s] = mine[s] /\ reloadPc'[s] = reloadPc[s]
    BY DEF TypeOK
  <2>2. mine'[r] = db /\ reloadPc'[r] = "retiring"
    BY DEF TypeOK
  <2>3. \A s \in Reloader : s # r => mine[s] # mine[r] /\ mine[s] # db
    BY <1>1, <1>2, NoneAssumption DEF Owners, Private
  <2> QED BY <1>1, <1>2, <2>1, <2>2, <2>3 DEF Owners, Private
<1>5. Timers'
  BY <1>1 DEF TypeOK, Timers, Private
<1>6. Mutex'
  BY DEF TypeOK, Mutex, Closing
<1>7. Current'
  BY <1>1 DEF TypeOK, Current, Closing, Private
<1>8. Holders'
  BY DEF TypeOK, Holders, InFlight
<1>9. NoDoubleClose'
  BY DEF NoDoubleClose
<1>10. NoLeak'
  BY <1>1 DEF TypeOK, NoLeak, Closing
<1> QED BY <1>3, <1>4, <1>5, <1>6, <1>7, <1>8, <1>9, <1>10

LEMMA RetireKeeps ==
    ASSUME Inv, NEW r \in Reloader, Retire(r)
    PROVE  Inv'
<1> USE GraceAssumption DEF Inv, lookup, Retire, NoTimer
<1>1. Private(mine[r])
  BY DEF Owners
<1>2. TypeOK'
  <2>0. 0 \in 0..Grace
    OBVIOUS
  <2>1. age' \in [Handle -> {NoTimer} \cup (0..Grace)]
    BY <2>0 DEF TypeOK
  <2> QED BY <2>1 DEF TypeOK
<1>3. Owners'
  BY <1>1, LetsGo DEF TypeOK
<1>4. Timers'
  BY <1>1 DEF TypeOK, Timers, Private
<1>5. Mutex'
  BY NoneAssumption, ActorAssumption DEF TypeOK, Mutex, Closing
<1>6. Current'
  BY DEF TypeOK, Current, Closing
<1>7. Holders'
  <2> SUFFICES ASSUME NEW l \in Client, InFlight(l)
               PROVE  /\ held[l] \in Handle
                      /\ \/ held[l] = db
                         \/ \E s \in Reloader :
                               reloadPc'[s] = "retiring" /\ mine'[s] = held[l]
                         \/ age'[held[l]] # NoTimer /\ age'[held[l]] <= lookupAge[l]
    BY DEF Holders, InFlight
  <2>0. lookupAge[l] \in 0..MaxLookup
    BY DEF TypeOK
  <2>1. held[l] \in Handle /\ lookupAge[l] >= 0
    BY <2>0 DEF Holders
  <2>2. CASE held[l] = mine[r]
    <3>1. age'[held[l]] = 0
      BY <1>1, <2>2 DEF TypeOK, Private
    <3> QED BY <2>0, <2>1, <3>1
  <2>3. CASE held[l] # mine[r]
    BY <1>1, <2>1, <2>3 DEF TypeOK, Private, Holders
  <2> QED BY <2>2, <2>3
<1>8. NoDoubleClose'
  BY DEF NoDoubleClose
<1>9. NoLeak'
  <2>1. \A h \in Handle : age'[h] = IF h = mine[r] THEN 0 ELSE age[h]
    BY DEF TypeOK
  <2>2. \A s \in Reloader : s # r => mine'[s] = mine[s]
    BY DEF TypeOK
  <2> QED BY <2>1, <2>2 DEF NoLeak, Closing
<1> QED BY <1>2, <1>3, <1>4, <1>5, <1>6, <1>7, <1>8, <1>9

(***************************************************************************)
(* A due timer: its handle was retired Grace ticks ago, so no lookup that   *)
(* is still running can hold it.                                            *)
(***************************************************************************)
LEMMA ExpireKeeps ==
    ASSUME Inv, NEW h \in Handle, Expire(h)
    PROVE  Inv'
<1> USE GraceAssumption DEF Inv, shared, reload, lookup, Expire, NoTimer
<1>1. status[h] = "mapped" /\ h # db
  BY DEF Timers
<1>2. status' = [status EXCEPT ![h] = "unmapped"]
  BY <1>1 DEF Unmap, TypeOK
<1>3. TypeOK'
  BY <1>2 DEF TypeOK
<1>4. Owners'
  <2>1. \A s \in Reloader : reloadPc[s] # "idle" => mine[s] # h
    BY DEF Owners, Private
  <2> QED BY <1>2, <2>1 DEF TypeOK, Owners, Private
<1>5. Timers'
  BY <1>2 DEF TypeOK, Timers
<1>6. Mutex'
  BY DEF Mutex, Closing
<1>7. Current'
  BY <1>1, <1>2 DEF TypeOK, Current, Closing
<1>8. Holders'
  <2>1. \A l \in Client : lookupAge[l] \in 0..MaxLookup
    BY DEF TypeOK
  <2>2. \A l \in Client : InFlight(l) /\ held[l] = h =>
          \E r \in Reloader : reloadPc[r] = "retiring" /\ mine[r] = h
    BY <1>1, <2>1 DEF Holders
  <2>3. \A g \in Handle : g # h => age'[g] = age[g]
    BY DEF TypeOK
  <2> QED BY <2>2, <2>3 DEF Holders, InFlight
<1>9. NoDoubleClose'
  BY <1>2 DEF TypeOK, NoDoubleClose
<1>10. NoLeak'
  BY <1>2 DEF TypeOK, NoLeak, Closing
<1> QED BY <1>3, <1>4, <1>5, <1>6, <1>7, <1>8, <1>9, <1>10

-----------------------------------------------------------------------------
(***************************************************************************)
(* Close.                                                                   *)
(***************************************************************************)
LEMMA LockCloseKeeps ==
    ASSUME Inv, NEW c \in Closer, LockClose(c)
    PROVE  Inv'
<1> USE DEF Inv, handles, reload, lookup, LockClose
<1>1. TypeOK'
  BY DEF TypeOK
<1>2. Owners' /\ Timers'
  BY DEF Owners, Private, Timers
<1>3. Mutex'
  <2>1. \A r \in Reloader : reloadPc[r] \notin {"locked", "swapping", "retiring"}
    BY NoneAssumption DEF Mutex, MutexFree
  <2>2. \A d \in Closer : closePc[d] \notin {"locked", "closing"}
    BY NoneAssumption DEF Mutex, MutexFree
  <2>3. mu' = c /\ \A r \in Reloader : r # c
    BY ActorAssumption
  <2>4. closePc'[c] = "locked" /\ \A d \in Closer : d # c => closePc'[d] = closePc[d]
    BY DEF TypeOK
  <2> QED BY <2>1, <2>2, <2>3, <2>4 DEF Mutex, Closing
<1>4. Closing' <=> Closing
  BY DEF TypeOK, Closing
<1>5. Current'
  BY <1>4 DEF Current
<1>6. Holders'
  BY HoldersFrame
<1>7. NoDoubleClose' /\ NoLeak'
  BY <1>4 DEF NoDoubleClose, NoLeak
<1> QED BY <1>1, <1>2, <1>3, <1>5, <1>6, <1>7

LEMMA CloseAgainKeeps ==
    ASSUME Inv, NEW c \in Closer, CloseAgain(c)
    PROVE  Inv'
<1> USE DEF Inv, handles, reload, lookup, CloseAgain
<1>1. TypeOK'
  BY DEF TypeOK
<1>2. Owners' /\ Timers'
  BY DEF Owners, Private, Timers
<1>3. Mutex'
  BY NoneAssumption, ActorAssumption DEF TypeOK, Mutex, Closing
<1>4. Closing' <=> Closing
  BY DEF TypeOK, Closing
<1>5. Current'
  BY <1>4 DEF Current
<1>6. Holders'
  BY HoldersFrame
<1>7. NoDoubleClose' /\ NoLeak'
  BY <1>4 DEF NoDoubleClose, NoLeak
<1> QED BY <1>1, <1>2, <1>3, <1>5, <1>6, <1>7

LEMMA MarkClosedKeeps ==
    ASSUME Inv, NEW c \in Closer, MarkClosed(c)
    PROVE  Inv'
<1> USE DEF Inv, handles, reload, lookup, MarkClosed
<1>1. TypeOK'
  BY DEF TypeOK
<1>2. Owners' /\ Timers'
  BY DEF Owners, Private, Timers
<1>3. Mutex'
  BY ActorAssumption DEF TypeOK, Mutex, Closing
<1>4. Closing'
  BY DEF TypeOK, Closing
<1>5. Current'
  BY DEF Current
<1>6. Holders'
  BY HoldersFrame
<1>7. NoDoubleClose' /\ NoLeak'
  BY <1>4 DEF NoDoubleClose, NoLeak
<1> QED BY <1>1, <1>2, <1>3, <1>5, <1>6, <1>7

LEMMA CloseCurrentKeeps ==
    ASSUME Inv, NEW c \in Closer, CloseCurrent(c)
    PROVE  Inv'
<1> USE DEF Inv, reload, lookup, CloseCurrent
<1>1. closed /\ status[db] = "mapped" /\ db \in Handle
  BY DEF Mutex, Closing, Current, TypeOK
<1>2. status' = [status EXCEPT ![db] = "unmapped"]
  BY <1>1 DEF Unmap, TypeOK
<1>3. ~Closing'
  BY ActorAssumption DEF TypeOK, Mutex, Closing
<1>4. TypeOK'
  BY <1>2 DEF TypeOK
<1>5. Owners'
  BY <1>2 DEF TypeOK, Owners, Private
<1>6. Timers'
  BY <1>2 DEF TypeOK, Timers
<1>7. Mutex'
  BY <1>3, NoneAssumption, ActorAssumption DEF TypeOK, Mutex
<1>8. Current'
  BY <1>1, <1>2, <1>3 DEF TypeOK, Current
<1>9. Holders'
  BY HoldersFrame
<1>10. NoDoubleClose'
  BY <1>2 DEF TypeOK, NoDoubleClose
<1>11. NoLeak'
  BY <1>1, <1>2 DEF TypeOK, NoLeak, Closing
<1> QED BY <1>4, <1>5, <1>6, <1>7, <1>8, <1>9, <1>10, <1>11

-----------------------------------------------------------------------------
(***************************************************************************)
(* Lookups, and time.                                                       *)
(***************************************************************************)
LEMMA LoadPointerKeeps ==
    ASSUME Inv, NEW l \in Client, LoadPointer(l)
    PROVE  Inv'
<1> USE DEF Inv
<1>1. TypeOK'
  BY DEF LoadPointer, TypeOK, handles, shared, reload
<1>2. Holders'
  BY DEF LoadPointer, TypeOK, Holders, InFlight, handles, reload
<1> QED BY <1>1, <1>2, HandlesFrame DEF LoadPointer

LEMMA StartReadKeeps ==
    ASSUME Inv, NEW l \in Client, StartRead(l)
    PROVE  Inv'
<1> USE DEF Inv
<1>1. TypeOK'
  BY DEF StartRead, TypeOK, handles, shared, reload
<1>2. Holders'
  BY DEF StartRead, TypeOK, Holders, InFlight, handles, reload
<1> QED BY <1>1, <1>2, HandlesFrame DEF StartRead

(***************************************************************************)
(* FindClosed and FinishRead: the lookup returns.                           *)
(***************************************************************************)
LEMMA ReturnKeeps ==
    ASSUME Inv, NEW l \in Client, NEW a \in Answer, Return(l, a),
           UNCHANGED <<file, handles, db, shared, reload, closePc>>
    PROVE  Inv'
<1> USE DEF Inv, Return
<1>1. TypeOK'
  <2>0. 0 \in 0..MaxLookup
    BY GraceAssumption
  <2>1. lookupAge' \in [Client -> 0..MaxLookup]
    BY <2>0 DEF TypeOK
  <2>2. lookupPc' \in [Client -> {"idle", "loaded", "reading", "dead"}]
    BY DEF TypeOK
  <2> QED BY <2>1, <2>2 DEF TypeOK, handles, shared, reload
<1>2. Holders'
  BY DEF TypeOK, Holders, InFlight, handles, reload
<1> QED BY <1>1, <1>2, HandlesFrame

LEMMA FindClosedKeeps ==
    ASSUME Inv, NEW l \in Client, FindClosed(l)
    PROVE  Inv'
<1>1. Failed \in Answer
  BY DEF Answer
<1> QED BY <1>1, ReturnKeeps DEF FindClosed

LEMMA FinishReadKeeps ==
    ASSUME Inv, NEW l \in Client, FinishRead(l)
    PROVE  Inv'
<1>1. held[l] \in Handle
  BY DEF FinishRead, Inv, Holders, InFlight
<1>2. content[held[l]].version \in 0..MaxVersion
  BY <1>1, ContentType DEF Inv, TypeOK
<1>3. PICK a : /\ a \in (IF status[held[l]] = "mapped" THEN Replies(content[held[l]])
                                                      ELSE {Crashed})
               /\ Return(l, a)
               /\ UNCHANGED <<file, handles, db, shared, reload, closePc>>
  BY DEF FinishRead
<1>4. a \in Answer
  BY <1>2, <1>3 DEF Answer, Replies
<1> QED BY <1>3, <1>4, ReturnKeeps

LEMMA TickKeeps ==
    ASSUME Inv, Tick
    PROVE  Inv'
<1> USE GraceAssumption DEF Inv, NoTimer, shared, reload, Tick
<1>0. /\ age \in [Handle -> {NoTimer} \cup (0..Grace)]
      /\ lookupAge \in [Client -> 0..MaxLookup]
  BY DEF TypeOK
<1>1. age' \in [Handle -> {NoTimer} \cup (0..Grace)]
  <2>1. \A h \in Handle : age'[h] \in {NoTimer} \cup (0..Grace)
    BY <1>0
  <2> QED BY <2>1
<1>2. lookupAge' \in [Client -> 0..MaxLookup]
  <2>1. \A l \in Client : lookupAge'[l] \in 0..MaxLookup
    BY <1>0
  <2> QED BY <2>1
<1>3. TypeOK'
  BY <1>1, <1>2 DEF TypeOK
<1>4. \A h \in Handle : /\ age'[h] = NoTimer <=> age[h] = NoTimer
                        /\ age'[h] <= age[h] + 1
  BY <1>0
<1>5. Owners'
  BY <1>4 DEF TypeOK, Owners, Private
<1>6. Timers'
  BY <1>4 DEF Timers
<1>7. Mutex' /\ Current'
  BY DEF Mutex, Current, Closing
<1>8. Holders'
  <2>1. \A l \in Client : InFlight(l) =>
          lookupAge'[l] = lookupAge[l] + 1 /\ lookupAge[l] \in Nat
    BY <1>0
  <2>2. \A h \in Handle : age[h] \in Int /\ age'[h] \in Int
    BY <1>0, <1>1
  <2> QED BY <1>4, <2>1, <2>2 DEF Holders, InFlight
<1>9. NoDoubleClose'
  BY DEF NoDoubleClose
<1>10. NoLeak'
  BY <1>4 DEF NoLeak, Closing
<1> QED BY <1>3, <1>5, <1>6, <1>7, <1>8, <1>9, <1>10

-----------------------------------------------------------------------------
(***************************************************************************)
(* Every step keeps the invariant.                                          *)
(***************************************************************************)
LEMMA NextInv == Inv /\ [Next]_vars => Inv'
<1> SUFFICES ASSUME Inv, [Next]_vars
             PROVE  Inv'
  OBVIOUS
<1>1. CASE Publish
  BY <1>1, PublishKeeps
<1>2. CASE \E r \in Reloader : Open(r) \/ ReloadStep(r)
  BY <1>2, OpenKeeps, RejectKeeps, AcceptKeeps, LockReloadKeeps, DiscardKeeps,
     SeeOpenKeeps, SwapKeeps, RetireKeeps DEF ReloadStep
<1>3. CASE \E h \in Handle : Expire(h)
  BY <1>3, ExpireKeeps
<1>4. CASE \E c \in Closer : LockClose(c) \/ CloseStep(c)
  BY <1>4, LockCloseKeeps, CloseAgainKeeps, MarkClosedKeeps, CloseCurrentKeeps
     DEF CloseStep
<1>5. CASE \E l \in Client : LoadPointer(l) \/ LookupStep(l)
  BY <1>5, LoadPointerKeeps, FindClosedKeeps, StartReadKeeps, FinishReadKeeps
     DEF LookupStep
<1>6. CASE Tick
  BY <1>6, TickKeeps
<1>7. CASE UNCHANGED vars
  <2> USE <1>7 DEF vars, Inv
  <2>1. TypeOK'
    BY DEF TypeOK
  <2>2. Holders'
    BY DEF Holders, InFlight
  <2> QED BY <2>1, <2>2, HandlesFrame DEF handles, shared, reload
<1> QED BY <1>1, <1>2, <1>3, <1>4, <1>5, <1>6, <1>7 DEF Next

(***************************************************************************)
(* The inductive invariant always holds.                                    *)
(***************************************************************************)
THEOREM Invariance == Spec => []Inv
<1>1. Init => Inv
  BY InitInv
<1>2. Inv /\ [Next]_vars => Inv'
  BY NextInv
<1> QED BY <1>1, <1>2, PTL DEF Spec

-----------------------------------------------------------------------------
(***************************************************************************)
(* Every variable keeps to its type.                                        *)
(***************************************************************************)
THEOREM TypeCorrect == Spec => []TypeOK
<1>1. Inv => TypeOK
  BY DEF Inv
<1> QED BY <1>1, Invariance, PTL

(***************************************************************************)
(* Reload never unmaps a handle under a lookup: closeGrace is long enough   *)
(* whatever else the process does.                                          *)
(***************************************************************************)
THEOREM NoLookupUnmapped == Spec => []InFlightStaysMapped
<1>1. Inv => InFlightStaysMapped
  <2> SUFFICES ASSUME Inv, NEW l \in Client, InFlight(l)
               PROVE  status[held[l]] = "mapped" \/ (closed /\ held[l] = db)
    BY DEF InFlightStaysMapped
  <2>1. CASE held[l] = db
    BY <2>1 DEF Inv, Current
  <2>2. CASE \E r \in Reloader : reloadPc[r] = "retiring" /\ mine[r] = held[l]
    BY <2>2 DEF Inv, Owners, Private
  <2>3. CASE held[l] \in Handle /\ age[held[l]] # NoTimer
    BY <2>3 DEF Inv, Timers
  <2> QED BY <2>1, <2>2, <2>3 DEF Inv, Holders
<1> QED BY <1>1, Invariance, PTL

(***************************************************************************)
(* A service that is not closed always serves a mapped database that load() *)
(* accepted.                                                                *)
(***************************************************************************)
THEOREM AlwaysServes == Spec => []ServesLoadedDatabase
<1>1. Inv => ServesLoadedDatabase
  BY DEF Inv, Current, ServesLoadedDatabase
<1> QED BY <1>1, Invariance, PTL

(***************************************************************************)
(* Reload, Close and the timers close every handle at most once.            *)
(***************************************************************************)
THEOREM ClosedOnce == Spec => []NoDoubleClose
<1>1. Inv => NoDoubleClose
  BY DEF Inv
<1> QED BY <1>1, Invariance, PTL

(***************************************************************************)
(* No handle is left mapped with nobody to close it: not the one a failed   *)
(* Reload opened, nor the one it replaced, nor the last.                    *)
(***************************************************************************)
THEOREM NoneLeaked == Spec => []NoLeak
<1>1. Inv => NoLeak
  BY DEF Inv
<1> QED BY <1>1, Invariance, PTL

(***************************************************************************)
(* Close is final: no Reload that was already under way replaces the        *)
(* pointer after it.                                                        *)
(***************************************************************************)
THEOREM CloseIsFinal == Spec => NoInstallAfterClose
<1>1. Inv /\ [Next]_vars => [closed => db' = db]_vars
  <2> SUFFICES ASSUME Inv, Next, closed
               PROVE  db' = db
    BY DEF vars
  <2>1. \A r \in Reloader : ~Swap(r)
    BY DEF Inv, Mutex, Swap
  <2> QED BY <2>1 DEF Next, Publish, Open, ReloadStep, Reject, Accept, LockReload,
          Discard, SeeOpen, Retire, Expire, LockClose, CloseStep, CloseAgain,
          MarkClosed, CloseCurrent, LoadPointer, LookupStep, FindClosed, StartRead,
          FinishRead, Tick
<1> QED BY <1>1, Invariance, PTL DEF Spec, NoInstallAfterClose

-----------------------------------------------------------------------------
(***************************************************************************)
(* Service implements HotSwap.                                              *)
(***************************************************************************)
LEMMA HeldStays ==
    ASSUME Inv, [Next]_vars, NEW h \in Handle, status[h] # "fresh"
    PROVE  content'[h] = content[h]
<1>1. CASE \E r \in Reloader : Open(r)
  BY <1>1 DEF Open, Inv, TypeOK
<1>2. CASE ~ \E r \in Reloader : Open(r)
  BY <1>2 DEF Next, Publish, ReloadStep, Reject, Accept, LockReload, Discard,
     SeeOpen, Swap, Retire, Expire, LockClose, CloseStep, CloseAgain, MarkClosed,
     CloseCurrent, LoadPointer, LookupStep, FindClosed, StartRead, FinishRead,
     Tick, vars, handles
<1> QED BY <1>1, <1>2

LEMMA HeldNotFresh ==
    ASSUME Inv, NEW l \in Client, InFlight(l)
    PROVE  /\ held[l] \in Handle
           /\ status[held[l]] # "fresh"
           /\ content[held[l]] \in Content
<1>1. held[l] \in Handle
  BY DEF Inv, Holders
<1>2. status[held[l]] # "fresh"
  BY <1>1 DEF Inv, Holders, Owners, Private, Timers, Current
<1>3. content[held[l]] \in Content
  BY <1>1 DEF Inv, TypeOK
<1> QED BY <1>1, <1>2, <1>3

\* What lookups are bound to changes only when one starts or returns.
LEMMA BoundStays ==
    ASSUME Inv, [Next]_vars, UNCHANGED held,
           \A l \in Client : InFlight(l)' <=> InFlight(l)
    PROVE  UNCHANGED boundTo
<1>1. \A l \in Client : InFlight(l) => content'[held[l]] = content[held[l]]
  BY HeldStays, HeldNotFresh
<1> QED BY <1>1 DEF boundTo

LEMMA ServedStays ==
    ASSUME Inv, [Next]_vars, UNCHANGED db
    PROVE  UNCHANGED <<content[db], served>>
<1>1. db \in Handle /\ status[db] # "fresh"
  BY DEF Inv, TypeOK, Current
<1> QED BY <1>1, HeldStays DEF served

\* A file makes a database of HotSwap, which None is not.
LEMMA DatabaseType ==
    ASSUME NEW c \in Content
    PROVE  databaseOf(c) \in Abstract!Database /\ databaseOf(c) # None
<1>1. databaseOf(c) \in [version : 0..MaxVersion, sound : BOOLEAN]
  BY ContentType DEF databaseOf
<1> QED BY <1>1, DatabaseAssumption DEF Abstract!Database

LEMMA DatabaseFields ==
    ASSUME NEW c
    PROVE  /\ databaseOf(c).version = c.version
           /\ databaseOf(c).sound <=> c.kind = "good"
<1>1. databaseOf(c).version = c.version
  BY DEF databaseOf
<1>2. CASE c.kind = "good"
  <2>1. databaseOf(c).sound = TRUE
    BY <1>2 DEF databaseOf
  <2> QED BY <1>1, <1>2, <2>1
<1>3. CASE c.kind # "good"
  <2>1. databaseOf(c).sound = FALSE
    BY <1>3 DEF databaseOf
  <2> QED BY <1>1, <1>3, <2>1
<1> QED BY <1>2, <1>3

LEMMA AbstractStep == Inv /\ Inv' /\ [Next]_vars => [Abstract!Next]_(Abstract!vars)
<1> SUFFICES ASSUME Inv, Inv', [Next]_vars
             PROVE  Abstract!Next \/ UNCHANGED Abstract!vars
  OBVIOUS
<1> USE DEF Abstract!vars, Abstract!Next
<1>1. ASSUME NEW r \in Reloader, Swap(r)
      PROVE  Abstract!Install
  <2>1. UNCHANGED <<closed, boundTo, answer>>
    BY <1>1, BoundStays DEF Swap, lookup, shared, InFlight
  <2>2. ~closed
    BY <1>1 DEF Inv, Mutex, Swap
  <2>3. databaseOf(content[db])' \in Abstract!Database
    <3>1. content'[db'] \in Content
      BY DEF Inv, TypeOK
    <3> QED BY <3>1, DatabaseType
  <2> QED BY <2>1, <2>2, <2>3 DEF Abstract!Install
<1>2. ASSUME NEW c \in Closer, MarkClosed(c)
      PROVE  Abstract!Shut
  <2>1. UNCHANGED <<databaseOf(content[db]), boundTo, answer>>
    BY <1>2, BoundStays, ServedStays DEF MarkClosed, lookup, InFlight, databaseOf
  <2> QED BY <1>2, <2>1 DEF Abstract!Shut, MarkClosed
<1>3. ASSUME NEW l \in Client, LoadPointer(l)
      PROVE  Abstract!Bind(l)
  <2>1. UNCHANGED <<databaseOf(content[db]), closed, answer, content>>
    BY <1>3 DEF LoadPointer, handles, shared, databaseOf
  <2>2. boundTo[l] = None
    BY <1>3 DEF LoadPointer, InFlight, boundTo
  <2>3. boundTo' = [boundTo EXCEPT ![l] = databaseOf(content[db])]
    BY <1>3 DEF LoadPointer, InFlight, boundTo, databaseOf, handles, Inv, TypeOK
  <2> QED BY <2>1, <2>2, <2>3 DEF Abstract!Bind
<1>4. ASSUME NEW l \in Client, NEW a, InFlight(l), Return(l, a),
             UNCHANGED <<file, handles, db, shared, reload, closePc>>,
             a \in Replies(content[held[l]]) \/ (closed /\ a \in {Failed, Crashed})
      PROVE  Abstract!Reply(l)
  <2>1. UNCHANGED <<databaseOf(content[db]), closed, content>>
    BY <1>4 DEF handles, shared, databaseOf
  <2>2. boundTo[l] = databaseOf(content[held[l]])
    BY <1>4 DEF boundTo
  <2>3. boundTo[l] # None
    BY <1>4, <2>2, HeldNotFresh, DatabaseType
  <2>4. boundTo' = [boundTo EXCEPT ![l] = None]
    BY <1>4, <2>1 DEF Return, InFlight, boundTo, Inv, TypeOK
  <2>5. answer' = [answer EXCEPT ![l] = a]
    BY <1>4 DEF Return
  <2>6. a \in Abstract!Replies(boundTo[l])
    <3>1. /\ boundTo[l].version = content[held[l]].version
          /\ boundTo[l].sound <=> content[held[l]].kind = "good"
      BY <2>2, DatabaseFields
    <3>2. a = boundTo[l].version \/ (a = Failed /\ ~boundTo[l].sound)
             \/ (closed /\ a \in {Failed, Crashed})
      BY <1>4, <3>1 DEF Replies
    <3> QED BY <3>2 DEF Abstract!Replies
  <2> QED BY <2>1, <2>3, <2>4, <2>5, <2>6 DEF Abstract!Reply
<1>5. ASSUME NEW l \in Client, FindClosed(l) \/ FinishRead(l)
      PROVE  Abstract!Reply(l)
  <2>1. InFlight(l)
    BY <1>5 DEF FindClosed, FinishRead, InFlight
  <2>2. status[held[l]] = "mapped" \/ closed
    BY <2>1 DEF Inv, Holders, Owners, Private, Timers, Current
  <2>3. CASE FindClosed(l)
    BY <2>1, <2>2, <2>3, <1>4 DEF FindClosed
  <2>4. CASE FinishRead(l)
    <3>1. PICK a : /\ a \in (IF status[held[l]] = "mapped"
                                THEN Replies(content[held[l]]) ELSE {Crashed})
                   /\ Return(l, a)
      BY <2>4 DEF FinishRead
    <3>2. a \in Replies(content[held[l]]) \/ (closed /\ a \in {Failed, Crashed})
      BY <2>2, <3>1
    <3>3. UNCHANGED <<file, handles, db, shared, reload, closePc>>
      BY <2>4 DEF FinishRead
    <3> QED BY <1>4, <2>1, <3>1, <3>2, <3>3
  <2> QED BY <1>5, <2>3, <2>4
<1>6. CASE UNCHANGED <<db, closed, held, answer>>
           /\ \A l \in Client : InFlight(l)' <=> InFlight(l)
  BY <1>6, BoundStays, ServedStays DEF databaseOf
<1>7. CASE Next
  <2>1. CASE Publish \/ Tick \/ \E h \in Handle : Expire(h)
    BY <1>6, <2>1 DEF Publish, Tick, Expire, shared, lookup, InFlight
  <2>2. CASE \E r \in Reloader : Open(r) \/ ReloadStep(r)
    <3>1. PICK r \in Reloader : Open(r) \/ ReloadStep(r)
      BY <2>2
    <3>2. CASE Open(r) \/ Reject(r) \/ Accept(r) \/ LockReload(r)
      BY <1>6, <3>2 DEF Open, Reject, Accept, LockReload, shared, lookup, InFlight
    <3>3. CASE Discard(r) \/ SeeOpen(r) \/ Retire(r)
      BY <1>6, <3>3 DEF Discard, SeeOpen, Retire, shared, lookup, InFlight
    <3> QED BY <1>1, <3>1, <3>2, <3>3 DEF ReloadStep
  <2>3. CASE \E c \in Closer : LockClose(c) \/ CloseStep(c)
    <3>1. PICK c \in Closer : LockClose(c) \/ CloseStep(c)
      BY <2>3
    <3>2. CASE LockClose(c) \/ CloseAgain(c) \/ CloseCurrent(c)
      BY <1>6, <3>2 DEF LockClose, CloseAgain, CloseCurrent, shared, lookup, InFlight
    <3> QED BY <1>2, <3>1, <3>2 DEF CloseStep
  <2>4. CASE \E l \in Client : LoadPointer(l) \/ LookupStep(l)
    <3>1. PICK l \in Client : LoadPointer(l) \/ LookupStep(l)
      BY <2>4
    <3>2. CASE StartRead(l)
      <4>1. lookupPc[l] = "loaded" /\ lookupPc' = [lookupPc EXCEPT ![l] = "reading"]
        BY <3>2 DEF StartRead
      <4>2. \A k \in Client : lookupPc'[k] = IF k = l THEN "reading" ELSE lookupPc[k]
        <5>1. DOMAIN lookupPc = Client
          BY DEF Inv, TypeOK
        <5> QED BY <4>1, <5>1
      <4>3. \A k \in Client : InFlight(k)' <=> InFlight(k)
        BY <4>1, <4>2 DEF InFlight
      <4> QED BY <1>6, <3>2, <4>3 DEF StartRead, shared
    <3> QED BY <1>3, <1>5, <3>1, <3>2 DEF LookupStep
  <2> QED BY <1>7, <2>1, <2>2, <2>3, <2>4 DEF Next
<1>8. CASE UNCHANGED vars
  BY <1>6, <1>8 DEF vars, InFlight
<1> QED BY <1>7, <1>8

(***************************************************************************)
(* However reloads, lookups and Close interleave, every lookup is answered  *)
(* from one database that was current while it ran.  It fails only if a     *)
(* record of that same database does not decode, or once the service has    *)
(* been closed; a lookup in a database whose records all decode is never    *)
(* failed by a reload.                                                      *)
(***************************************************************************)
THEOREM HotSwapImplemented == Spec => ImplementsHotSwap
<1>1. Init => Abstract!Init
  <2> SUFFICES ASSUME Init PROVE Abstract!Init
    OBVIOUS
  <2>1. databaseOf(content[db]) \in Abstract!Database
    BY InitInv, DatabaseType DEF Inv, TypeOK
  <2>2. boundTo = [l \in Client |-> None]
    BY DEF Init, boundTo, InFlight
  <2> QED BY <2>1, <2>2 DEF Init, Abstract!Init
<1>2. Inv /\ Inv' /\ [Next]_vars => [Abstract!Next]_(Abstract!vars)
  BY AbstractStep
<1> QED BY <1>1, <1>2, Invariance, PTL DEF Spec, ImplementsHotSwap, Abstract!Spec

-----------------------------------------------------------------------------
(***************************************************************************)
(* The versions of the files, when one goroutine reloads.  What is at the   *)
(* path is the newest file of all; a Reload that has not swapped yet holds  *)
(* one no older than the one served; a lookup in flight holds one no newer; *)
(* and an answer is of no newer a file than its client can still read.      *)
(***************************************************************************)
Ahead == {"opened", "loaded", "locked", "swapping"}

Versions ==
    /\ \A h \in Handle : content[h].version <= file.version
    /\ \A r \in Reloader : reloadPc[r] \in Ahead =>
          served <= content[mine[r]].version
    /\ \A l \in Client : InFlight(l) => content[held[l]].version <= served
    /\ \A l \in Client : Answered(answer[l]) =>
          /\ answer[l] <= served
          /\ InFlight(l) => answer[l] <= content[held[l]].version

\* Versions are integers, wherever they stand.
LEMMA VersionsCompare ==
    ASSUME Inv
    PROVE  /\ file.version \in Int /\ served \in Int
           /\ \A h \in Handle : content[h].version \in Int
           /\ \A l \in Client : Answered(answer[l]) => answer[l] \in Int
<1>1. file \in Content /\ db \in Handle /\ \A h \in Handle : content[h] \in Content
  BY DEF Inv, TypeOK
<1>2. \A c \in Content : c.version \in Int
  BY ContentType, VersionAssumption
<1>3. \A l \in Client : answer[l] \in Answer
  BY DEF Inv, TypeOK
<1> QED BY <1>1, <1>2, <1>3, VersionAssumption DEF served, Answer, Answered

\* A busy Reload and a lookup in flight hold handles whose content stays.
LEMMA KnownContentStays ==
    ASSUME Inv, [Next]_vars
    PROVE  /\ \A r \in Reloader : reloadPc[r] # "idle" =>
                 mine[r] \in Handle /\ content'[mine[r]] = content[mine[r]]
           /\ \A l \in Client : InFlight(l) =>
                 held[l] \in Handle /\ content'[held[l]] = content[held[l]]
<1>1. \A r \in Reloader : reloadPc[r] # "idle" =>
          mine[r] \in Handle /\ status[mine[r]] # "fresh"
  BY DEF Inv, Owners, Private
<1> QED BY <1>1, HeldStays, HeldNotFresh

LEMMA VersionsInitial == Init => Versions
<1> SUFFICES ASSUME Init PROVE Versions
  OBVIOUS
<1>1. Inv
  BY InitInv
<1>2. \A h \in Handle : content[h].version <= file.version
  BY <1>1, VersionsCompare DEF Init
<1> QED BY <1>2 DEF Init, Versions, InFlight, Answered, Ahead

\* Only Swap changes what is served, and it installs what its Reload holds.
LEMMA ServedMovesOn ==
    ASSUME Inv, Versions, [Next]_vars
    PROVE  served <= served'
<1>1. ASSUME NEW r \in Reloader, Swap(r)
      PROVE  served <= served'
  BY <1>1 DEF Swap, served, handles, Versions, Ahead
<1>2. CASE ~ \E r \in Reloader : Swap(r)
  <2>1. UNCHANGED db
    BY <1>2 DEF Next, Publish, Open, ReloadStep, Reject, Accept, LockReload, Discard,
       SeeOpen, Retire, Expire, LockClose, CloseStep, CloseAgain, MarkClosed,
       CloseCurrent, LoadPointer, LookupStep, FindClosed, StartRead, FinishRead,
       Tick, vars
  <2> QED BY <2>1, ServedStays, VersionsCompare
<1> QED BY <1>1, <1>2

\* The file at the path is still the newest.
LEMMA PathIsNewest ==
    ASSUME Inv, Versions, [Next]_vars
    PROVE  \A h \in Handle : content'[h].version <= file'.version
<1>1. CASE Publish
  <2>1. file'.version = file.version + 1 /\ UNCHANGED content
    BY <1>1 DEF Publish, handles
  <2> QED BY <2>1, VersionsCompare DEF Versions
<1>2. ASSUME NEW r \in Reloader, Open(r)
      PROVE  \A h \in Handle : content'[h].version <= file'.version
  <2>1. PICK h \in Handle : content' = [content EXCEPT ![h] = file]
    BY <1>2 DEF Open
  <2>2. UNCHANGED file
    BY <1>2 DEF Open
  <2>3. \A g \in Handle : content'[g] = IF g = h THEN file ELSE content[g]
    BY <2>1 DEF Inv, TypeOK
  <2> QED BY <2>2, <2>3, VersionsCompare DEF Versions
<1>3. CASE ~Publish /\ ~ \E r \in Reloader : Open(r)
  <2>1. UNCHANGED <<file, content>>
    BY <1>3 DEF Next, ReloadStep, Reject, Accept, LockReload, Discard, SeeOpen, Swap,
       Retire, Expire, LockClose, CloseStep, CloseAgain, MarkClosed, CloseCurrent,
       LoadPointer, LookupStep, FindClosed, StartRead, FinishRead, Tick, vars, handles
  <2> QED BY <2>1 DEF Versions
<1> QED BY <1>1, <1>2, <1>3

\* A Reload that has not swapped yet still holds a file no older than the one
\* served: nobody else has swapped meanwhile.
LEMMA ReloadIsAhead ==
    ASSUME OneReload, Inv, Versions, [Next]_vars,
           NEW r \in Reloader, reloadPc'[r] \in Ahead
    PROVE  served' <= content'[mine'[r]].version
<1>1. CASE Open(r)
  <2>1. content'[mine'[r]] = file
    <3>1. PICK h \in Handle : /\ content' = [content EXCEPT ![h] = file]
                              /\ mine' = [mine EXCEPT ![r] = h]
      BY <1>1 DEF Open
    <3>2. h \in DOMAIN content /\ r \in DOMAIN mine
      BY DEF Inv, TypeOK
    <3> QED BY <3>1, <3>2
  <2>2. served' = served
    BY <1>1, ServedStays DEF Open
  <2>3. served <= file.version
    BY DEF Versions, served, Inv, TypeOK
  <2> QED BY <2>1, <2>2, <2>3
<1>2. CASE ~Open(r)
  <2>1. reloadPc[r] \in Ahead /\ UNCHANGED <<db, mine>>
    <3>1. CASE \E s \in Reloader : Open(s) \/ ReloadStep(s)
      <4>1. ReloadStep(r)
        BY <1>2, <3>1 DEF OneReload
      <4>2. r \in DOMAIN reloadPc
        BY DEF Inv, TypeOK
      <4> QED BY <4>1, <4>2 DEF ReloadStep, Reject, Accept, LockReload, Discard,
                 SeeOpen, Swap, Retire, Ahead
    <3>2. CASE ~ \E s \in Reloader : Open(s) \/ ReloadStep(s)
      BY <3>2 DEF Next, Publish, Expire, LockClose, CloseStep, CloseAgain, MarkClosed,
         CloseCurrent, LoadPointer, LookupStep, FindClosed, StartRead, FinishRead,
         Tick, vars, reload
    <3> QED BY <3>1, <3>2
  <2>2. content'[mine[r]] = content[mine[r]]
    BY <2>1, KnownContentStays DEF Ahead
  <2> QED BY <2>1, <2>2, ServedStays DEF Versions
<1> QED BY <1>1, <1>2

\* A lookup that neither starts nor returns keeps its handle and its answer.
LEMMA LookupsKeepVersions ==
    ASSUME Inv, Versions, [Next]_vars, NEW l \in Client,
           InFlight(l)' => InFlight(l) /\ held'[l] = held[l],
           Answered(answer'[l]) => answer'[l] = answer[l]
    PROVE  /\ InFlight(l)' => content'[held'[l]].version <= served'
           /\ Answered(answer'[l]) =>
                 /\ answer'[l] <= served'
                 /\ InFlight(l)' => answer'[l] <= content'[held'[l]].version
<1>1. served \in Int /\ served' \in Int /\ served <= served'
  <2>1. Inv'
    BY NextInv
  <2>2. content'[db'] \in Content
    BY <2>1 DEF Inv, TypeOK
  <2>3. served' \in 0..MaxVersion
    BY <2>2, ContentType DEF served
  <2> QED BY <2>3, VersionsCompare, ServedMovesOn, VersionAssumption
<1>2. InFlight(l)' => /\ held'[l] \in Handle
                      /\ content'[held'[l]] = content[held[l]]
                      /\ content[held[l]].version \in Int
  BY KnownContentStays, VersionsCompare
<1>3. Answered(answer'[l]) => answer[l] \in Int /\ answer'[l] = answer[l]
  BY VersionsCompare
<1> QED BY <1>1, <1>2, <1>3 DEF Versions

\* A lookup starts at the file being served; it returns that of its handle.
LEMMA LookupsStayBehind ==
    ASSUME Inv, Versions, [Next]_vars, NEW l \in Client
    PROVE  /\ InFlight(l)' => content'[held'[l]].version <= served'
           /\ Answered(answer'[l]) =>
                 /\ answer'[l] <= served'
                 /\ InFlight(l)' => answer'[l] <= content'[held'[l]].version
           /\ Answered(answer[l]) /\ Answered(answer'[l]) => answer[l] <= answer'[l]
<1> USE VersionsCompare
<1>1. CASE LoadPointer(l)
  <2>1. held'[l] = db /\ UNCHANGED <<answer, content, db>>
    BY <1>1 DEF LoadPointer, handles, Inv, TypeOK
  <2> QED BY <2>1 DEF Versions, served
<1>2. CASE FindClosed(l) \/ FinishRead(l)
  <2>1. InFlight(l) /\ UNCHANGED <<content, db>>
    BY <1>2 DEF FindClosed, FinishRead, InFlight, handles
  <2>0. PICK a : /\ Return(l, a)
                 /\ a \in Replies(content[held[l]]) \cup {Failed, Crashed}
    BY <1>2 DEF FindClosed, FinishRead
  <2>2. ~InFlight(l)'
    BY <2>0 DEF Return, InFlight, Inv, TypeOK
  <2>3. Answered(answer'[l]) => answer'[l] = content[held[l]].version
    <3>1. answer'[l] = a
      BY <2>0 DEF Return, Inv, TypeOK
    <3> QED BY <2>0, <3>1 DEF Replies, Answered
  <2>4. served' = served
    BY <2>1 DEF served
  <2> QED BY <2>1, <2>2, <2>3, <2>4 DEF Versions
<1>3. CASE ~LoadPointer(l) /\ ~FindClosed(l) /\ ~FinishRead(l)
  <2>1. /\ InFlight(l)' => InFlight(l) /\ held'[l] = held[l]
        /\ answer'[l] = answer[l]
    <3>1. CASE \E k \in Client : LoadPointer(k) \/ LookupStep(k)
      <4>1. PICK k \in Client : LoadPointer(k) \/ LookupStep(k)
        BY <3>1
      <4>2. CASE k = l
        <5>1. StartRead(l)
          BY <1>3, <4>1, <4>2 DEF LookupStep
        <5> QED BY <5>1 DEF StartRead, InFlight
      <4>3. CASE k # l
        <5>1. /\ lookupPc'[l] = lookupPc[l]
              /\ held'[l] = held[l] /\ answer'[l] = answer[l]
          <6>1. CASE LoadPointer(k) \/ StartRead(k)
            BY <4>3, <6>1 DEF LoadPointer, StartRead, Inv, TypeOK
          <6>2. CASE \E a : Return(k, a)
            BY <4>3, <6>2 DEF Return, Inv, TypeOK
          <6> QED BY <4>1, <6>1, <6>2 DEF LookupStep, FindClosed, FinishRead
        <5> QED BY <5>1 DEF InFlight
      <4> QED BY <4>2, <4>3
    <3>2. CASE ~ \E k \in Client : LoadPointer(k) \/ LookupStep(k)
      <4>1. UNCHANGED <<lookupPc, held, answer>>
        BY <3>2 DEF Next, Publish, Open, ReloadStep, Reject, Accept, LockReload,
           Discard, SeeOpen, Swap, Retire, Expire, LockClose, CloseStep, CloseAgain,
           MarkClosed, CloseCurrent, Tick, vars, lookup
      <4> QED BY <4>1 DEF InFlight
    <3> QED BY <3>1, <3>2
  <2> QED BY <2>1, LookupsKeepVersions
<1> QED BY <1>1, <1>2, <1>3

LEMMA VersionsStep ==
    ASSUME OneReload
    PROVE  Inv /\ Versions /\ [Next]_vars => Versions'
<1> SUFFICES ASSUME Inv, Versions, [Next]_vars
             PROVE  Versions'
  OBVIOUS
<1>1. (\A h \in Handle : content[h].version <= file.version)'
  BY PathIsNewest
<1>2. (\A r \in Reloader : reloadPc[r] \in Ahead => served <= content[mine[r]].version)'
  BY ReloadIsAhead
<1>3. (\A l \in Client : InFlight(l) => content[held[l]].version <= served)'
  BY LookupsStayBehind
<1>4. (\A l \in Client : Answered(answer[l]) =>
          /\ answer[l] <= served
          /\ InFlight(l) => answer[l] <= content[held[l]].version)'
  BY LookupsStayBehind DEF Answered
<1> QED BY <1>1, <1>2, <1>3, <1>4 DEF Versions

\* With one goroutine reloading, the versions always keep their order.
LEMMA VersionsInOrder ==
    ASSUME OneReload
    PROVE  Spec => []Versions
<1>1. Init => Versions
  BY VersionsInitial
<1>2. Inv /\ Versions /\ [Next]_vars => Versions'
  BY VersionsStep
<1> QED BY <1>1, <1>2, Invariance, PTL DEF Spec

(***************************************************************************)
(* One goroutine that reloads never replaces a database by that of an older *)
(* file, whatever is published while load() runs.                           *)
(***************************************************************************)
THEOREM ServedGoesForward ==
    ASSUME OneReload
    PROVE  Spec => NeverOlder
<1>1. Inv /\ Versions /\ [Next]_vars => served <= served'
  BY ServedMovesOn
<1> QED BY <1>1, VersionsInOrder, Invariance, PTL DEF Spec, NeverOlder

(***************************************************************************)
(* And no client that looks up twice sees the older file the second time,   *)
(* though each lookup reads the handle it loaded when it started.           *)
(***************************************************************************)
THEOREM AnswersGoForward ==
    ASSUME OneReload
    PROVE  Spec => ReadsNeverGoBack
<1>1. Inv /\ Versions /\ [Next]_vars =>
          \A l \in Client : Answered(answer[l]) /\ Answered(answer'[l])
                               => answer[l] <= answer'[l]
  BY LookupsStayBehind
<1> QED BY <1>1, VersionsInOrder, Invariance, PTL DEF Spec, ReadsNeverGoBack

-----------------------------------------------------------------------------
(***************************************************************************)
(* The safety half of ReloadReturns.  The guards of the steps a Reload and  *)
(* a Close have left, and how many they are.                                *)
(***************************************************************************)
ReloadCanStep(r) ==
    \/ reloadPc[r] \in {"opened", "locked", "swapping", "retiring"}
    \/ reloadPc[r] = "loaded" /\ MutexFree

CloseCanStep(c) == closePc[c] \in {"locked", "closing"}

ReloadLeft(r) ==
    CASE reloadPc[r] = "opened"   -> 5
      [] reloadPc[r] = "loaded"   -> 4
      [] reloadPc[r] = "locked"   -> 3
      [] reloadPc[r] = "swapping" -> 2
      [] reloadPc[r] = "retiring" -> 1
      [] OTHER                    -> 0

CloseLeft(c) ==
    CASE closePc[c] = "locked"  -> 2
      [] closePc[c] = "closing" -> 1
      [] OTHER                  -> 0

(***************************************************************************)
(* A Reload that has opened a file waits for nothing but mu, and then some  *)
(* Reload or Close that is not itself waiting owns mu: no return path of    *)
(* either keeps the mutex, and nobody waits in a circle.                    *)
(***************************************************************************)
THEOREM MutexHasRunningOwner ==
    Spec => [](\A r \in Reloader : reloadPc[r] # "idle" =>
                  \/ ReloadCanStep(r)
                  \/ \E s \in Reloader : mu = s /\ ReloadCanStep(s)
                  \/ \E c \in Closer : mu = c /\ CloseCanStep(c))
<1>1. Inv => \A r \in Reloader : reloadPc[r] # "idle" =>
                  \/ ReloadCanStep(r)
                  \/ \E s \in Reloader : mu = s /\ ReloadCanStep(s)
                  \/ \E c \in Closer : mu = c /\ CloseCanStep(c)
  <2> SUFFICES ASSUME Inv, NEW r \in Reloader, reloadPc[r] # "idle", ~ReloadCanStep(r)
               PROVE  \/ \E s \in Reloader : mu = s /\ ReloadCanStep(s)
                      \/ \E c \in Closer : mu = c /\ CloseCanStep(c)
    OBVIOUS
  <2>1. mu \in Reloader \cup Closer
    BY DEF Inv, TypeOK, ReloadCanStep, MutexFree
  <2> QED BY <2>1 DEF Inv, Mutex, ReloadCanStep, CloseCanStep
<1> QED BY <1>1, Invariance, PTL

\* A step of one goroutine leaves the places of the others alone.
LEMMA LeftStays ==
    ASSUME Inv, [Next]_vars
    PROVE  /\ \A r \in Reloader : ~Open(r) /\ ~ReloadStep(r) => reloadPc'[r] = reloadPc[r]
           /\ \A c \in Closer : ~LockClose(c) /\ ~CloseStep(c) => closePc'[c] = closePc[c]
<1>1. DOMAIN reloadPc = Reloader /\ DOMAIN closePc = Closer
  BY DEF Inv, TypeOK
<1>2. CASE \E s \in Reloader : Open(s) \/ ReloadStep(s)
  <2>1. PICK s \in Reloader : Open(s) \/ ReloadStep(s)
    BY <1>2
  <2>2. UNCHANGED closePc
    BY <2>1 DEF Open, ReloadStep, Reject, Accept, LockReload, Discard, SeeOpen, Swap, Retire
  <2>3. \A r \in Reloader : r # s => reloadPc'[r] = reloadPc[r]
    BY <1>1, <2>1 DEF Open, ReloadStep, Reject, Accept, LockReload, Discard, SeeOpen, Swap,
       Retire
  <2> QED BY <2>1, <2>2, <2>3
<1>3. CASE \E d \in Closer : LockClose(d) \/ CloseStep(d)
  <2>1. PICK d \in Closer : LockClose(d) \/ CloseStep(d)
    BY <1>3
  <2>2. UNCHANGED reloadPc
    BY <2>1 DEF LockClose, CloseStep, CloseAgain, MarkClosed, CloseCurrent, reload
  <2>3. \A c \in Closer : c # d => closePc'[c] = closePc[c]
    BY <1>1, <2>1 DEF LockClose, CloseStep, CloseAgain, MarkClosed, CloseCurrent
  <2> QED BY <2>1, <2>2, <2>3
<1>4. CASE \/ Publish \/ Tick \/ UNCHANGED vars
           \/ \E h \in Handle : Expire(h)
           \/ \E l \in Client : LoadPointer(l) \/ LookupStep(l)
  BY <1>4 DEF Publish, Tick, vars, Expire, LoadPointer, LookupStep, FindClosed, StartRead,
     FinishRead, reload
<1> QED BY <1>2, <1>3, <1>4 DEF Next

(***************************************************************************)
(* And the steps run out: each of its own steps brings a Reload, or a Close *)
(* that owns mu, nearer to its return, and no step of another goroutine     *)
(* takes it back.                                                           *)
(***************************************************************************)
THEOREM ReloadStepsRunOut ==
    Spec => [][/\ \A r \in Reloader : reloadPc[r] # "idle" =>
                     IF ReloadStep(r) THEN ReloadLeft(r)' < ReloadLeft(r)
                                      ELSE ReloadLeft(r)' = ReloadLeft(r)
               /\ \A c \in Closer : mu = c =>
                     IF CloseStep(c) THEN CloseLeft(c)' < CloseLeft(c)
                                     ELSE CloseLeft(c)' = CloseLeft(c)]_vars
<1>1. ASSUME Inv, [Next]_vars, NEW r \in Reloader, reloadPc[r] # "idle"
      PROVE  IF ReloadStep(r) THEN ReloadLeft(r)' < ReloadLeft(r)
                              ELSE ReloadLeft(r)' = ReloadLeft(r)
  <2>1. r \in DOMAIN reloadPc
    BY <1>1 DEF Inv, TypeOK
  <2>2. CASE ReloadStep(r)
    <3>1. ReloadLeft(r)' < ReloadLeft(r)
      BY <2>1, <2>2 DEF ReloadLeft, ReloadStep, Reject, Accept, LockReload, Discard, SeeOpen,
         Swap, Retire
    <3> QED BY <2>2, <3>1
  <2>3. CASE ~ReloadStep(r)
    <3>1. reloadPc'[r] = reloadPc[r]
      BY <1>1, <2>3, LeftStays DEF Open
    <3>2. ReloadLeft(r)' = ReloadLeft(r)
      BY <3>1 DEF ReloadLeft
    <3> QED BY <2>3, <3>2
  <2> QED BY <2>2, <2>3
<1>2. ASSUME Inv, [Next]_vars, NEW c \in Closer, mu = c
      PROVE  IF CloseStep(c) THEN CloseLeft(c)' < CloseLeft(c)
                             ELSE CloseLeft(c)' = CloseLeft(c)
  <2>1. c \in DOMAIN closePc /\ c # None
    BY <1>2, NoneAssumption DEF Inv, TypeOK
  <2>2. CASE CloseStep(c)
    <3>1. CloseLeft(c)' < CloseLeft(c)
      BY <2>1, <2>2 DEF CloseLeft, CloseStep, CloseAgain, MarkClosed, CloseCurrent
    <3> QED BY <2>2, <3>1
  <2>3. CASE ~CloseStep(c)
    <3>1. closePc'[c] = closePc[c]
      BY <1>2, <2>1, <2>3, LeftStays DEF LockClose, MutexFree
    <3>2. CloseLeft(c)' = CloseLeft(c)
      BY <3>1 DEF CloseLeft
    <3> QED BY <2>3, <3>2
  <2> QED BY <2>2, <2>3
<1>3. Inv /\ [Next]_vars =>
          [/\ \A r \in Reloader : reloadPc[r] # "idle" =>
                 IF ReloadStep(r) THEN ReloadLeft(r)' < ReloadLeft(r)
                                  ELSE ReloadLeft(r)' = ReloadLeft(r)
           /\ \A c \in Closer : mu = c =>
                 IF CloseStep(c) THEN CloseLeft(c)' < CloseLeft(c)
                                 ELSE CloseLeft(c)' = CloseLeft(c)]_vars
  BY <1>1, <1>2
<1> QED BY <1>3, Invariance, PTL DEF Spec
=============================================================================
