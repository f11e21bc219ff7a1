----------------------------- MODULE ServeProofs -----------------------------
(***************************************************************************)
(* The server process, for any number of requests, calls, signals and       *)
(* files: what still runs when the database is closed, that a failing       *)
(* server can always report it, that no SIGHUP is lost, and where the       *)
(* process may wait on the way to its end.                                  *)
(***************************************************************************)
EXTENDS Serve, TLAPS

-----------------------------------------------------------------------------
(***************************************************************************)
(* The inductive invariant.                                                 *)
(***************************************************************************)
\* A request runs at a server that was started; a listener is open for a server
\* that was started, and is left open after a stop only for Serve to close.
Started ==
    /\ main \in {"loading", "loaded", "listening"} => \A s \in Server : srv[s] = "off"
    /\ \A c \in Request \cup Call : client[c] = "running" => srv[ServerOf(c)] # "off"
    /\ \A s \in open : srv[s] = "starting" \/ (srv[s] = "serving" /\ s \notin stopped)
    /\ \A s \in Server : srv[s] # "off" => s \in enabled

\* A server that was started is told to stop, HTTP before gRPC.
Down(s) == srv[s] = "off" \/ s \in stopped

Told ==
    /\ main = "drainHTTP" => Down("http")
    /\ main \in {"drainGRPC", "returned", "joining", "closing"} => \A s \in Server : Down(s)

\* What shutdown has waited for stays over, as nothing new is accepted.
Drained ==
    /\ main \in {"drainGRPC", "returned", "joining", "closing"} =>
         (Running(Request) => timedOut)
    /\ main \in {"returned", "joining", "closing"} => ~Running(Call)
    /\ main = "closing" => reloader = "exited"

\* Each error in the channel is from a server that has ended.
One(s) == IF srv[s] = "ended" THEN 1 ELSE 0
Reported == errc <= One("http") + One("grpc")

IInv == TypeOK /\ Started /\ Told /\ Drained /\ Reported

-----------------------------------------------------------------------------
\* The two servers, and which one a request belongs to.
LEMMA ServerFacts ==
    /\ "http" \in Server /\ "grpc" \in Server
    /\ \A c \in Request : ServerOf(c) = "http"
    /\ \A c \in Call : ServerOf(c) = "grpc"
    /\ \A c : ServerOf(c) \in Server
BY ClientAssumption DEF Server, ServerOf

\* The process has just begun.
LEMMA Initiation == Init => IInv
<1> SUFFICES ASSUME Init PROVE IInv
    OBVIOUS
<1>1. TypeOK
    <2>1. 0 \in Version /\ 0 \in 0..MaxHup
        BY BoundAssumption DEF Version
    <2>2. /\ srv \in [Server -> {"off", "starting", "serving", "failing", "ended"}]
          /\ client \in [Request \cup Call -> {"none", "running", "done"}]
        BY DEF Init
    <2>3. /\ good \in BOOLEAN /\ timedOut \in BOOLEAN /\ cancelled \in BOOLEAN
          /\ hup \in BOOLEAN
        BY DEF Init
    <2>4. enabled \subseteq Server /\ open \subseteq enabled /\ stopped \subseteq enabled
        BY DEF Init
    <2>5. file \in Version /\ tried \in Version /\ served \in Version /\ wanted \in Version
        BY <2>1 DEF Init
    <2>6. main = "loading" /\ reloader = "off" /\ errc \in 0..2 /\ hups \in 0..MaxHup
        BY <2>1 DEF Init
    <2> QED BY <2>2, <2>3, <2>4, <2>5, <2>6 DEF TypeOK
<1>2. Started /\ Told /\ Drained
    BY DEF Init, Started, Told, Drained, Running
<1>3. Reported
    BY ServerFacts DEF Init, Reported, One
<1> QED BY <1>1, <1>2, <1>3 DEF IInv

\* Every step of the world, of the reload goroutine and of the clients.
LEMMA OtherStep ==
    ASSUME IInv,
           Publish \/ SigHup \/ SigTerm \/ SigKill \/ ReloadStep
             \/ \E c \in Request \cup Call : Arrive(c) \/ Finish(c)
    PROVE  IInv'
<1> USE DEF IInv
<1>1. hups \in Nat /\ MaxHup \in Nat /\ file \in Nat /\ MaxVersion \in Nat
    BY BoundAssumption DEF TypeOK, Version
<1>2. CASE Publish
    BY <1>1, <1>2 DEF Publish, TypeOK, Version, Started, Told, Drained, Reported, Running,
       One, Down, servers, signals, reload, ServerOf
<1>3. CASE SigHup
    BY <1>1, <1>3 DEF SigHup, TypeOK, Started, Told, Drained, Reported, Running, One, Down,
       servers, reload, world, ServerOf
<1>4. CASE SigTerm
    BY <1>4 DEF SigTerm, TypeOK, Started, Told, Drained, Reported, Running, One, Down,
       servers, reload, world, signals, ServerOf
<1>5. CASE SigKill
    BY <1>5 DEF SigKill, TypeOK, Started, Told, Drained, Reported, Running, One, Down,
       servers, reload, world, signals, ServerOf, Gone
<1>6. CASE ReloadStep
    <2>1. /\ UNCHANGED <<world, main, servers, client>>
          /\ reloader # "exited"
        BY <1>6 DEF ReloadStep, TakeHup, LoadFile, Install, SeeDone
    <2>2. TypeOK'
        BY <1>6 DEF ReloadStep, TakeHup, LoadFile, Install, SeeDone, TypeOK, servers, world,
           signals
    <2>3. Started' /\ Told' /\ Reported'
        BY <2>1 DEF Started, Told, Reported, One, Down, servers
    <2>4. Drained'
        BY <2>1 DEF Drained, Running, servers
    <2> QED BY <2>2, <2>3, <2>4
<1>7. ASSUME NEW c \in Request \cup Call, Arrive(c)
      PROVE  IInv'
    <2>1. /\ client' = [client EXCEPT ![c] = "running"]
          /\ UNCHANGED <<world, main, servers, cancelled, signals, reload>>
          /\ srv[ServerOf(c)] \notin {"off", "starting"} /\ ServerOf(c) \notin stopped
        BY <1>7 DEF Arrive
    <2>2. TypeOK' /\ Started' /\ Told' /\ Reported'
        BY <2>1 DEF TypeOK, Started, Told, Reported, One, Down, world, servers, signals,
           reload, ServerOf
    <2>3. ~Down(ServerOf(c)) /\ ServerOf(c) \in Server
        BY <2>1, ServerFacts DEF Down
    <2>4. Drained'
        BY <2>1, <2>3 DEF Told, Drained, servers, reload
    <2> QED BY <2>2, <2>4
<1>8. ASSUME NEW c \in Request \cup Call, Finish(c)
      PROVE  IInv'
    <2>1. /\ client' = [client EXCEPT ![c] = "done"]
          /\ UNCHANGED <<world, main, servers, cancelled, signals, reload>>
        BY <1>8 DEF Finish
    <2>2. TypeOK' /\ Started' /\ Told' /\ Reported'
        BY <2>1 DEF TypeOK, Started, Told, Reported, One, Down, world, servers, signals,
           reload, ServerOf
    <2>3. \A C : C \subseteq Request \cup Call => (Running(C)' => Running(C))
        BY <2>1 DEF Running, TypeOK
    <2>4. Drained'
        BY <2>1, <2>3 DEF Drained, servers, reload
    <2> QED BY <2>2, <2>4
<1> QED BY <1>2, <1>3, <1>4, <1>5, <1>6, <1>7, <1>8

\* Every step of a server goroutine.
LEMMA ServerStepInv ==
    ASSUME IInv, NEW s \in Server, BeginServe(s) \/ Report(s) \/ EndServe(s)
    PROVE  IInv'
<1> USE DEF IInv
<1>1. /\ UNCHANGED <<world, main, enabled, stopped, timedOut, cancelled, signals, reload,
                    client>>
      /\ srv[s] \notin {"off", "ended"} /\ srv'[s] # "off"
      /\ srv' = [srv EXCEPT ![s] = srv'[s]]
      /\ open' \subseteq open
      /\ s \in open' => s \notin stopped /\ srv'[s] = "serving"
      /\ errc' = errc \/ (errc' = errc + 1 /\ srv'[s] = "ended")
    <2>1. DOMAIN srv = Server
        BY DEF TypeOK
    <2>2. CASE BeginServe(s)
        BY <2>1, <2>2 DEF BeginServe
    <2>3. CASE Report(s)
        BY <2>1, <2>3 DEF Report, Started
    <2>4. CASE EndServe(s)
        BY <2>1, <2>4 DEF EndServe
    <2> QED BY <2>2, <2>3, <2>4
<1>2. \A t \in Server : srv'[t] = IF t = s THEN srv'[s] ELSE srv[t]
    BY <1>1 DEF TypeOK
<1>3. One(s) = 0 /\ \A t \in Server : One(t) \in 0..1 /\ One(t)' \in 0..1
                     /\ (t # s => One(t)' = One(t))
    BY <1>1, <1>2 DEF One
<1>4. Reported'
    <2>1. errc \in Nat /\ errc <= One("http") + One("grpc")
        BY DEF TypeOK, Reported
    <2>2. errc' # errc => One(s)' = 1
        BY <1>1 DEF One
    <2>3. s = "http" \/ s = "grpc"
        BY DEF Server
    <2> QED BY <1>1, <1>3, <2>1, <2>2, <2>3, ServerFacts DEF Reported
<1>5. TypeOK'
    BY <1>1 DEF BeginServe, Report, EndServe, ErrcCapacity, TypeOK, world, signals, reload
<1>6. Started' /\ Told' /\ Drained'
    <2>1. Started'
        BY <1>1, <1>2, ServerFacts DEF Started, TypeOK, ServerOf, world
    <2>2. Told'
        BY <1>1, <1>2, ServerFacts DEF Told, Down
    <2>3. Drained'
        BY <1>1 DEF Drained, Running, reload
    <2> QED BY <2>1, <2>2, <2>3
<1> QED BY <1>4, <1>5, <1>6

\* Every step of the main goroutine.
LEMMA MainStepInv ==
    ASSUME IInv, MainStep
    PROVE  IInv'
<1> USE DEF IInv
<1>0. srv \in [Server -> {"off", "starting", "serving", "failing", "ended"}]
      /\ errc \in 0..2 /\ open \subseteq enabled /\ enabled \subseteq Server
    BY DEF TypeOK
<1>1. CASE Load
    <2>1. /\ main = "loading" /\ main' \in {"loaded", "exited"}
          /\ tried' = file /\ served' \in {file, served}
          /\ UNCHANGED <<world, servers, cancelled, signals, reloader, client>>
        BY <1>1 DEF Load, Goto, world
    <2>2. TypeOK'
        BY <2>1 DEF TypeOK, world, servers, signals, Gone
    <2>3. Started' /\ Reported'
        BY <2>1 DEF Started, Reported, One, servers, ServerOf
    <2>4. Told' /\ Drained'
        BY <2>1 DEF Told, Drained
    <2> QED BY <2>2, <2>3, <2>4
<1>2. CASE Notify
    BY <1>2 DEF Notify, Goto, TypeOK, Started, Told, Drained, Reported, One, Running, Down,
       world, servers, signals, ServerOf
<1>3. CASE Listen
    <2>1. /\ main = "listening" /\ main' = "serving" /\ open' = enabled
          /\ srv' = [s \in Server |-> IF s \in enabled THEN "starting" ELSE "off"]
          /\ UNCHANGED <<world, enabled, stopped, errc, timedOut, cancelled, signals,
                         reload, client>>
        BY <1>3 DEF Listen, Goto
    <2>2. \A s \in Server : srv[s] = "off"
        BY <2>1 DEF Started
    <2>3. TypeOK'
        BY <2>1 DEF TypeOK, world, signals, reload
    <2>4. Started'
        BY <1>0, <2>1, <2>2, ServerFacts DEF Started
    <2>5. Told' /\ Drained'
        BY <2>1 DEF Told, Drained
    <2>6. Reported'
        BY <1>0, <2>1, <2>2, ServerFacts DEF Reported, One
    <2> QED BY <2>3, <2>4, <2>5, <2>6
<1>4. ASSUME UNCHANGED <<world, servers, signals, reload, client>>,
             cancelled' \in BOOLEAN,
             \/ main = "listening" /\ main' = "returned"
             \/ main = "drainGRPC" /\ main' = "returned" /\ ~Running(Call)
             \/ main = "returned" /\ main' = "joining"
             \/ main = "joining" /\ main' = "closing" /\ reloader = "exited"
             \/ main = "closing" /\ main' = "exited"
      PROVE  IInv'
    <2>1. TypeOK' /\ Started' /\ Reported'
        BY <1>4 DEF TypeOK, Started, Reported, One, world, servers, signals, reload, ServerOf,
           Gone
    <2>2. Told'
        BY <1>4 DEF Told, Started, Down, servers
    <2>3. main = "listening" => ~Running(Call) /\ ~Running(Request)
        BY ServerFacts DEF Started, Running
    <2>4. Drained'
        BY <1>4, <2>3 DEF Drained, Running, servers, reload
    <2> QED BY <2>1, <2>2, <2>4
<1>5. CASE ListenFails \/ GracefulStop \/ CancelContext \/ Join \/ Close
    BY <1>4, <1>5 DEF ListenFails, GracefulStop, CancelContext, Join, Close, Walk, Goto, TypeOK
<1>6. CASE WakeUp
    <2>1. /\ main = "serving" /\ main' = "drainHTTP" /\ errc' \in {errc, errc - 1}
          /\ errc' \in 0..2 /\ Stop("http")
          /\ UNCHANGED <<world, enabled, srv, timedOut, cancelled, signals, reload, client>>
        BY <1>0, <1>6 DEF WakeUp, Goto
    <2>2. TypeOK'
        BY <2>1 DEF Stop, TypeOK, world, signals, reload
    <2>3. Started'
        BY <2>1, ServerFacts DEF Stop, Started, ServerOf
    <2>4. Told' /\ Drained'
        BY <2>1, ServerFacts DEF Stop, Told, Drained, Down, Started
    <2>5. Reported'
        BY <1>0, <2>1, ServerFacts DEF Reported, One
    <2> QED BY <2>2, <2>3, <2>4, <2>5
<1>7. CASE ShutdownHTTP
    <2>1. /\ main = "drainHTTP" /\ main' = "drainGRPC" /\ timedOut' = Running(Request)
          /\ Stop("grpc")
          /\ UNCHANGED <<world, enabled, srv, errc, cancelled, signals, reload, client>>
        BY <1>7 DEF ShutdownHTTP, Goto
    <2>2. TypeOK'
        BY <2>1 DEF Stop, TypeOK, world, signals, reload, Running
    <2>3. Started'
        BY <2>1, ServerFacts DEF Stop, Started, ServerOf
    <2>4. Told'
        BY <2>1, ServerFacts DEF Stop, Told, Down, Started, Server
    <2>5. Drained' /\ Reported'
        BY <2>1 DEF Drained, Reported, One, Running
    <2> QED BY <2>2, <2>3, <2>4, <2>5
<1> QED BY <1>1, <1>2, <1>3, <1>5, <1>6, <1>7 DEF MainStep

\* Every step of the process and of the world around it.
LEMMA Consecution == IInv /\ [Next]_vars => IInv'
<1>1. IInv /\ UNCHANGED vars => IInv'
    BY DEF IInv, vars, TypeOK, Started, Told, Drained, Reported, One, Running, Down, ServerOf
<1> QED BY <1>1, OtherStep, ServerStepInv, MainStepInv DEF Next, ServerStep

\* The invariant holds of every behaviour.
LEMMA Inductive == Spec => []IInv
BY Initiation, Consecution, PTL DEF Spec

-----------------------------------------------------------------------------
(***************************************************************************)
(* The variables of the process keep their types; in particular serve never *)
(* tells a server to stop that it was not configured to start.              *)
(***************************************************************************)
THEOREM TypeCorrect == Spec => []TypeOK
BY Inductive, PTL DEF IInv

(***************************************************************************)
(* When the deferred Close runs, no reload is running, no gRPC call is in   *)
(* flight, an HTTP request only if Shutdown gave up on it, and nothing is   *)
(* accepted any more: runServe's order of stop, Wait and Close.             *)
(***************************************************************************)
THEOREM ClosedLast == Spec => []QuiescentAtClose
<1>1. IInv => QuiescentAtClose
    <2> SUFFICES ASSUME IInv, main = "closing"
                 PROVE  /\ reloader = "exited"
                        /\ ~Running(Call)
                        /\ Running(Request) => timedOut
                        /\ \A s \in open : s \in stopped /\ srv[s] = "starting"
        BY DEF QuiescentAtClose
    <2>1. \A s \in open : s \in Server /\ srv[s] # "off"
        BY DEF IInv, Started, TypeOK
    <2> QED BY <2>1 DEF IInv, Started, Told, Drained, Down
<1> QED BY <1>1, Inductive, PTL

(***************************************************************************)
(* A server that fails can report it and end, whether or not serve still    *)
(* receives: the two places of errc suffice.                                *)
(***************************************************************************)
THEOREM ErrorsFit == Spec => []ReportNeverBlocks
<1>1. IInv => ReportNeverBlocks
    <2> SUFFICES ASSUME IInv, NEW s \in Server, srv[s] = "failing"
                 PROVE  errc < ErrcCapacity
        BY DEF ReportNeverBlocks
    <2>1. One(s) = 0 /\ One("http") \in 0..1 /\ One("grpc") \in 0..1
        BY DEF One
    <2>2. s = "http" \/ s = "grpc"
        BY DEF Server
    <2>3. errc \in Nat /\ errc <= One("http") + One("grpc")
        BY DEF IInv, TypeOK, Reported
    <2> QED BY <2>1, <2>2, <2>3 DEF ErrcCapacity
<1> QED BY <1>1, Inductive, PTL

-----------------------------------------------------------------------------
(***************************************************************************)
(* SIGHUPs and the versions of the file.  A file is wanted, opened and      *)
(* served no sooner than it stands there, and in that order; the goroutine  *)
(* that opens it is not there before the process has loaded the first.      *)
(***************************************************************************)
InOrder ==
    /\ served <= tried /\ tried <= file /\ wanted <= file
    /\ main \in {"loading", "loaded"} => reloader = "off"

\* The process has loaded the first file.
LEMMA OrderInitial == Init => InOrder /\ NoHupLost
BY DEF Init, InOrder, NoHupLost

\* Every step keeps the order, and a signal that is taken leads to a load.
LEMMA OrderStep == TypeOK /\ InOrder /\ NoHupLost /\ [Next]_vars
                     => InOrder' /\ NoHupLost' /\ served <= served'
<1> SUFFICES ASSUME TypeOK, InOrder, NoHupLost, [Next]_vars
             PROVE  InOrder' /\ NoHupLost' /\ served <= served'
    OBVIOUS
<1>1. /\ file \in Nat /\ tried \in Nat /\ served \in Nat /\ wanted \in Nat
      /\ served <= tried /\ tried <= file /\ wanted <= file
      /\ tried < wanted => hup \/ reloader = "loading"
      /\ main \in {"loading", "loaded"} => reloader = "off"
    BY BoundAssumption DEF TypeOK, Version, InOrder, NoHupLost
<1> USE DEF InOrder, NoHupLost
<1>2. CASE /\ UNCHANGED <<file, signals, reload>>
           /\ main' = main \/ main' \notin {"loading", "loaded"}
    BY <1>1, <1>2 DEF signals, reload
<1>3. CASE Publish
    BY <1>1, <1>3 DEF Publish, signals, reload
<1>4. CASE SigHup
    BY <1>1, <1>4 DEF SigHup, world, reload
<1>5. CASE Load
    BY <1>1, <1>5 DEF Load, Goto, world, signals
<1>6. CASE Notify
    BY <1>1, <1>6 DEF Notify, Goto, world, signals
<1>7. CASE ReloadStep
    <2>1. CASE TakeHup
        BY <1>1, <2>1 DEF TakeHup, world
    <2>2. CASE LoadFile
        BY <1>1, <2>2 DEF LoadFile, world, signals
    <2>3. CASE Install
        BY <1>1, <2>3 DEF Install, world, signals
    <2>4. CASE SeeDone
        BY <1>1, <2>4 DEF SeeDone, world, signals
    <2> QED BY <1>7, <2>1, <2>2, <2>3, <2>4 DEF ReloadStep
<1>8. CASE UNCHANGED vars
    BY <1>2, <1>8 DEF vars, signals, reload
<1>9. CASE SigTerm \/ SigKill \/ Listen \/ ListenFails \/ WakeUp \/ ShutdownHTTP
              \/ GracefulStop \/ CancelContext \/ Join \/ Close
    BY <1>2, <1>9 DEF SigTerm, SigKill, Listen, ListenFails, WakeUp, ShutdownHTTP,
       GracefulStop, CancelContext, Join, Close, Walk, Goto, Gone, world
<1>10. CASE \E s \in Server : BeginServe(s) \/ Report(s) \/ EndServe(s)
    BY <1>2, <1>10 DEF BeginServe, Report, EndServe, world
<1>11. CASE \E c \in Request \cup Call : Arrive(c) \/ Finish(c)
    BY <1>2, <1>11 DEF Arrive, Finish, world
<1> QED BY <1>3, <1>4, <1>5, <1>6, <1>7, <1>8, <1>9, <1>10, <1>11
        DEF Next, MainStep, ServerStep

(***************************************************************************)
(* A SIGHUP is never lost, however many the runtime drops and whenever the  *)
(* reload goroutine takes one: until the wanted file has been opened, a     *)
(* signal is left to be taken or a load is under way.                       *)
(***************************************************************************)
THEOREM HupsKept == Spec => []NoHupLost
BY OrderInitial, OrderStep, TypeCorrect, PTL DEF Spec

(***************************************************************************)
(* The one reload goroutine of runServe never replaces a database by an     *)
(* older one, whatever is published while it loads.                         *)
(***************************************************************************)
THEOREM ReloadsGoForward == Spec => NeverOlder
BY OrderInitial, OrderStep, TypeCorrect, PTL DEF Spec, NeverOlder

-----------------------------------------------------------------------------
(***************************************************************************)
(* The safety half of Stops.  Where the process waits: the guards of the    *)
(* steps of the main and of the reload goroutine.                           *)
(***************************************************************************)
MainCanStep ==
    \/ main \in {"loading", "loaded", "listening", "drainHTTP", "returned", "closing"}
    \/ main = "serving" /\ (cancelled \/ errc > 0)
    \/ main = "drainGRPC" /\ ~Running(Call)
    \/ main = "joining" /\ reloader = "exited"

ReloadCanStep ==
    \/ reloader \in {"loading", "installing"}
    \/ reloader = "waiting" /\ (hup \/ cancelled)

\* The process serves and has no reason to stop.
Serves == main = "serving" /\ ~cancelled /\ errc = 0

\* GracefulStop has a call to wait for.
AwaitsCalls == main = "drainGRPC" /\ Running(Call)

\* Whoever is joined was started, and was told to end before.
Joinable ==
    /\ main \notin {"loading", "loaded"} \cup Gone => reloader # "off"
    /\ main = "joining" => cancelled

LEMMA JoinableStep == TypeOK /\ Joinable /\ [Next]_vars => Joinable'
<1> SUFFICES ASSUME TypeOK, Joinable, [Next]_vars
             PROVE  Joinable'
    OBVIOUS
<1> USE DEF Joinable, Gone
<1>1. CASE UNCHANGED <<main, cancelled, reload>>
    BY <1>1 DEF reload
<1>2. CASE Publish \/ SigHup
    BY <1>1, <1>2 DEF Publish, SigHup
<1>3. CASE SigTerm \/ SigKill
    BY <1>3 DEF SigTerm, SigKill, reload
<1>4. CASE Load \/ Notify \/ Listen \/ ListenFails
    BY <1>4 DEF Load, Notify, Listen, ListenFails, Walk, Goto, reload
<1>5. CASE WakeUp \/ ShutdownHTTP \/ GracefulStop \/ CancelContext \/ Join \/ Close
    BY <1>5 DEF WakeUp, ShutdownHTTP, GracefulStop, CancelContext, Join, Close, Walk, Goto,
       reload
<1>6. CASE main \notin Gone /\ (TakeHup \/ LoadFile \/ Install \/ SeeDone)
    BY <1>6 DEF TakeHup, LoadFile, Install, SeeDone
<1>7. CASE \E s \in Server : BeginServe(s) \/ Report(s) \/ EndServe(s)
    BY <1>1, <1>7 DEF BeginServe, Report, EndServe
<1>8. CASE \E c \in Request \cup Call : Arrive(c) \/ Finish(c)
    BY <1>1, <1>8 DEF Arrive, Finish
<1>9. CASE UNCHANGED vars
    BY <1>1, <1>9 DEF vars, reload
<1> QED BY <1>2, <1>3, <1>4, <1>5, <1>6, <1>7, <1>8, <1>9
        DEF Next, MainStep, ServerStep, ReloadStep

(***************************************************************************)
(* The process waits in two places only: in the select of serve, until it   *)
(* is told to stop or a server fails, and in GracefulStop, for calls that   *)
(* their clients have not ended.  Everywhere else the main goroutine has a  *)
(* step to take, or waits in wg.Wait for a reload goroutine that has one.   *)
(***************************************************************************)
THEOREM WaitsOnlyForClients ==
    Spec => [](main \in Gone \/ MainCanStep \/ ReloadCanStep \/ Serves \/ AwaitsCalls)
<1>1. Init => Joinable
    BY DEF Init, Joinable
<1>2. Spec => []Joinable
    BY <1>1, JoinableStep, TypeCorrect, PTL DEF Spec
<1>3. TypeOK /\ Joinable =>
          main \in Gone \/ MainCanStep \/ ReloadCanStep \/ Serves \/ AwaitsCalls
    <2> SUFFICES ASSUME TypeOK, Joinable, main \notin Gone, ~MainCanStep
                 PROVE  ReloadCanStep \/ Serves \/ AwaitsCalls
        OBVIOUS
    <2>1. main \in {"serving", "drainGRPC", "joining"} /\ errc \in 0..2
        BY DEF TypeOK, MainCanStep
    <2>2. CASE main = "serving"
        BY <2>1, <2>2 DEF MainCanStep, Serves
    <2>3. CASE main = "drainGRPC"
        BY <2>3 DEF MainCanStep, AwaitsCalls
    <2>4. CASE main = "joining"
        <3>1. reloader \in {"waiting", "loading", "installing"} /\ cancelled
            BY <2>4 DEF TypeOK, Joinable, MainCanStep, Gone
        <3> QED BY <3>1 DEF ReloadCanStep
    <2> QED BY <2>1, <2>2, <2>3, <2>4
<1> QED BY <1>2, <1>3, TypeCorrect, PTL

-----------------------------------------------------------------------------
(***************************************************************************)
(* And the steps run out.  What is left to do: of the main goroutine, of    *)
(* the servers, of the signals and the Reloads they ask for, of the files   *)
(* that may still appear.  A signal costs more than the Reload it asks for, *)
(* and a step of the main goroutine more than the servers it starts.        *)
(***************************************************************************)
MainLeft ==
    CASE main = "loading"   -> 9
      [] main = "loaded"    -> 8
      [] main = "listening" -> 7
      [] main = "serving"   -> 6
      [] main = "drainHTTP" -> 5
      [] main = "drainGRPC" -> 4
      [] main = "returned"  -> 3
      [] main = "joining"   -> 2
      [] main = "closing"   -> 1
      [] OTHER              -> 0

ServerLeft(s) ==
    CASE srv[s] = "starting" -> 3
      [] srv[s] = "serving"  -> 2
      [] srv[s] = "failing"  -> 1
      [] OTHER               -> 0

ReloadLeft ==
    CASE reloader = "loading"    -> 3
      [] reloader = "installing" -> 2
      [] reloader = "exited"     -> 0
      [] OTHER                   -> 1

SignalsLeft ==
    5 * (MaxHup - hups) + (IF hup THEN 4 ELSE 0) + (IF cancelled THEN 0 ELSE 1)

FilesLeft == MaxVersion - file

WorkLeft ==
    10 * MainLeft + ServerLeft("http") + ServerLeft("grpc")
    + ReloadLeft + SignalsLeft + FilesLeft

ClientStep == \E c \in Request \cup Call : Arrive(c) \/ Finish(c)

\* The parts are numbers, and small ones.
LEMMA LeftIsNumber ==
    ASSUME TypeOK
    PROVE  /\ SignalsLeft \in Nat /\ FilesLeft \in Nat
           /\ MainLeft \in 0..9 /\ ReloadLeft \in 0..3
           /\ ServerLeft("http") \in 0..3 /\ ServerLeft("grpc") \in 0..3
           /\ WorkLeft \in Nat
<1>1. SignalsLeft \in Nat
    BY BoundAssumption DEF SignalsLeft, TypeOK
<1>2. FilesLeft \in Nat
    BY BoundAssumption DEF FilesLeft, TypeOK, Version
<1>3. MainLeft \in 0..9 /\ ReloadLeft \in 0..3
    BY DEF MainLeft, ReloadLeft
<1>4. ServerLeft("http") \in 0..3 /\ ServerLeft("grpc") \in 0..3
    BY DEF ServerLeft
<1> QED BY <1>1, <1>2, <1>3, <1>4 DEF WorkLeft

\* Each step lowers one part and raises no other, but for the two that pay for it.
\* The letters are the parts before the step and after it.
LEMMA StepLowers ==
    ASSUME TypeOK, TypeOK', InOrder, Next, ~ClientStep
    PROVE  WorkLeft' < WorkLeft \/ UNCHANGED vars
<1>1. PICK m1 \in Nat, m2 \in Nat : m1 = MainLeft /\ m2 = MainLeft'
    BY DEF MainLeft
<1>2. PICK r1 \in Nat, r2 \in Nat : r1 = ReloadLeft /\ r2 = ReloadLeft'
    BY DEF ReloadLeft
<1>3. PICK h1 \in Nat, h2 \in Nat : h1 = ServerLeft("http") /\ h2 = ServerLeft("http")'
                                   /\ h2 <= 3
    BY DEF ServerLeft
<1>4. PICK g1 \in Nat, g2 \in Nat : g1 = ServerLeft("grpc") /\ g2 = ServerLeft("grpc")'
                                   /\ g2 <= 3
    BY DEF ServerLeft
<1>5. PICK s1 \in Nat, s2 \in Nat : s1 = SignalsLeft /\ s2 = SignalsLeft'
    <2>1. MaxHup \in Nat /\ hups \in 0..MaxHup /\ hups' \in 0..MaxHup
        BY BoundAssumption DEF TypeOK
    <2>2. SignalsLeft \in Nat
        BY <2>1 DEF SignalsLeft
    <2>3. SignalsLeft' \in Nat
        <3>1. PICK n \in 0..MaxHup : n = hups'
            BY <2>1
        <3>2. 5 * (MaxHup - n) \in Nat
            BY <2>1
        <3> QED BY <3>1, <3>2 DEF SignalsLeft
    <2> QED BY <2>2, <2>3
<1>6. PICK f1 \in Nat, f2 \in Nat : f1 = FilesLeft /\ f2 = FilesLeft'
    <2>1. MaxVersion \in Nat /\ file \in 0..MaxVersion /\ file' \in 0..MaxVersion
        BY BoundAssumption DEF TypeOK, Version
    <2>2. FilesLeft \in Nat
        BY <2>1 DEF FilesLeft
    <2>3. FilesLeft' \in Nat
        <3>1. PICK v \in 0..MaxVersion : v = file'
            BY <2>1
        <3>2. MaxVersion - v \in Nat
            BY <2>1
        <3> QED BY <3>1, <3>2 DEF FilesLeft
    <2> QED BY <2>2, <2>3
<1>7. /\ WorkLeft = 10 * m1 + h1 + g1 + r1 + s1 + f1
      /\ WorkLeft' = 10 * m2 + h2 + g2 + r2 + s2 + f2
    BY <1>1, <1>2, <1>3, <1>4, <1>5, <1>6 DEF WorkLeft
<1>8. ASSUME m2 < m1, r2 <= r1, s2 <= s1, f2 = f1
      PROVE  WorkLeft' < WorkLeft
    BY <1>7, <1>8, <1>3, <1>4
<1>9. ASSUME UNCHANGED <<main, file, reloader, hups, hup, cancelled>>,
             \/ h2 < h1 /\ g2 = g1
             \/ h2 = h1 /\ g2 < g1
      PROVE  WorkLeft' < WorkLeft
    <2>1. m2 = m1 /\ r2 = r1 /\ s2 = s1 /\ f2 = f1
        BY <1>9, <1>1, <1>2, <1>5, <1>6 DEF MainLeft, ReloadLeft, SignalsLeft, FilesLeft
    <2> QED BY <1>7, <1>9, <2>1
<1>10. ASSUME UNCHANGED <<main, srv, file>>, r2 + s2 < r1 + s1
      PROVE  WorkLeft' < WorkLeft
    <2>1. m2 = m1 /\ h2 = h1 /\ g2 = g1 /\ f2 = f1
        BY <1>10, <1>1, <1>3, <1>4, <1>6 DEF MainLeft, ServerLeft, FilesLeft
    <2> QED BY <1>7, <1>10, <2>1
<1>11. CASE Publish
    <2>1. UNCHANGED <<main, srv, reloader, hups, hup, cancelled>> /\ file' = file + 1
        BY <1>11 DEF Publish, servers, signals, reload
    <2>2. m2 = m1 /\ h2 = h1 /\ g2 = g1 /\ r2 = r1 /\ s2 = s1
        BY <2>1, <1>1, <1>2, <1>3, <1>4, <1>5 DEF MainLeft, ServerLeft, ReloadLeft, SignalsLeft
    <2>3. f2 < f1
        BY <2>1, <1>6, BoundAssumption DEF FilesLeft, TypeOK, Version
    <2> QED BY <1>7, <2>2, <2>3
<1>12. CASE SigHup
    <2>1. UNCHANGED <<main, srv, file, reloader, cancelled>> /\ hups' = hups + 1 /\ hup'
        BY <1>12 DEF SigHup, servers, world, reload
    <2>2. r2 = r1
        BY <2>1, <1>2 DEF ReloadLeft
    <2>3. s2 < s1
        BY <2>1, <1>5, BoundAssumption DEF SignalsLeft, TypeOK
    <2> QED BY <1>10, <2>1, <2>2, <2>3
<1>13. CASE SigTerm
    <2>1. UNCHANGED <<main, srv, file, reloader, hups, hup>> /\ cancelled'
        BY <1>13 DEF SigTerm, servers, world, reload, signals
    <2>2. CASE cancelled
        BY <1>13, <2>2 DEF SigTerm, vars, servers, world, reload, signals, TypeOK
    <2>3. CASE ~cancelled
        <3>1. r2 = r1
            BY <2>1, <1>2 DEF ReloadLeft
        <3>2. s2 < s1
            BY <2>1, <2>3, <1>5, BoundAssumption DEF SignalsLeft, TypeOK
        <3> QED BY <1>10, <2>1, <3>1, <3>2
    <2> QED BY <2>2, <2>3
<1>14. CASE SigKill \/ MainStep
    <2>1. m2 < m1
        <3>1. CASE Load \/ Notify \/ Listen \/ ListenFails \/ SigKill
            BY <3>1, <1>1 DEF Load, Notify, Listen, ListenFails, SigKill, Walk, Goto, MainLeft,
               HupDefault, TermDefault
        <3>2. CASE WakeUp \/ ShutdownHTTP \/ GracefulStop \/ CancelContext \/ Join \/ Close
            BY <3>2, <1>1 DEF WakeUp, ShutdownHTTP, GracefulStop, CancelContext, Join, Close,
               Walk, Goto, MainLeft
        <3> QED BY <1>14, <3>1, <3>2 DEF MainStep
    <2>2. /\ UNCHANGED <<file, hups, hup>> /\ (cancelled => cancelled')
          /\ reloader' = reloader \/ reloader' = "waiting"
        BY <1>14 DEF MainStep, Load, Notify, Listen, ListenFails, SigKill, WakeUp,
           ShutdownHTTP, GracefulStop, CancelContext, Join, Close, Walk, world, signals, reload
    <2>3. s2 <= s1
        BY <2>2, <1>5, BoundAssumption DEF SignalsLeft, TypeOK
    <2>4. r2 <= r1
        <3>1. CASE Notify
            BY <3>1, <1>2 DEF Notify, Goto, ReloadLeft, InOrder
        <3>2. CASE ~Notify
            <4>1. reloader' = reloader
                BY <1>14, <3>2 DEF MainStep, Load, Listen, ListenFails, SigKill, WakeUp,
                   ShutdownHTTP, GracefulStop, CancelContext, Join, Close, Walk, reload
            <4> QED BY <4>1, <1>2 DEF ReloadLeft
        <3> QED BY <3>1, <3>2
    <2>5. f2 = f1
        BY <2>2, <1>6 DEF FilesLeft
    <2> QED BY <1>8, <2>1, <2>3, <2>4, <2>5
<1>15. ASSUME NEW s \in Server, BeginServe(s) \/ Report(s) \/ EndServe(s)
      PROVE  WorkLeft' < WorkLeft
    <2>1. UNCHANGED <<main, file, reloader, hups, hup, cancelled>>
        BY <1>15 DEF BeginServe, Report, EndServe, world, signals, reload
    <2>2. \A t \in Server : t # s => srv'[t] = srv[t]
        BY <1>15 DEF BeginServe, Report, EndServe, TypeOK
    <2>3. ServerLeft(s)' < ServerLeft(s)
        BY <1>15 DEF BeginServe, Report, EndServe, TypeOK, ServerLeft
    <2>4. \A t \in Server : t # s => ServerLeft(t)' = ServerLeft(t)
        BY <2>2 DEF ServerLeft
    <2>5. s = "http" \/ s = "grpc"
        BY DEF Server
    <2> QED BY <1>9, <1>3, <1>4, <2>1, <2>3, <2>4, <2>5, ServerFacts
<1>16. CASE ReloadStep
    <2>1. UNCHANGED <<main, srv, file, hups, cancelled>>
        BY <1>16 DEF ReloadStep, TakeHup, LoadFile, Install, SeeDone, world, servers, signals
    <2>2. r2 + s2 < r1 + s1
        <3>1. CASE TakeHup
            <4>1. r1 = 1 /\ r2 = 3
                BY <3>1, <1>2 DEF TakeHup, ReloadLeft
            <4>2. s1 = s2 + 4
                BY <2>1, <3>1, <1>5, BoundAssumption DEF TakeHup, SignalsLeft, TypeOK
            <4> QED BY <4>1, <4>2
        <3>2. CASE LoadFile \/ Install \/ SeeDone
            <4>1. r2 < r1
                BY <3>2, <1>2 DEF LoadFile, Install, SeeDone, ReloadLeft
            <4>2. s2 = s1
                BY <2>1, <3>2, <1>5 DEF LoadFile, Install, SeeDone, SignalsLeft, signals
            <4> QED BY <4>1, <4>2
        <3> QED BY <1>16, <3>1, <3>2 DEF ReloadStep
    <2> QED BY <1>10, <2>1, <2>2
<1> QED BY <1>11, <1>12, <1>13, <1>14, <1>15, <1>16 DEF Next, ServerStep, ClientStep

(***************************************************************************)
(* Between two steps of clients the process takes finitely many: whatever   *)
(* else happens lowers a number.  It does not turn in a circle of signals   *)
(* and Reloads, nor of failing servers, and no part of the way from         *)
(* runServe to Close is taken twice.                                        *)
(***************************************************************************)
THEOREM ProcessRunsOut ==
    Spec => [](WorkLeft \in Nat) /\ [][ClientStep \/ WorkLeft' < WorkLeft]_vars
<1>1. TypeOK => WorkLeft \in Nat
    BY LeftIsNumber
<1>2. Spec => []InOrder
    BY OrderInitial, OrderStep, TypeCorrect, PTL DEF Spec
<1>3. TypeOK /\ TypeOK' /\ InOrder /\ [Next]_vars => [ClientStep \/ WorkLeft' < WorkLeft]_vars
    BY StepLowers
<1> QED BY <1>1, <1>2, <1>3, TypeCorrect, PTL DEF Spec
=============================================================================
