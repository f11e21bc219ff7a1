-------------------------------- MODULE Serve --------------------------------
(***************************************************************************)
(* The server process (cmd/cloudattr/serve.go): the main goroutine from     *)
(* runServe through serve and shutdown to the deferred Close, the goroutine *)
(* that reloads on SIGHUP, the goroutines of the two servers, the signals   *)
(* and the requests in flight.                                              *)
(*                                                                          *)
(* The Service is reduced here to the version it serves: a Reload opens the *)
(* file and installs it.  net/http and grpc-go are external and modelled as *)
(* serve uses them: Shutdown gives up after its timeout, GracefulStop waits *)
(* for every call.                                                          *)
(***************************************************************************)
EXTENDS Naturals, FiniteSets

CONSTANTS
    Request,       \* HTTP requests that may arrive
    Call,          \* gRPC calls that may arrive, streams included
    MaxVersion,    \* bound on the files ever published
    MaxHup         \* bound on the SIGHUPs ever sent

ASSUME BoundAssumption == MaxVersion \in Nat /\ MaxHup \in Nat
ASSUME ClientAssumption == Request \cap Call = {}

Server == {"http", "grpc"}
Version == 0..MaxVersion

VARIABLES
    file,          \* the file at --in, by version
    good,          \* whether it can be opened and validated
    main,          \* where the main goroutine is
    enabled,       \* the servers with a listen address
    open,          \* the servers whose listener is open
    srv,           \* where the goroutine of each server is
    stopped,       \* the servers told to stop
    errc,          \* the errors in the channel of serve
    timedOut,      \* Shutdown gave up waiting for HTTP requests
    cancelled,     \* ctx is done
    hup,           \* a SIGHUP is in the channel of the reload goroutine
    reloader,      \* where that goroutine is
    tried,         \* the version its last Reload opened
    served,        \* the version of the current database
    wanted,        \* the version that stood there at the last SIGHUP
    hups,          \* SIGHUPs sent so far
    client         \* where each request and call is

world   == <<file, good>>
signals == <<hup, wanted, hups>>
reload  == <<reloader, tried, served>>
servers == <<enabled, open, srv, stopped, errc, timedOut>>
vars == <<file, good, main, enabled, open, srv, stopped, errc, timedOut, cancelled,
          hup, reloader, tried, served, wanted, hups, client>>

\* The places in which the process is gone.
Gone == {"exited", "killed"}
\* Signals have their default effect before they are registered and after Stop.
HupDefault  == {"loading", "loaded", "closing"}
TermDefault == {"loading", "loaded", "joining", "closing"}

TypeOK ==
    /\ file \in Version /\ good \in BOOLEAN
    /\ main \in {"loading", "loaded", "listening", "serving", "drainHTTP", "drainGRPC",
                 "returned", "joining", "closing"} \cup Gone
    /\ enabled \subseteq Server /\ open \subseteq enabled /\ stopped \subseteq enabled
    /\ srv \in [Server -> {"off", "starting", "serving", "failing", "ended"}]
    /\ errc \in 0..2 /\ timedOut \in BOOLEAN
    /\ cancelled \in BOOLEAN /\ hup \in BOOLEAN
    /\ reloader \in {"off", "waiting", "loading", "installing", "exited"}
    /\ tried \in Version /\ served \in Version /\ wanted \in Version
    /\ hups \in 0..MaxHup
    /\ client \in [Request \cup Call -> {"none", "running", "done"}]

Init ==
    /\ file = 0 /\ good \in BOOLEAN
    /\ main = "loading"
    /\ enabled \in SUBSET Server
    /\ open = {} /\ srv = [s \in Server |-> "off"] /\ stopped = {}
    /\ errc = 0 /\ timedOut = FALSE
    /\ cancelled = FALSE /\ hup = FALSE
    /\ reloader = "off"
    /\ tried = 0 /\ served = 0 /\ wanted = 0
    /\ hups = 0
    /\ client = [c \in Request \cup Call |-> "none"]

-----------------------------------------------------------------------------
(***************************************************************************)
(* The world outside: builds publish files, operators send signals.         *)
(***************************************************************************)
Publish ==
    /\ file < MaxVersion
    /\ file' = file + 1
    /\ good' \in BOOLEAN
    /\ UNCHANGED <<main, servers, cancelled, signals, reload, client>>

\* Variant: the channel has no buffer, a signal arrives only at a waiting receiver.
SigHupUnbuffered ==
    /\ main \notin Gone \cup HupDefault
    /\ hups < MaxHup
    /\ hups' = hups + 1
    /\ hup' = (hup \/ reloader = "waiting")
    /\ wanted' = file
    /\ UNCHANGED <<world, main, servers, cancelled, reload, client>>

\* The runtime drops a signal if the channel holds one already.
SigHup ==
    /\ main \notin Gone \cup HupDefault
    /\ hups < MaxHup
    /\ hups' = hups + 1
    /\ hup' = TRUE
    /\ wanted' = file
    /\ UNCHANGED <<world, main, servers, cancelled, reload, client>>

SigTerm ==
    /\ main \notin Gone \cup TermDefault
    /\ cancelled' = TRUE
    /\ UNCHANGED <<world, main, servers, signals, reload, client>>

\* A signal that is not caught ends the process.
SigKill ==
    /\ main \in HupDefault \cup TermDefault
    /\ main' = "killed"
    /\ UNCHANGED <<world, servers, cancelled, signals, reload, client>>

-----------------------------------------------------------------------------
(***************************************************************************)
(* runServe up to serve, and serve up to its select.                        *)
(***************************************************************************)
Goto(from, to) == main = from /\ main' = to

\* The main goroutine moves on and changes nothing.
Walk(from, to) ==
    /\ Goto(from, to)
    /\ UNCHANGED <<world, servers, cancelled, signals, reload, client>>

\* NewServiceIndexed: without a good file there is no server.
Load ==
    /\ Goto("loading", IF good THEN "loaded" ELSE "exited")
    /\ tried' = file
    /\ served' = IF good THEN file ELSE served
    /\ UNCHANGED <<world, servers, cancelled, signals, reloader, client>>

\* NotifyContext, Notify and the start of the reload goroutine.
Notify ==
    /\ Goto("loaded", "listening")
    /\ reloader' = "waiting"
    /\ UNCHANGED <<world, servers, cancelled, signals, tried, served, client>>

\* Both listeners are bound before either server starts.
Listen ==
    /\ Goto("listening", "serving")
    /\ open' = enabled
    /\ srv' = [s \in Server |-> IF s \in enabled THEN "starting" ELSE "off"]
    /\ UNCHANGED <<world, enabled, stopped, errc, timedOut, cancelled, signals, reload,
                   client>>

\* One of them fails: the other is closed, no server has started.
ListenFails == enabled # {} /\ Walk("listening", "returned")

-----------------------------------------------------------------------------
(***************************************************************************)
(* The goroutines of the servers.                                           *)
(***************************************************************************)
\* Serve: a server that was stopped before closes the listener and returns;
\* that is ErrServerClosed for net/http, which is ignored, and an error for grpc.
BeginServe(s) ==
    /\ srv[s] = "starting"
    /\ srv' = [srv EXCEPT ![s] = IF s \notin stopped THEN "serving"
                                 ELSE IF s = "http" THEN "ended" ELSE "failing"]
    /\ open' = IF s \in stopped THEN open \ {s} ELSE open
    /\ UNCHANGED <<world, main, enabled, stopped, errc, timedOut, cancelled, signals,
                   reload, client>>

\* Serve returns: it was told to stop, or accepting a connection failed.
EndServe(s) ==
    /\ srv[s] = "serving"
    /\ srv' = [srv EXCEPT ![s] = IF s \in stopped THEN "ended" ELSE "failing"]
    /\ open' = open \ {s}
    /\ UNCHANGED <<world, main, enabled, stopped, errc, timedOut, cancelled, signals,
                   reload, client>>

\* Variant: the channel has room for one.
ErrcOne == 1

\* make(chan error, 2)
ErrcCapacity == 2

Report(s) ==
    /\ srv[s] = "failing"
    /\ errc < ErrcCapacity
    /\ errc' = errc + 1
    /\ srv' = [srv EXCEPT ![s] = "ended"]
    /\ UNCHANGED <<world, main, enabled, open, stopped, timedOut, cancelled, signals,
                   reload, client>>

\* A request runs from the moment its connection is busy.  A server that failed to
\* accept still serves the connections it has.
ServerOf(c) == IF c \in Request THEN "http" ELSE "grpc"

Arrive(c) ==
    /\ client[c] = "none"
    /\ ServerOf(c) \notin stopped
    /\ srv[ServerOf(c)] \in {"serving", "failing", "ended"}
    /\ main \notin Gone
    /\ client' = [client EXCEPT ![c] = "running"]
    /\ UNCHANGED <<world, main, servers, cancelled, signals, reload>>

Finish(c) ==
    /\ client[c] = "running"
    /\ main \notin Gone
    /\ client' = [client EXCEPT ![c] = "done"]
    /\ UNCHANGED <<world, main, servers, cancelled, signals, reload>>

-----------------------------------------------------------------------------
(***************************************************************************)
(* The end of serve, and of runServe.                                       *)
(***************************************************************************)
Running(C) == \E c \in C : client[c] = "running"

\* Shutdown and GracefulStop close the listener that Serve has registered.
Stop(s) ==
    /\ stopped' = stopped \cup ({s} \cap enabled)
    /\ open' = IF srv[s] = "serving" THEN open \ {s} ELSE open

\* The select of serve: ctx is done or a server failed.
WakeUp ==
    /\ Goto("serving", "drainHTTP")
    /\ \/ cancelled /\ UNCHANGED errc
       \/ errc > 0 /\ errc' = errc - 1
    /\ Stop("http")
    /\ UNCHANGED <<world, enabled, srv, timedOut, cancelled, signals, reload, client>>

\* Shutdown returns when no HTTP request is left, or gives up after its timeout.
ShutdownHTTP ==
    /\ Goto("drainHTTP", "drainGRPC")
    /\ timedOut' = Running(Request)
    /\ Stop("grpc")
    /\ UNCHANGED <<world, enabled, srv, errc, cancelled, signals, reload, client>>

\* GracefulStop has no timeout.
GracefulStop == ~Running(Call) /\ Walk("drainGRPC", "returned")

\* Variant: the context is not cancelled, only a signal ends the reload goroutine.
KeepContext == Walk("returned", "joining")

\* stop()
CancelContext ==
    /\ Goto("returned", "joining")
    /\ cancelled' = TRUE
    /\ UNCHANGED <<world, servers, signals, reload, client>>

\* Variant: the reload goroutine is not waited for.
NoJoin == Walk("joining", "closing")

\* wg.Wait(), after which signal.Stop(hup) and svc.Close() are deferred.
Join == reloader = "exited" /\ Walk("joining", "closing")

Close == Walk("closing", "exited")

-----------------------------------------------------------------------------
(***************************************************************************)
(* The reload goroutine.  Its select may take either of two ready cases.    *)
(***************************************************************************)
TakeHup ==
    /\ reloader = "waiting" /\ hup
    /\ reloader' = "loading"
    /\ hup' = FALSE
    /\ UNCHANGED <<world, main, servers, cancelled, wanted, hups, tried, served,
                   client>>

LoadFile ==
    /\ reloader = "loading"
    /\ reloader' = IF good THEN "installing" ELSE "waiting"
    /\ tried' = file
    /\ UNCHANGED <<world, main, servers, cancelled, signals, served, client>>

Install ==
    /\ reloader = "installing"
    /\ reloader' = "waiting"
    /\ served' = tried
    /\ UNCHANGED <<world, main, servers, cancelled, signals, tried, client>>

SeeDone ==
    /\ reloader = "waiting" /\ cancelled
    /\ reloader' = "exited"
    /\ UNCHANGED <<world, main, servers, cancelled, signals, tried, served, client>>

-----------------------------------------------------------------------------
MainStep ==
    \/ Load \/ Notify \/ Listen \/ ListenFails \/ WakeUp \/ ShutdownHTTP
    \/ GracefulStop \/ CancelContext \/ Join \/ Close

ServerStep(s) == main \notin Gone /\ (BeginServe(s) \/ Report(s))

ReloadStep == main \notin Gone /\ (TakeHup \/ LoadFile \/ Install \/ SeeDone)

Next ==
    \/ Publish \/ SigHup \/ SigTerm \/ SigKill
    \/ MainStep
    \/ \E s \in Server : ServerStep(s) \/ (main \notin Gone /\ EndServe(s))
    \/ \E c \in Request \cup Call : Arrive(c) \/ Finish(c)
    \/ ReloadStep

Spec == Init /\ [][Next]_vars

(***************************************************************************)
(* Goroutines that can run do run, and Serve returns once it is told to.    *)
(* Nobody is obliged to send a signal, to publish, or to end a request.     *)
(***************************************************************************)
ProcessFairness ==
    /\ WF_vars(MainStep)
    /\ WF_vars(ReloadStep)
    /\ \A s \in Server : WF_vars(ServerStep(s)) /\ WF_vars(s \in stopped /\ EndServe(s))

FairSpec == Spec /\ ProcessFairness

\* Clients that end the calls they have begun.
CallsEnd == \A c \in Call : WF_vars(Finish(c))

PoliteSpec == FairSpec /\ CallsEnd

-----------------------------------------------------------------------------
(***************************************************************************)
(* When the database is closed no reload is running nor will one run, no    *)
(* gRPC call is in flight, an HTTP request only if Shutdown gave up waiting *)
(* for it, and nothing is accepted any more ("no reload overlaps close").   *)
(***************************************************************************)
QuiescentAtClose ==
    main = "closing" =>
        /\ reloader = "exited"
        /\ ~Running(Call)
        /\ Running(Request) => timedOut
        /\ \A s \in open : s \in stopped /\ srv[s] = "starting"

(***************************************************************************)
(* A server that fails can always report it and end: the channel has room   *)
(* for both, also when nobody receives any more.                            *)
(***************************************************************************)
ReportNeverBlocks == \A s \in Server : srv[s] = "failing" => errc < ErrcCapacity

(***************************************************************************)
(* A file that is at the path when a SIGHUP arrives, or a newer one, is     *)
(* opened afterwards unless the process is stopping, however many signals   *)
(* fell together.                                                           *)
(***************************************************************************)
HupHeard ==
    \A v \in Version : (wanted = v) ~> (tried >= v \/ cancelled \/ main \in Gone)

(***************************************************************************)
(* What that rests on: as long as the file of the last SIGHUP, or a newer   *)
(* one, has not been opened, a signal is in the channel or a Reload is      *)
(* about to open it, whenever the signals came and the runtime dropped some.*)
(***************************************************************************)
NoHupLost == tried < wanted => hup \/ reloader = "loading"

(***************************************************************************)
(* A Reload never goes back to an older database, however many builds       *)
(* publish while it loads: one goroutine calls Reload, one call at a time.  *)
(***************************************************************************)
NeverOlder == [][served <= served']_vars

(***************************************************************************)
(* Once it is told to stop, or its listeners or servers fail, the process   *)
(* ends ("asserts a clean shutdown (no hang, no error)").                   *)
(***************************************************************************)
Stops == (cancelled \/ errc > 0 \/ main = "returned") ~> (main \in Gone)
=============================================================================
