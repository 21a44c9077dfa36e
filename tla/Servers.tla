------------------------------ MODULE Servers ------------------------------
(***************************************************************************)
(* A service as app.Run runs it: the dependencies of InitDeps, an          *)
(* httpserver.Server and a grpcserver.Server in a worker.Group, and the    *)
(* closer that releases the dependencies at the end.  Group.Run stops the  *)
(* runnables in reverse order, gRPC and then HTTP, under one context that  *)
(* expires after ShutdownTimeout.                                          *)
(*                                                                         *)
(* Time is counted down by Tick while a Stop runs: the deadline of the     *)
(* context of stopAll and the timer of the server's own Stop.  net/http    *)
(* and grpc-go are external: Shutdown and GracefulStop refuse new requests *)
(* and wait for those in flight, Close and Stop cut them.                  *)
(***************************************************************************)
EXTENDS Integers, Sequences, FiniteSets

CONSTANTS
    Req,          \* requests, HTTP or gRPC
    Deps,         \* how many dependencies InitDeps builds
    GroupTimeout, \* GroupConfig.ShutdownTimeout; 0 is no bound
    HttpTimeout,  \* httpserver ShutdownTimeout, when ctx has no deadline
    GrpcTimeout   \* grpcserver ShutdownTimeout

VARIABLES
    svMain,   \* app.Run: init, run, stopGrpc, stopHttp, wait, close, done
    svDeps,   \* cleanups registered with the closer and not run
    svHttp,   \* [start, open]: the Start goroutine, and whether it may accept
    svGrpc,   \* the same for gRPC
    svHealth, \* the gRPC health status is SERVING
    svReq,    \* request -> [server, state]
    svLeft,   \* time left of the context of stopAll
    svTimer   \* time left of the timer of the Stop that runs

svVars == <<svMain, svDeps, svHttp, svGrpc, svHealth, svReq, svLeft, svTimer>>

\* new -> bound (gRPC only: listening, before Serve) -> serving -> returned
Starts == {"new", "bound", "serving", "returned"}
\* open -> draining -> closed
Opens == {"open", "draining", "closed"}

InFlight(s) == {r \in Req : svReq[r].server = s /\ svReq[r].state = "active"}

Init ==
    /\ svMain = "init"
    /\ svDeps = 0
    /\ svHttp = [start |-> "new", open |-> "open"]
    /\ svGrpc = [start |-> "new", open |-> "open"]
    /\ svHealth = FALSE
    /\ svReq \in [Req -> [server : {"http", "grpc"}, state : {"none"}]]
    /\ svLeft = GroupTimeout
    /\ svTimer = 0

\* InitDeps: an initializer registers its cleanup; the first that fails ends
\* the start, and the cleanups registered so far still run.
InitDeps ==
    /\ svMain = "init"
    /\ \/ svDeps < Deps /\ svDeps' = svDeps + 1 /\ UNCHANGED svMain
       \/ svDeps < Deps /\ svMain' = "close" /\ UNCHANGED svDeps
       \/ svDeps = Deps /\ svMain' = "run" /\ UNCHANGED svDeps
    /\ UNCHANGED <<svHttp, svGrpc, svHealth, svReq, svLeft, svTimer>>

-----------------------------------------------------------------------------
Running == svMain \notin {"init", "close", "done"}

HttpStartReopens ==
    /\ Running
    /\ svHttp.start = "new"
    /\ svHttp' = [start |-> "serving", open |-> "open"]
    /\ UNCHANGED <<svMain, svDeps, svGrpc, svHealth, svReq, svLeft, svTimer>>

\* ListenAndServe: after a Shutdown it returns ErrServerClosed at once.
HttpStart ==
    /\ Running
    /\ svHttp.start = "new"
    /\ svHttp' = [svHttp EXCEPT !.start = IF svHttp.open = "open" THEN "serving" ELSE "returned"]
    /\ UNCHANGED <<svMain, svDeps, svGrpc, svHealth, svReq, svLeft, svTimer>>

\* Start binds the listener; Serve then sets the health status and serves,
\* or returns ErrServerStopped when Stop came first.
GrpcStart ==
    /\ Running
    /\ \/ /\ svGrpc.start = "new"
          /\ svGrpc' = [svGrpc EXCEPT !.start = "bound"]
          /\ UNCHANGED svHealth
       \/ /\ svGrpc.start = "bound"
          /\ svHealth' = TRUE
          /\ svGrpc' = [svGrpc EXCEPT !.start =
                  IF svGrpc.open = "open" THEN "serving" ELSE "returned"]
    /\ UNCHANGED <<svMain, svDeps, svHttp, svReq, svLeft, svTimer>>

\* A listener that cannot be bound, under a canceled context too, fails its
\* Start, and the group with it.
ListenFails ==
    /\ Running
    /\ \/ svHttp.start = "new" /\ svHttp' = [svHttp EXCEPT !.start = "returned"] /\ UNCHANGED svGrpc
       \/ svGrpc.start = "new" /\ svGrpc' = [svGrpc EXCEPT !.start = "returned"] /\ UNCHANGED svHttp
    /\ IF svMain = "run"
       THEN svMain' = "stopGrpc" /\ svHealth' = FALSE /\ svTimer' = GrpcTimeout
       ELSE UNCHANGED <<svMain, svHealth, svTimer>>
    /\ UNCHANGED <<svDeps, svReq, svLeft>>

\* Serve returns when its server is shut down; gs.Serve waits for the end of
\* the graceful stop.
StartReturns ==
    /\ \/ /\ svHttp.start = "serving" /\ svHttp.open # "open"
          /\ svHttp' = [svHttp EXCEPT !.start = "returned"]
          /\ UNCHANGED svGrpc
       \/ /\ svGrpc.start = "serving" /\ svGrpc.open = "closed"
          /\ svGrpc' = [svGrpc EXCEPT !.start = "returned"]
          /\ UNCHANGED svHttp
    /\ UNCHANGED <<svMain, svDeps, svHealth, svReq, svLeft, svTimer>>

\* A request reaches a server that accepts.
Arrive(r) ==
    LET srv == IF svReq[r].server = "http" THEN svHttp ELSE svGrpc
    IN  /\ svReq[r].state = "none"
        /\ srv.start = "serving" /\ srv.open = "open"
        /\ svReq' = [svReq EXCEPT ![r].state = "active"]
        /\ UNCHANGED <<svMain, svDeps, svHttp, svGrpc, svHealth, svLeft, svTimer>>

\* The handler returns, or panics and the recovery interceptor answers.
Answer(r) ==
    /\ svReq[r].state = "active"
    /\ svReq' = [svReq EXCEPT ![r].state = "done"]
    /\ UNCHANGED <<svMain, svDeps, svHttp, svGrpc, svHealth, svLeft, svTimer>>

-----------------------------------------------------------------------------
\* stopAll begins with the server registered last.
Signal ==
    /\ svMain = "run"
    /\ svMain' = "stopGrpc"
    /\ svHealth' = FALSE
    /\ svTimer' = GrpcTimeout
    /\ UNCHANGED <<svDeps, svHttp, svGrpc, svReq, svLeft>>

\* Stop of gRPC starts GracefulStop.
GrpcStop ==
    /\ svMain = "stopGrpc"
    /\ svGrpc.open = "open"
    /\ svGrpc' = [svGrpc EXCEPT !.open = "draining"]
    /\ UNCHANGED <<svMain, svDeps, svHttp, svHealth, svReq, svLeft, svTimer>>

\* Stop of HTTP: under the deadline of ctx, or its own without one.
HttpBudget == IF GroupTimeout > 0 THEN svLeft ELSE HttpTimeout

\* Stop of HTTP calls Shutdown.
HttpStop ==
    /\ svMain = "stopHttp"
    /\ svHttp.open = "open"
    /\ svHttp' = [svHttp EXCEPT !.open = "draining"]
    /\ UNCHANGED <<svMain, svDeps, svGrpc, svHealth, svReq, svLeft, svTimer>>

CutAll(s) == [r \in Req |-> IF r \in InFlight(s) THEN [svReq[r] EXCEPT !.state = "cut"]
                                                 ELSE svReq[r]]

GrpcStoppedOnlyDrained ==
    /\ svMain = "stopGrpc"
    /\ svGrpc.open = "draining"
    /\ InFlight("grpc") = {}
    /\ svGrpc' = [svGrpc EXCEPT !.open = "closed"]
    /\ svMain' = "stopHttp"
    /\ svTimer' = HttpBudget
    /\ UNCHANGED <<svDeps, svHttp, svHealth, svReq, svLeft>>

\* Stop of gRPC returns when the RPCs are drained, or cuts them when its own
\* timer fires: it never looks at ctx.
GrpcStopped ==
    /\ svMain = "stopGrpc"
    /\ svGrpc.open = "draining"
    /\ \/ InFlight("grpc") = {} /\ UNCHANGED svReq
       \/ svTimer = 0 /\ svReq' = CutAll("grpc")
    /\ svGrpc' = [svGrpc EXCEPT !.open = "closed"]
    /\ svMain' = "stopHttp"
    /\ svTimer' = HttpBudget
    /\ UNCHANGED <<svDeps, svHttp, svHealth, svLeft>>

HttpStoppedNoWait ==
    /\ svMain = "stopHttp"
    /\ svHttp.open = "draining"
    /\ svHttp' = [svHttp EXCEPT !.open = "closed"]
    /\ svMain' = "wait"
    /\ UNCHANGED <<svDeps, svGrpc, svHealth, svReq, svLeft, svTimer>>

\* Stop of HTTP returns when the requests are drained, or closes their
\* connections when the context has expired.
HttpStopped ==
    /\ svMain = "stopHttp"
    /\ svHttp.open = "draining"
    /\ \/ InFlight("http") = {} /\ UNCHANGED svReq
       \/ svTimer = 0 /\ svReq' = CutAll("http")
    /\ svHttp' = [svHttp EXCEPT !.open = "closed"]
    /\ svMain' = "wait"
    /\ UNCHANGED <<svDeps, svGrpc, svHealth, svLeft, svTimer>>

\* Time passes while a Stop waits, up to the moment its timer fires.
Tick ==
    /\ svMain \in {"stopGrpc", "stopHttp"}
    /\ svTimer > 0
    /\ svTimer' = svTimer - 1
    /\ svLeft' = IF svLeft > 0 THEN svLeft - 1 ELSE 0
    /\ UNCHANGED <<svMain, svDeps, svHttp, svGrpc, svHealth, svReq>>

\* waitForStop: the Start goroutines are back.
Wait ==
    /\ svMain = "wait"
    /\ svHttp.start = "returned" /\ svGrpc.start = "returned"
    /\ svMain' = "close"
    /\ UNCHANGED <<svDeps, svHttp, svGrpc, svHealth, svReq, svLeft, svTimer>>

\* closer.CloseSync: one cleanup after the other, the latest first.
CloseSync ==
    /\ svMain = "close"
    /\ IF svDeps = 0 THEN svMain' = "done" /\ UNCHANGED svDeps
                     ELSE svDeps' = svDeps - 1 /\ UNCHANGED svMain
    /\ UNCHANGED <<svHttp, svGrpc, svHealth, svReq, svLeft, svTimer>>

Next ==
    \/ InitDeps \/ HttpStart \/ GrpcStart \/ ListenFails \/ StartReturns
    \/ \E r \in Req : Arrive(r) \/ Answer(r)
    \/ Signal \/ GrpcStop \/ GrpcStopped \/ HttpStop \/ HttpStopped
    \/ Tick \/ Wait \/ CloseSync

Spec == Init /\ [][Next]_svVars

\* Time passes and the goroutines of the service run; no handler has to
\* return and no signal has to come.
Fairness ==
    /\ WF_svVars(InitDeps) /\ WF_svVars(HttpStart) /\ WF_svVars(GrpcStart)
    /\ WF_svVars(StartReturns) /\ WF_svVars(GrpcStop) /\ WF_svVars(GrpcStopped)
    /\ WF_svVars(HttpStop) /\ WF_svVars(HttpStopped) /\ WF_svVars(Tick)
    /\ WF_svVars(Wait) /\ WF_svVars(CloseSync)

FairSpec == Spec /\ Fairness

-----------------------------------------------------------------------------
\* Every variable keeps its type.
TypeOK ==
    /\ svMain \in {"init", "run", "stopGrpc", "stopHttp", "wait", "close", "done"}
    /\ svDeps \in 0..Deps
    /\ svHttp \in [start : Starts, open : Opens]
    /\ svGrpc \in [start : Starts, open : Opens]
    /\ svReq \in [Req -> [server : {"http", "grpc"}, state : {"none", "active", "done", "cut"}]]

\* A request is cut only when the time of its server's Stop ran out: the
\* handlers of a service that has time left are waited for.
CutOnlyLate ==
    \A r \in Req : svReq[r].state = "active" /\ svReq'[r].state = "cut" => svTimer = 0

\* A server whose Stop came before its Start never serves.
NoServeAfterStop ==
    /\ svHttp.open # "open" /\ svHttp'.start = "serving" => svHttp.start = "serving"
    /\ svGrpc.open # "open" /\ svGrpc'.start = "serving" => svGrpc.start = "serving"

\* No step of a stop takes a handler its time, and none lets a server in again.
StopIsGraceful == [][CutOnlyLate /\ NoServeAfterStop]_svVars

\* The dependencies outlive the requests: no cleanup runs under a handler
\* that was neither answered nor cut, whichever way the service goes down,
\* a Start that comes after its own Stop included.
DepsOutliveRequests ==
    svMain \in {"close", "done"} => \A r \in Req : svReq[r].state # "active"

\* A signal brings the service down, with handlers that never return.
ServiceEnds == (svMain = "stopGrpc") ~> (svMain = "done")
=============================================================================
