--------------------------------- MODULE Rpc ---------------------------------
(***************************************************************************)
(* RPCs through the interceptors of grpcserver.New, outermost first:       *)
(* metrics, recovery, logging, error map, then the application's own       *)
(* (WithProtoValidate) and the handler; streams pass the same chain        *)
(* without validation.  RPCs run concurrently and share the in-flight      *)
(* gauge.  A panic unwinds the layers that do not recover it.              *)
(***************************************************************************)
EXTENDS Naturals, FiniteSets

CONSTANTS Rpc,       \* the RPCs
          Method,    \* the registered methods
          Technical  \* those of the health and reflection services

ASSUME RpcAssumption == IsFiniteSet(Rpc)

VARIABLES rpServed,    \* methodSet: the methods with metrics and spans
          rpCalls,     \* per RPC: [at, stream, method, valid, out]
          rpInFlight,  \* the in-flight gauge
          rpHandled,   \* per RPC: the codes it was counted with
          rpLogged,    \* per RPC: the codes of its log lines
          rpStatus     \* per RPC: the code the client receives

rpVars == <<rpServed, rpCalls, rpInFlight, rpHandled, rpLogged, rpStatus>>

Codes == {"OK", "INVALID_ARGUMENT", "NOT_FOUND", "INTERNAL", "UNAVAILABLE"}

(* What a handler ends with: nothing wrong, an *errs.Error, a gRPC status, *)
(* any other error, a panic.                                               *)
Outcomes ==
  [kind: {"errs", "status"}, code: Codes \ {"OK"}]
    \cup [kind: {"ok"}, code: {"OK"}] \cup [kind: {"plain", "panic"}, code: {"INTERNAL"}]
Status(code) == [kind |-> IF code = "OK" THEN "ok" ELSE "status", code |-> code]
NoOutcome == [kind |-> "none", code |-> "OK"]

(* load: the registered methods without the technical services'. *)
load == Method \ Technical
has(method) == method \in rpServed

RpcInit ==
  /\ rpServed = {}
  /\ rpCalls = [c \in Rpc |-> [at |-> "idle", stream |-> FALSE, method |-> "none",
                               valid |-> TRUE, out |-> NoOutcome]]
  /\ rpInFlight = 0
  /\ rpHandled = [c \in Rpc |-> {}]
  /\ rpLogged = [c \in Rpc |-> {}]
  /\ rpStatus = [c \in Rpc |-> "none"]

-----------------------------------------------------------------------------
(* The built-in interceptors on the way out: s = [out, logged]. *)

toStatus(out) ==
  CASE out.kind \in {"ok", "status"} -> out
    [] out.kind = "errs"             -> Status(out.code)
    [] OTHER                         -> Status("INTERNAL")

ErrorMap(s) == IF s.out.kind = "panic" THEN s ELSE [s EXCEPT !.out = toStatus(@)]

codeOf(out) == IF out.kind \in {"ok", "status"} THEN out.code ELSE "UNKNOWN"

Logging(s) ==
  IF s.out.kind = "panic" THEN s ELSE [s EXCEPT !.logged = @ \cup {codeOf(s.out)}]

Recovery(s) ==
  IF s.out.kind = "panic" THEN [s EXCEPT !.out = Status("INTERNAL")] ELSE s

(* The chain with logging inside the error map. *)
Chain(s) == Recovery(Logging(ErrorMap(s)))

-----------------------------------------------------------------------------
(* Server.Serve collects the methods before it accepts. *)
Serve ==
  /\ rpServed = {}
  /\ rpServed' = load
  /\ UNCHANGED <<rpCalls, rpInFlight, rpHandled, rpLogged, rpStatus>>

(* An RPC enters through metricsUnary or metricsStream; gRPC itself turns  *)
(* away a method no service has.                                           *)
Enter(c) ==
  /\ rpServed # {}
  /\ rpCalls[c].at = "idle"
  /\ \E m \in Method, stream \in BOOLEAN, valid \in BOOLEAN :
       /\ rpCalls' = [rpCalls EXCEPT ![c] = [at |-> "app", stream |-> stream, method |-> m,
                                             valid |-> valid, out |-> NoOutcome]]
       /\ rpInFlight' = IF has(m) THEN rpInFlight + 1 ELSE rpInFlight
  /\ UNCHANGED <<rpServed, rpHandled, rpLogged, rpStatus>>

(* validateUnary: a message that breaks its constraints never reaches the  *)
(* handler; a stream is not validated.                                     *)
validateUnary(c) ==
  /\ rpCalls[c].at = "app"
  /\ ~rpCalls[c].stream
  /\ rpCalls' = [rpCalls EXCEPT
       ![c].at = IF rpCalls[c].valid THEN "handler" ELSE "chain",
       ![c].out = IF rpCalls[c].valid THEN @
                  ELSE [kind |-> "errs", code |-> "INVALID_ARGUMENT"]]
  /\ UNCHANGED <<rpServed, rpInFlight, rpHandled, rpLogged, rpStatus>>

RpcHandle(c) ==
  /\ rpCalls[c].at = "handler" \/ (rpCalls[c].at = "app" /\ rpCalls[c].stream)
  /\ \E out \in Outcomes :
       rpCalls' = [rpCalls EXCEPT ![c].at = "chain", ![c].out = out]
  /\ UNCHANGED <<rpServed, rpInFlight, rpHandled, rpLogged, rpStatus>>

Unwinds(c) ==
  LET s == Chain([out |-> rpCalls[c].out, logged |-> rpLogged[c]])
  IN /\ rpCalls[c].at = "chain"
     /\ rpCalls' = [rpCalls EXCEPT ![c].at = "metrics", ![c].out = s.out]
     /\ rpLogged' = [rpLogged EXCEPT ![c] = s.logged]
     /\ UNCHANGED <<rpServed, rpInFlight, rpHandled, rpStatus>>

UnaryReturns(c) == ~rpCalls[c].stream /\ Unwinds(c)
StreamReturns(c) == rpCalls[c].stream /\ Unwinds(c)

(* Recovery as the outermost interceptor: a panic unwinds the metrics too. *)
RecordInside(c) ==
  LET out == rpCalls[c].out
      panicked == out.kind = "status" /\ out.code = "INTERNAL" /\ rpLogged[c] = {}
      seen == has(rpCalls[c].method) /\ ~panicked
  IN /\ rpCalls[c].at = "metrics"
     /\ rpCalls' = [rpCalls EXCEPT ![c].at = "done"]
     /\ rpInFlight' = IF seen THEN rpInFlight - 1 ELSE rpInFlight
     /\ rpHandled' = IF seen THEN [rpHandled EXCEPT ![c] = @ \cup {out.code}] ELSE rpHandled
     /\ rpStatus' = [rpStatus EXCEPT ![c] = out.code]
     /\ UNCHANGED <<rpServed, rpLogged>>

(* metricsUnary and metricsStream after the handler: the gauge goes down   *)
(* and the RPC is counted.                                                 *)
Record(c) ==
  LET out == rpCalls[c].out
      seen == has(rpCalls[c].method)
  IN /\ rpCalls[c].at = "metrics"
     /\ rpCalls' = [rpCalls EXCEPT ![c].at = "done"]
     /\ rpInFlight' = IF seen THEN rpInFlight - 1 ELSE rpInFlight
     /\ rpHandled' = IF seen THEN [rpHandled EXCEPT ![c] = @ \cup {out.code}] ELSE rpHandled
     /\ rpStatus' = [rpStatus EXCEPT ![c] = out.code]
     /\ UNCHANGED <<rpServed, rpLogged>>

RpcNext ==
  \/ Serve
  \/ \E c \in Rpc :
       \/ Enter(c)
       \/ validateUnary(c)
       \/ RpcHandle(c)
       \/ UnaryReturns(c)
       \/ StreamReturns(c)
       \/ Record(c)

RpcSpec == RpcInit /\ [][RpcNext]_rpVars

-----------------------------------------------------------------------------
RpcTypeOK ==
  /\ rpServed \subseteq Method
  /\ \A c \in Rpc :
       /\ rpCalls[c].at \in {"idle", "app", "handler", "chain", "metrics", "done"}
       /\ rpCalls[c].out \in Outcomes \cup {NoOutcome}
       /\ rpStatus[c] \in Codes \cup {"none"}
  /\ rpInFlight \in 0 .. Cardinality(Rpc)

(* grpcserver/interceptors.go metricsUnary: the gauge counts the RPCs of   *)
(* served methods that are being handled, and a panicking handler does not *)
(* leak one although the decrement is not deferred.                        *)
GaugeIsInFlight ==
  rpInFlight = Cardinality({c \in Rpc : /\ rpCalls[c].at \notin {"idle", "done"}
                                        /\ rpCalls[c].method \in load})

(* grpcserver/grpcserver.go New, "Metrics and logging observe the status   *)
(* code errormap already mapped": what is counted and logged of an RPC is  *)
(* the code its client receives; only a panicked RPC has no log line, only *)
(* a technical method is not counted.                                      *)
RecordedIsReturned ==
  \A c \in Rpc :
    rpCalls[c].at = "done" =>
      /\ rpHandled[c] = IF rpCalls[c].method \in load THEN {rpStatus[c]} ELSE {}
      /\ rpLogged[c] \subseteq {rpStatus[c]}
      /\ rpLogged[c] = {} => rpStatus[c] = "INTERNAL"

\* What the metrics and the log say of RPCs, while they run and when they are over.
RpcSafety == RpcTypeOK /\ GaugeIsInFlight /\ RecordedIsReturned
=============================================================================
