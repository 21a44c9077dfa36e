------------------------------- MODULE MCApp --------------------------------
(* Requests, RPCs, events and their handlers, traces, log lines and pages.  *)
(* A behaviour runs one part on its own instance; the others rest in one of *)
(* their initial states.                                                    *)
EXTENDS Rpc, Wiring, Tracing, Paging

CONSTANT Parts   \* the parts to check

\* Tokens of a user, an admin, an admin of yesterday and one signed by another.
MCClaims ==
  LET token(sound, exp, form, roles) ==
        [alg |-> "HS256", sound |-> sound, exp |-> exp, form |-> form, roles |-> roles]
  IN [user |-> token(TRUE, "future", "list", {"user", ""}),
      admin |-> token(TRUE, "future", "string", {"user", "admin"}),
      stale |-> token(TRUE, "past", "list", {"admin"}),
      forged |-> token(FALSE, "future", "list", {"admin"})]

VARIABLES part,
          rqConf, rqReq, rqAt, rqCtx, rqResp, rqW, rqSeen, rqRan,   \* Request
          lgConf, lgStack, lgSteps, lgLine, lgSeen, lgOwn   \* Logger

Q == INSTANCE Request WITH
       Claims <- MCClaims, Methods <- {"HS256", "HS384"}
L == INSTANCE Logger WITH
       Attr <- {"a", "b"}, Group <- {"g", "h"}, MaxSteps <- 3

MCRows == {2, 4, 6, 8, 10}
MCLate == {1, 7}

requestVars ==
  <<rqConf, rqReq, rqAt, rqCtx, rqResp, rqW, rqSeen, rqRan>>
loggerVars ==
  <<lgConf, lgStack, lgSteps, lgLine, lgSeen, lgOwn>>

mcVars == <<part, requestVars, rpVars, wiringVars, tcVars, loggerVars, pgVars>>

AnyOf(set) == CHOOSE x \in set : TRUE

MCInit ==
  /\ part \in Parts
  /\ Q!Init
  /\ (part # "request") => rqConf = AnyOf(Q!Confs) /\ rqReq = AnyOf(Q!Reqs(rqConf))
  /\ RpcInit
  /\ WiringInit
  /\ TracingInit
  /\ (part # "tracing") => tcSampler = AnyOf([Process -> {"always_on"}]) /\ tcCaller.sampled /\ tcHits = {}
  /\ L!Init
  /\ (part # "logger") => lgConf.events = {} /\ lgConf.service
  /\ PagingInit

\* Only part p moves.
Turn(p) ==
  /\ part = p /\ UNCHANGED part
  /\ IF p = "request" THEN TRUE ELSE UNCHANGED requestVars
  /\ IF p = "rpc" THEN TRUE ELSE UNCHANGED rpVars
  /\ IF p = "wiring" THEN TRUE ELSE UNCHANGED wiringVars
  /\ IF p = "tracing" THEN TRUE ELSE UNCHANGED tcVars
  /\ IF p = "logger" THEN TRUE ELSE UNCHANGED loggerVars
  /\ IF p = "paging" THEN TRUE ELSE UNCHANGED pgVars

MCNext ==
  \/ Turn("request") /\ Q!Next
  \/ Turn("rpc") /\ RpcNext
  \/ Turn("wiring") /\ WiringNext
  \/ Turn("tracing") /\ TracingNext
  \/ Turn("logger") /\ L!Next
  \/ Turn("paging") /\ PagingNext

MCSpec == MCInit /\ [][MCNext]_mcVars

-----------------------------------------------------------------------------
\* Request: a request that failed is never reported as a success, unless its context
\* ended, the handler had begun the response or the connection was upgraded; the
\* access line carries the status that was sent; the detail of a masked fault
\* reaches the log and never the client; only a result is marked cacheable; the
\* headers say gzip exactly when the bytes are; and the handler runs only for a
\* caller the guard admits.
RequestSafety == (part = "request") => Q!RequestSafety

\* Logger: attributes are nested as slog promises with the trace fields at the top
\* level, and the hook of a level gets the record as the sink writes it.
LoggerSafety == (part = "logger") => L!LoggerSafety

\* Request, as the comment in Respond says: a response is left unwritten only when
\* the client is gone.
SilentMeansGone == [][Q!SilentMeansGone]_mcVars
=============================================================================
