------------------------------- MODULE Request -------------------------------
(***************************************************************************)
(* One HTTP request through the server stack: the transport middleware     *)
(* (middleware.Panics at the root, then httplog.RequestLogger, the HTTP    *)
(* metrics, Compress, CORS, Timeout), the boundary rest.Respond, the       *)
(* application middleware of mid.Chain (outcome counter, LocalizeErrors,   *)
(* MaskInternal, Errors, Panics) and, at the route, auth.Guard,            *)
(* CacheControl and ETag around the handler.  A route is typed (a          *)
(* rest.HandlerFunc behind the boundary) or raw (an http.Handler guarded   *)
(* by the transport form of package auth).                                 *)
(*                                                                         *)
(* A response is a set of body parts; headers are the ones the middleware  *)
(* reads or sets.  The deadline of Timeout and the client going away may   *)
(* happen between any two steps.                                           *)
(***************************************************************************)
EXTENDS Naturals

CONSTANTS Claims,   \* Claims[t]: what the bearer token t carries and claims,
                    \*   [alg, sound, exp, form, roles]
          Methods   \* the signing algorithms the verifier accepts

VARIABLES rqConf,   \* [typed, recover, mask, cached, guard]: the route's stack
          rqReq,    \* [origin, preflight, gzip, match, token, upgrade]
          rqAt,     \* the layer that acts next
          rqCtx,    \* the request context: "live", "deadline", "canceled"
          rqResp,   \* what the handler or a middleware returned or panicked
          rqW,      \* the response writer
          rqSeen,   \* what the logs and metrics recorded
          rqRan     \* the handler's own result; NotRun before it returns

rqVars == <<rqConf, rqReq, rqAt, rqCtx, rqResp, rqW, rqSeen, rqRan>>

-----------------------------------------------------------------------------
(* Responses and errors. *)

Codes == {"invalid_argument", "unauthenticated", "permission_denied",
          "not_found", "unavailable", "internal"}

HTTPStatus(code) ==
  CASE code = "invalid_argument"  -> 400
    [] code = "unauthenticated"   -> 401
    [] code = "permission_denied" -> 403
    [] code = "not_found"         -> 404
    [] code = "unavailable"       -> 503
    [] OTHER                      -> 500

Resp(kind, code, body, id) ==
  [kind |-> kind, code |-> code, body |-> body, id |-> id,
   status |-> IF kind = "error" THEN HTTPStatus(code) ELSE 200]

Newf(code, body, id) == Resp("error", code, body, id)

NotRun     == Resp("none", "ok", "none", FALSE)
Value      == Resp("value", "ok", "value", FALSE)
Broken     == Resp("broken", "ok", "cause", FALSE)   \* Encode fails
Nil        == Resp("nil", "ok", "none", FALSE)
NoResponse == Resp("noresponse", "ok", "none", FALSE)
Panic      == Resp("panic", "ok", "none", FALSE)
Abort      == Resp("abort", "ok", "none", FALSE)     \* http.ErrAbortHandler
Results    == {Value, Broken, Nil, NoResponse,
               Newf("not_found", "why", TRUE), Newf("unavailable", "cause", FALSE)}

Panicked(r) == r.kind \in {"panic", "abort"}
ServerFault(r) == r.kind = "error" /\ r.status >= 500

-----------------------------------------------------------------------------
(* The response writer: net/http below, httpw.Writer recording the status, *)
(* and gzipResponseWriter on top for what Compress wraps.                   *)

NewWriter(gzip) ==
  [hdr |-> {}, vary |-> {}, sent |-> {}, sentVary |-> {}, status |-> 0,
   body |-> {}, gz |-> IF gzip THEN "undecided" ELSE "off", taken |-> FALSE]

bodyAllowed(code) == code >= 200 /\ code \notin {204, 304}

RecordHeader(w, code) ==
  IF w.taken \/ w.status # 0 \/ code < 200 THEN w
  ELSE [w EXCEPT !.status = code, !.sent = w.hdr, !.sentVary = w.vary]

GzipHeader(w, code) ==
  CASE w.gz # "undecided" -> w
    [] bodyAllowed(code) /\ "encoded" \notin w.hdr ->
         [w EXCEPT !.gz = "on", !.hdr = @ \cup {"gzip"},
                   !.vary = @ \cup {"Accept-Encoding"}]
    [] OTHER -> [w EXCEPT !.gz = "pass"]

WriteHeader(w, code) == RecordHeader(GzipHeader(w, code), code)

Write(w, part) ==
  LET v == IF w.status = 0 THEN WriteHeader(w, 200) ELSE w
  IN IF v.taken \/ ~bodyAllowed(v.status) THEN v
     ELSE [v EXCEPT !.body = @ \cup {[part |-> part, gzip |-> v.gz = "on"]}]

-----------------------------------------------------------------------------
(* Package auth.  A guard is "public", "any" (authentication only), "late" *)
(* (Optional, then RequireAuthenticated) or "admin" (the role it asks for). *)

Tokens == DOMAIN Claims

(* The roles claim is a list, whose empty strings are dropped, or one      *)
(* space-separated string; anything else gives no role.                    *)
coerceRoles(c) ==
  CASE c.form = "list"   -> c.roles \ {""}
    [] c.form = "string" -> c.roles
    [] OTHER             -> {}

(* JWTVerifier.Verify under the options of NewJWTVerifier: an accepted     *)
(* algorithm, a sound signature, and an expiry that is there and not past. *)
Verify(t) ==
  t # "none" /\ Claims[t].alg \in Methods /\ Claims[t].sound /\ Claims[t].exp = "future"

Roles(guard) == IF guard = "admin" THEN {"admin"} ELSE {}

HasAnyRole(t, roles) == roles = {} \/ roles \cap coerceRoles(Claims[t]) # {}

AuthenticateRefuses(t) ==
  IF Verify(t) THEN {} ELSE {Newf("unauthenticated", "token", TRUE)}

(* Optional stores a principal when the token verifies and refuses nobody; *)
(* RequireAuthenticated refuses who has none.                              *)
OptionalRefuses(t) ==
  LET principal == Verify(t)
  IN IF principal THEN {} ELSE {Newf("unauthenticated", "required", TRUE)}

RequireRoleRefuses(t, roles) ==
  IF roles = {} \/ ~HasAnyRole(t, roles)
  THEN {Newf("permission_denied", "role", TRUE)} ELSE {}

GuardRefuses(guard, t) ==
  IF guard = "public" THEN {}
  ELSE IF guard = "late" THEN OptionalRefuses(t)
  ELSE IF AuthenticateRefuses(t) # {} THEN AuthenticateRefuses(t)
  ELSE IF guard = "any" THEN {}
  ELSE RequireRoleRefuses(t, Roles(guard))

-----------------------------------------------------------------------------
(* Application middleware, as what each does to s = [resp, w, seen] on the *)
(* way out.                                                                *)

passThrough(r) == r.kind \in {"nil", "noresponse", "error"}

(* ETag encodes the body; a response that does not encode is left to       *)
(* Respond.                                                                *)
ETag(s) ==
  IF passThrough(s.resp) \/ s.resp.kind = "broken" THEN s
  ELSE [s EXCEPT !.w.hdr = @ \cup {"ETag"},
                 !.resp = IF rqReq.match
                          THEN [s.resp EXCEPT !.status = 304, !.body = "none"]
                          ELSE s.resp]

CacheControl(s) ==
  IF passThrough(s.resp) THEN s
  ELSE [s EXCEPT !.w.hdr = @ \cup {"Cache-Control"}, !.w.vary = {"Accept-Language"}]

MidPanics(s) ==
  IF Panicked(s.resp)
  THEN [s EXCEPT !.resp = Newf("internal", "generic", TRUE),
                 !.seen.logged = @ \cup {"panic"}]
  ELSE s

Errors(s) ==
  IF ServerFault(s.resp)
  THEN [s EXCEPT !.seen.logged = @ \cup {s.resp.body}]
  ELSE s

MaskInternal(s) ==
  IF ServerFault(s.resp) /\ rqConf.mask
  THEN [s EXCEPT !.resp = Newf(s.resp.code, "generic", FALSE)]
  ELSE s

LocalizeErrors(s) ==
  IF s.resp.kind = "error" /\ s.resp.id
  THEN [s EXCEPT !.resp.body = "localized"]
  ELSE s

Metrics(s) ==
  [s EXCEPT !.seen.outcome = IF s.resp.kind = "error" THEN s.resp.code ELSE "ok"]

(* The chain with Errors outside MaskInternal. *)
ChainMaskFirst(s) == Metrics(LocalizeErrors(Errors(MaskInternal(MidPanics(s)))))

Chain(s) == Metrics(LocalizeErrors(MaskInternal(Errors(MidPanics(s)))))

(* The per-route middleware around the handler; a panic passes them by. *)
RouteMids(s) ==
  IF Panicked(s.resp) \/ ~rqConf.cached THEN s ELSE CacheControl(ETag(s))

-----------------------------------------------------------------------------
Confs ==
  {c \in [typed: BOOLEAN, recover: BOOLEAN, mask: BOOLEAN, cached: BOOLEAN,
          guard: {"public", "any", "late", "admin"}] :
     c.typed \/ ~(c.mask \/ c.cached)}

Reqs(c) ==
  {r \in [origin: {"none", "good", "bad"}, preflight: BOOLEAN, gzip: BOOLEAN,
          match: BOOLEAN, token: Tokens \cup {"none"}, upgrade: BOOLEAN] :
     /\ r.match => c.cached
     /\ r.upgrade => ~c.typed
     /\ (r.preflight \/ c.guard = "public") => r.token = "none"}

Init ==
  /\ rqConf \in Confs
  /\ rqReq \in Reqs(rqConf)
  /\ rqAt = "cors"
  /\ rqCtx = "live"
  /\ rqResp = NotRun
  /\ rqW = NewWriter(rqReq.gzip)
  /\ rqSeen = [access |-> 0, metric |-> 0, outcome |-> "none", logged |-> {}]
  /\ rqRan = NotRun

Goes(to) == rqAt' = to

(* middleware.CORS: the headers of an allowed origin, and the answer to a  *)
(* preflight.                                                              *)
Cors ==
  LET allowed == rqReq.origin = "good"
      w == IF allowed
           THEN [rqW EXCEPT !.hdr = @ \cup {"Allow-Origin"}, !.vary = @ \cup {"Origin"}]
           ELSE rqW
  IN /\ rqAt = "cors"
     /\ rqW' = IF rqReq.preflight THEN WriteHeader(w, 204) ELSE w
     /\ Goes(IF rqReq.preflight THEN "metrics" ELSE "guard")
     /\ UNCHANGED <<rqConf, rqReq, rqCtx, rqResp, rqSeen, rqRan>>

Admitted ==
  /\ GuardRefuses(rqConf.guard, rqReq.token) = {}
  /\ Goes("handler")
  /\ UNCHANGED <<rqResp, rqW>>

(* auth.Guard on a typed route: the refusal is a response of the chain. *)
GuardApp ==
  /\ rqAt = "guard"
  /\ rqConf.typed
  /\ \/ Admitted
     \/ /\ rqResp' \in GuardRefuses(rqConf.guard, rqReq.token)
        /\ Goes("mids")
        /\ UNCHANGED rqW
  /\ UNCHANGED <<rqConf, rqReq, rqCtx, rqSeen, rqRan>>

(* The transport form on a raw route writes the refusal (auth.writeErr). *)
GuardTransport ==
  /\ rqAt = "guard"
  /\ ~rqConf.typed
  /\ \/ Admitted
     \/ \E e \in GuardRefuses(rqConf.guard, rqReq.token) :
          /\ rqW' = Write(WriteHeader(rqW, e.status), e.body)
          /\ Goes("metrics")
          /\ UNCHANGED rqResp
  /\ UNCHANGED <<rqConf, rqReq, rqCtx, rqSeen, rqRan>>

(* The handler writes a part of the response itself, perhaps in an         *)
(* encoding of its own.                                                    *)
HandlerWrites ==
  /\ rqAt = "handler"
  /\ rqW.status = 0
  /\ ~rqW.taken
  /\ \E encoded \in BOOLEAN :
       rqW' = Write([rqW EXCEPT !.hdr = @ \cup (IF encoded THEN {"encoded"} ELSE {})],
                    "raw")
  /\ UNCHANGED <<rqConf, rqReq, rqAt, rqCtx, rqResp, rqSeen, rqRan>>

(* The handler sends an interim 103. *)
HandlerHints ==
  /\ rqAt = "handler"
  /\ ~rqW.taken
  /\ rqW' = WriteHeader(rqW, 103)
  /\ UNCHANGED <<rqConf, rqReq, rqAt, rqCtx, rqResp, rqSeen, rqRan>>

(* The handler of an upgrade request takes the connection over: no writer  *)
(* sees it.                                                                *)
HandlerHijacks ==
  /\ rqAt = "handler"
  /\ rqReq.upgrade
  /\ rqW.status = 0
  /\ rqW' = [rqW EXCEPT !.taken = TRUE]
  /\ UNCHANGED <<rqConf, rqReq, rqAt, rqCtx, rqResp, rqSeen, rqRan>>

(* The handler returns a response or panics; a raw handler returns nothing. *)
HandlerReturns ==
  /\ rqAt = "handler"
  /\ \E r \in {Panic, Abort} \cup (IF rqConf.typed THEN Results ELSE {NoResponse}) :
       /\ rqResp' = r
       /\ rqRan' = r
  /\ Goes(IF rqConf.typed THEN "mids" ELSE "metrics")
  /\ UNCHANGED <<rqConf, rqReq, rqCtx, rqW, rqSeen>>

(* The application middleware, from the route's out to the chain's. *)
Mids ==
  LET s == Chain(RouteMids([resp |-> rqResp, w |-> rqW, seen |-> rqSeen]))
  IN /\ rqAt = "mids"
     /\ rqResp' = s.resp
     /\ rqW' = s.w
     /\ rqSeen' = s.seen
     /\ Goes("respond")
     /\ UNCHANGED <<rqConf, rqReq, rqCtx, rqRan>>

Responded ==
  CASE rqCtx # "live" -> rqW
    [] rqResp.kind = "noresponse" -> rqW
    [] rqResp.kind = "nil" -> WriteHeader(rqW, 204)
    [] rqResp.kind = "broken" -> Write(WriteHeader(rqW, HTTPStatus("internal")), "cause")
    [] OTHER -> Write(WriteHeader(rqW, rqResp.status), rqResp.body)

(* rest.Respond. *)
Respond ==
  /\ rqAt = "respond"
  /\ rqW' = Responded
  /\ rqResp' = NoResponse
  /\ Goes("metrics")
  /\ UNCHANGED <<rqConf, rqReq, rqCtx, rqSeen, rqRan>>

Or200(code) == IF code = 0 THEN 200 ELSE code

(* metrics.Middleware: what the request is counted as, also on a panic. *)
MetricsRecords ==
  /\ rqAt = "metrics"
  /\ rqSeen' = [rqSeen EXCEPT !.metric =
                  IF Panicked(rqResp) THEN 500 ELSE Or200(rqW.status)]
  /\ Goes("logger")
  /\ UNCHANGED <<rqConf, rqReq, rqCtx, rqResp, rqW, rqRan>>

LoggerW ==
  IF Panicked(rqResp) /\ rqConf.recover /\ rqW.status = 0 /\ ~rqReq.upgrade
  THEN RecordHeader(rqW, 500) ELSE rqW

(* httplog.RequestLogger: a 500 for a panic, the access line, and the      *)
(* panic again when it is an abort or recovery is off.                     *)
LoggerLogs ==
  /\ rqAt = "logger"
  /\ rqW' = LoggerW
  /\ rqSeen' = [rqSeen EXCEPT !.access = Or200(LoggerW.status)]
  /\ rqResp' = IF rqResp.kind = "abort" \/ ~rqConf.recover THEN rqResp ELSE NoResponse
  /\ Goes("root")
  /\ UNCHANGED <<rqConf, rqReq, rqCtx, rqRan>>

(* middleware.Panics, the outermost layer. *)
RootRecovers ==
  /\ rqAt = "root"
  /\ rqW' = IF rqResp.kind = "panic" THEN RecordHeader(rqW, 500) ELSE rqW
  /\ rqResp' = IF rqResp.kind = "panic" THEN NoResponse ELSE rqResp
  /\ Goes("net")
  /\ UNCHANGED <<rqConf, rqReq, rqCtx, rqSeen, rqRan>>

(* net/http finishes the response: an abort closes the connection, and a   *)
(* handler that wrote no header gets an implicit 200.                      *)
NetFinishes ==
  /\ rqAt = "net"
  /\ rqW' = IF rqResp.kind = "abort" THEN rqW ELSE RecordHeader(rqW, 200)
  /\ Goes(IF rqResp.kind = "abort" THEN "aborted" ELSE "sent")
  /\ UNCHANGED <<rqConf, rqReq, rqCtx, rqResp, rqSeen, rqRan>>

Over == rqAt \in {"sent", "aborted"}

(* The deadline of middleware.Timeout passes. *)
Deadline ==
  /\ ~Over
  /\ rqCtx = "live"
  /\ rqCtx' = "deadline"
  /\ UNCHANGED <<rqConf, rqReq, rqAt, rqResp, rqW, rqSeen, rqRan>>

(* The client goes away. *)
ClientLeaves ==
  /\ ~Over
  /\ rqCtx = "live"
  /\ rqCtx' = "canceled"
  /\ UNCHANGED <<rqConf, rqReq, rqAt, rqResp, rqW, rqSeen, rqRan>>

Next ==
  \/ Cors
  \/ GuardApp
  \/ GuardTransport
  \/ HandlerWrites
  \/ HandlerHints
  \/ HandlerHijacks
  \/ HandlerReturns
  \/ Mids
  \/ Respond
  \/ MetricsRecords
  \/ LoggerLogs
  \/ RootRecovers
  \/ NetFinishes
  \/ Deadline
  \/ ClientLeaves

Spec == Init /\ [][Next]_rqVars

-----------------------------------------------------------------------------
Headers == {"Allow-Origin", "ETag", "Cache-Control", "gzip", "encoded"}
Statuses == {0, 200, 204, 304, 400, 401, 403, 404, 500, 503}
Pieces == {"value", "why", "cause", "none", "generic", "localized", "token", "required", "role", "raw"}

TypeOK ==
  /\ rqConf \in Confs
  /\ rqReq \in Reqs(rqConf)
  /\ rqAt \in {"cors", "guard", "handler", "mids", "respond", "metrics", "logger",
               "root", "net", "sent", "aborted"}
  /\ rqCtx \in {"live", "deadline", "canceled"}
  /\ rqW.hdr \subseteq Headers /\ rqW.sent \subseteq rqW.hdr
  /\ rqW.status \in Statuses
  /\ rqW.gz \in {"off", "undecided", "on", "pass"}
  /\ rqW.body \subseteq [part: Pieces, gzip: BOOLEAN]
  /\ rqSeen.access \in Statuses /\ rqSeen.metric \in Statuses

Sent == rqAt = "sent" /\ ~rqW.taken

(* Whether the request failed on the server's or the caller's account. *)
Failed ==
  \/ rqRan.kind \in {"panic", "abort", "error", "broken"}
  \/ GuardRefuses(rqConf.guard, rqReq.token) # {} /\ ~rqReq.preflight
SelfWritten == \E p \in rqW.body : p.part = "raw"

(* rest/rest.go Respond, mid.Panics, httplog and middleware.Panics         *)
(* together: a request that failed (a refusal, an error, an encoding       *)
(* failure, a panic at any layer) is never reported as a success, unless   *)
(* its context ended first, the handler had begun the response itself, or  *)
(* the request was a protocol upgrade.                                     *)
FailureShows ==
  Sent /\ Failed /\ rqCtx = "live" /\ ~SelfWritten /\ ~rqReq.upgrade
    => rqW.status >= 400

(* httplog/middleware.go RequestLogger with RecoverPanics: the access line *)
(* carries the status the client was sent, whatever layer wrote it.        *)
LogIsWire == Sent /\ rqConf.recover => rqSeen.access = rqW.status

(* rest/mid/chain.go Chain: with masking on, the detail of a server fault  *)
(* that a handler returned never reaches the client and always reaches the *)
(* log.                                                                    *)
MaskedButLogged ==
  Sent /\ rqConf.typed /\ rqConf.mask /\ ServerFault(rqRan)
    => /\ \A p \in rqW.body : p.part # rqRan.body
       /\ rqRan.body \in rqSeen.logged

(* rest/mid/cache.go CacheControl: an error, an empty response, a panic, a *)
(* refusal and what the handler wrote itself are never marked cacheable.   *)
OnlyResultsCached ==
  Sent /\ rqW.sent \cap {"Cache-Control", "ETag"} # {}
    => rqRan.kind \in {"value", "broken"}

(* middleware/compress.go: the header says gzip exactly when the bytes     *)
(* are, an encoding of the handler's own is kept, a bodyless response is   *)
(* never encoded, and caches are told to tell the encodings apart, also    *)
(* after CacheControl has replaced Vary.                                   *)
GzipIsTold ==
  Sent => /\ \A p \in rqW.body : p.gzip <=> "gzip" \in rqW.sent
          /\ "gzip" \in rqW.sent => /\ "encoded" \notin rqW.sent
                                    /\ "Accept-Encoding" \in rqW.sentVary
          /\ rqW.status \in {204, 304} => "gzip" \notin rqW.sent

(* auth/restmid.go Guard and auth/middleware.go: the handler runs only for *)
(* a caller the guard admits, and both forms refuse the others alike: 401  *)
(* without a valid token, 403 with one that lacks the role.                *)
GuardDecides ==
  Sent /\ ~rqReq.preflight /\ rqCtx = "live" /\ rqConf.guard # "public" =>
    LET known == \E c \in {Claims[t] : t \in {rqReq.token} \cap Tokens} :
                   c.alg \in Methods /\ c.sound /\ c.exp = "future"
        admitted == known /\ (rqConf.guard = "admin" => "admin" \in Claims[rqReq.token].roles)
    IN IF admitted THEN rqRan # NotRun
       ELSE rqRan = NotRun /\ rqW.status = IF known THEN 403 ELSE 401

(* rest/rest.go Respond, "Client gone; nothing useful to write": a         *)
(* response is left unwritten only when the client is gone.                *)
SilentMeansGone ==
  Respond /\ rqResp.kind # "noresponse" /\ rqW' = rqW /\ rqW.status = 0
    => rqCtx = "canceled"

\* What a client and the operators may read off a response, whatever failed and
\* wherever: the status, the log line, the detail, the headers and who was let in.
RequestSafety ==
  /\ TypeOK
  /\ FailureShows /\ LogIsWire /\ MaskedButLogged
  /\ OnlyResultsCached /\ GzipIsTold /\ GuardDecides
=============================================================================
