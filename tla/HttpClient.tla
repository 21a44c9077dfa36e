----------------------------- MODULE HttpClient -----------------------------
(***************************************************************************)
(* Calls of an httpclient against a service: httpclient.New composes       *)
(* IdempotencyKey, Retry, the decorations, the attempt's span and metrics  *)
(* over the OAuth2 transport; RetryTransport.RoundTrip sends the attempts  *)
(* and waits between them; DoJSON reads the answer.  The calls share the   *)
(* client's cached token.  The service is external: it applies a request   *)
(* once per idempotency key, may answer a retryable status before or after *)
(* applying it, and its answer may be lost.  Time is counted in ticks; the *)
(* client's Timeout covers a call with all its attempts and waits.         *)
(***************************************************************************)
EXTENDS Integers, Sequences

CONSTANTS Call,         \* the calls
          MaxAttempts,  \* Backoff.MaxAttempts
          MaxDelay,     \* Backoff.Max, in ticks; clamps Retry-After
          Timeout,      \* Config.Timeout, in ticks
          TokenLife     \* ticks a fetched token is valid

\* A client with a ceiling on its delays and at least one attempt.
ASSUME ClientAssumption ==
  MaxAttempts \in Nat \ {0} /\ MaxDelay \in Nat \ {0} /\ Timeout \in Nat /\ TokenLife \in Nat

VARIABLES hcCall,     \* per call: [at, body, attempt, left, wait, since, resp, result]
          hcSent,     \* per call: the attempts the service received
          hcApplied,  \* the effects of the service: one key per effect
          hcToken,    \* ticks the cached token is still valid; 0: none
          hcCounted   \* per call: what skit_http_client requests_total counted

hcVars == <<hcCall, hcSent, hcApplied, hcToken, hcCounted>>

Statuses == {200, 429, 500, 503}
retryable == {429, 503}
NoAnswer == [status |-> 0, after |-> "none"]
RetryAfters == {"none", "0", "1", "9", "past", "junk"}

Bodies == {"none", "replay", "stream"}   \* no body, GetBody set, a bare reader

ClientInit ==
  /\ \E body \in [Call -> Bodies] :
       hcCall = [c \in Call |-> [at |-> "idle", body |-> body[c], attempt |-> 0,
                                 left |-> Timeout, wait |-> 0, since |-> 0,
                                 resp |-> NoAnswer, result |-> "none"]]
  /\ hcSent = [c \in Call |-> <<>>]
  /\ hcApplied = <<>>
  /\ hcToken = 0
  /\ hcCounted = [c \in Call |-> <<>>]

(* The wait before the next attempt. *)
Backoff(attempt) == IF attempt >= MaxDelay THEN MaxDelay ELSE attempt

ClampedTo(d) == IF d > MaxDelay THEN MaxDelay ELSE d

(* retryAfter: the seconds of the header, none of them for one that does   *)
(* not parse; a date in the past is a wait of zero.                        *)
retryAfter(v) ==
  CASE v \in {"0", "past"} -> {0}
    [] v = "1" -> {1}
    [] v = "9" -> {9}
    [] OTHER -> {}

delayIgnored(attempt, resp) == Backoff(attempt)

delay(attempt, resp) ==
  IF retryAfter(resp.after) # {}
  THEN ClampedTo(CHOOSE d \in retryAfter(resp.after) : TRUE)
  ELSE Backoff(attempt)

(* The key an attempt carries: IdempotencyKey is outside Retry, so it is   *)
(* the call's; below Retry it would be the attempt's own.                  *)
KeyPerAttempt(c, attempt) == <<c, attempt>>

KeyOf(c, attempt) == <<c, 1>>

(* What the attempt's body reader yields: the whole body on every attempt. *)
BodyOf(kind, attempt) == IF kind = "none" THEN "none" ELSE "whole"

ResendCount(attempt) == attempt - 1

EndCall(c, result) == hcCall' = [hcCall EXCEPT ![c].at = "done", ![c].result = result]

(* The call enters the transport.  A bare reader is buffered first, which  *)
(* may fail before anything is sent.                                       *)
Begin(c) ==
  /\ hcCall[c].at = "idle"
  /\ \/ hcCall' = [hcCall EXCEPT ![c].at = "send", ![c].attempt = 1]
     \/ hcCall[c].body = "stream" /\ EndCall(c, "error")
  /\ UNCHANGED <<hcSent, hcApplied, hcToken, hcCounted>>

(* OAuth2Transport needs a token: the fetch succeeds, or fails the attempt. *)
FetchToken(c) ==
  /\ hcCall[c].at = "send"
  /\ hcToken = 0
  /\ \/ hcToken' = TokenLife /\ UNCHANGED <<hcCall, hcCounted>>
     \/ /\ EndCall(c, "error")
        /\ hcCounted' = [hcCounted EXCEPT ![c] = Append(@, "_OTHER")]
        /\ UNCHANGED hcToken
  /\ UNCHANGED <<hcSent, hcApplied>>

(* One attempt goes out with the cached token. *)
SendAttempt(c) ==
  LET n == hcCall[c].attempt
  IN /\ hcCall[c].at = "send"
     /\ hcToken > 0
     /\ hcCall' = [hcCall EXCEPT ![c].at = "wire"]
     /\ hcSent' = [hcSent EXCEPT ![c] =
          Append(@, [key |-> KeyOf(c, n), body |-> BodyOf(hcCall[c].body, n),
                     resend |-> ResendCount(n), waited |-> hcCall[c].since])]
     /\ UNCHANGED <<hcApplied, hcToken, hcCounted>>

LastSent(c) == hcSent[c][Len(hcSent[c])]
IsApplied(key) == \E i \in DOMAIN hcApplied : hcApplied[i] = key

(* The service (external) applies the request unless it has seen its key,  *)
(* or answers a failure with or without having applied it.  A success      *)
(* means the effect is there.                                              *)
Serve(c) ==
  /\ hcCall[c].at = "wire"
  /\ \E status \in Statuses, after \in RetryAfters, applies \in BOOLEAN :
       /\ after # "none" => status \in retryable
       /\ status = 200 => applies
       /\ hcApplied' = IF applies /\ ~IsApplied(LastSent(c).key)
                       THEN Append(hcApplied, LastSent(c).key) ELSE hcApplied
       /\ hcCall' = [hcCall EXCEPT ![c].at = "answer",
                                   ![c].resp = [status |-> status, after |-> after]]
  /\ UNCHANGED <<hcSent, hcToken, hcCounted>>

(* The connection breaks, before or after the service applied the request: *)
(* a transport error is not retried.                                       *)
Breaks(c) ==
  /\ hcCall[c].at = "wire"
  /\ \E applies \in BOOLEAN :
       hcApplied' = IF applies /\ ~IsApplied(LastSent(c).key)
                    THEN Append(hcApplied, LastSent(c).key) ELSE hcApplied
  /\ EndCall(c, "error")
  /\ hcCounted' = [hcCounted EXCEPT ![c] = Append(@, "_OTHER")]
  /\ UNCHANGED <<hcSent, hcToken>>

(* DoJSON: nil for a 2xx, a StatusError for the rest. *)
DoJSON(status) == IF status >= 200 /\ status < 300 THEN "ok" ELSE "status"

Retries(c) ==
  hcCall[c].resp.status \in retryable /\ hcCall[c].attempt < MaxAttempts

(* The answer of an attempt is counted; it is retried after a delay or is  *)
(* the call's answer.                                                      *)
Receive(c) ==
  LET resp == hcCall[c].resp
  IN /\ hcCall[c].at = "answer"
     /\ hcCounted' = [hcCounted EXCEPT ![c] = Append(@, "status")]
     /\ IF Retries(c)
        THEN hcCall' = [hcCall EXCEPT ![c].at = "wait", ![c].since = 0,
                                      ![c].wait = delay(hcCall[c].attempt, resp)]
        ELSE EndCall(c, DoJSON(resp.status))
     /\ UNCHANGED <<hcSent, hcApplied, hcToken>>

Wake(c) ==
  /\ hcCall[c].at = "wait"
  /\ hcCall[c].wait = 0
  /\ hcCall' = [hcCall EXCEPT ![c].at = "send", ![c].attempt = @ + 1]
  /\ UNCHANGED <<hcSent, hcApplied, hcToken, hcCounted>>

(* The client's Timeout ends the call, in a wait or in an attempt. *)
TimeOut(c) ==
  /\ hcCall[c].at \in {"send", "wire", "wait"}
  /\ hcCall[c].left = 0
  /\ EndCall(c, "timeout")
  /\ hcCounted' = IF hcCall[c].at = "wait" THEN hcCounted
                  ELSE [hcCounted EXCEPT ![c] = Append(@, "timeout")]
  /\ UNCHANGED <<hcSent, hcApplied, hcToken>>

Active(c) == hcCall[c].at \notin {"idle", "done"}
Less(n) == IF n = 0 THEN 0 ELSE n - 1

ClientTick ==
  /\ \E c \in Call : Active(c)
  /\ \A c \in Call : Active(c) => hcCall[c].left > 0
  /\ hcCall' = [c \in Call |->
       IF Active(c)
       THEN [hcCall[c] EXCEPT !.left = @ - 1, !.wait = Less(@),
                              !.since = IF hcCall[c].at = "wait" THEN @ + 1 ELSE @]
       ELSE hcCall[c]]
  /\ hcToken' = Less(hcToken)
  /\ UNCHANGED <<hcSent, hcApplied, hcCounted>>

ClientNext ==
  \/ \E c \in Call :
       \/ Begin(c)
       \/ FetchToken(c)
       \/ SendAttempt(c)
       \/ Serve(c)
       \/ Breaks(c)
       \/ Receive(c)
       \/ Wake(c)
       \/ TimeOut(c)
  \/ ClientTick

ClientSpec == ClientInit /\ [][ClientNext]_hcVars

(* The client's steps and time go on; the service need not answer. *)
ClientFairSpec ==
  /\ ClientSpec
  /\ WF_hcVars(ClientTick)
  /\ \A c \in Call : WF_hcVars(Begin(c) \/ FetchToken(c) \/ SendAttempt(c) \/ Receive(c)
                               \/ Wake(c) \/ TimeOut(c))

-----------------------------------------------------------------------------
ClientTypeOK ==
  /\ \A c \in Call :
       /\ hcCall[c].at \in {"idle", "send", "wire", "answer", "wait", "done"}
       /\ hcCall[c].attempt \in 0 .. MaxAttempts
       /\ hcCall[c].left \in 0 .. Timeout
       /\ hcCall[c].wait \in 0 .. MaxDelay
       /\ hcCall[c].result \in {"none", "ok", "status", "error", "timeout"}
       /\ Len(hcSent[c]) <= MaxAttempts
  /\ hcToken \in 0 .. TokenLife

(* httpclient/httpclient.go New, "the idempotency key is set once per      *)
(* call": however often a call is resent, and whichever answers were lost, *)
(* the service applies it at most once, and DoJSON returns nil only when   *)
(* it did.                                                                 *)
AppliedOnce ==
  \A c \in Call :
    LET effects == {i \in DOMAIN hcApplied : hcApplied[i][1] = c}
    IN /\ \A i, j \in effects : i = j
       /\ hcCall[c].result = "ok" => effects # {}

(* httpmw/retry.go RoundTrip and rewindable: every attempt the service     *)
(* receives carries the call's whole body and the number of resends before *)
(* it.                                                                     *)
EveryAttemptIsWhole ==
  \A c \in Call : \A i \in DOMAIN hcSent[c] :
    /\ hcSent[c][i].body = IF hcCall[c].body = "none" THEN "none" ELSE "whole"
    /\ hcSent[c][i].resend = i - 1

WaitsAsAsked ==
  \A c \in Call :
    Len(hcSent'[c]) > Len(hcSent[c]) /\ Len(hcSent[c]) > 0 =>
      \A d \in retryAfter(hcCall[c].resp.after) : hcCall[c].since >= ClampedTo(d)

(* httpmw/retry.go delay: between a retryable answer and the resend the    *)
(* client waits what the server asked for, up to Backoff.Max.              *)
AskedWaitIsKept == [][WaitsAsAsked]_hcVars

(* httpclient/metrics.go: each attempt is counted once, whether it was     *)
(* answered, broke, timed out or never got a token, and no wait counts as  *)
(* an attempt.                                                             *)
AttemptsCounted ==
  \A c \in Call :
    LET n == Len(hcCounted[c])
    IN CASE hcCall[c].at \in {"idle", "wait"} -> n = hcCall[c].attempt
         [] hcCall[c].at \in {"send", "wire", "answer"} -> n = hcCall[c].attempt - 1
         [] OTHER -> n = hcCall[c].attempt \/ hcCall[c].attempt = 0

(* httpmw/retry.go RoundTrip and Config.Timeout: a call that began returns *)
(* although the service may never answer.                                  *)
CallEnds == \A c \in Call : (hcCall[c].at = "send") ~> (hcCall[c].at = "done")

\* What retries may not do: apply a keyed request twice, send part of a body or
\* escape the metrics.
ClientSafety == ClientTypeOK /\ AppliedOnce /\ EveryAttemptIsWhole /\ AttemptsCounted
=============================================================================
