------------------------------- MODULE Closer -------------------------------
(***************************************************************************)
(* closer.Closer over dim resources: goroutines build resources, register  *)
(* their cleanups and close, at any time and in any order.                 *)
(*                                                                         *)
(* A handler is the resource whose cleanup it runs.  once.Do runs the body *)
(* for the first closer and keeps every other one waiting until it ends.   *)
(***************************************************************************)
EXTENDS Naturals, Sequences, Functions

CONSTANTS Resource,     \* resources of dim.NewResource, each with one cleanup
          Closing       \* goroutines that call Close or CloseSync

ASSUME CloserAssumption == {"free", "done"} \cap Closing = {}

VARIABLES built,      \* resource.get: "no", "factory", "built" or "failed"
          cleanupFn,  \* resources whose teardown is recorded (resource.cleanupFn)
          fns,        \* Closer.fns
          added,      \* every handler that was accepted, in order
          closed,     \* Closer.closed
          once,       \* the once: "free", who runs the body, or "done"
          body,       \* of once.Do: the handlers that wait and that run, what was built before
          started,    \* handlers in the order they started
          toreDown,   \* resources whose teardown ran
          closers     \* each Close or CloseSync call

closerVars == <<built, cleanupFn, fns, added, closed, once, body, started, toreDown, closers>>

CloserInit ==
  /\ built = [r \in Resource |-> "no"]
  /\ cleanupFn = {}
  /\ fns = <<>> /\ added = <<>>
  /\ closed = FALSE
  /\ once = "free"
  /\ body = [mode |-> "none", live |-> {}, waiting |-> <<>>, running |-> {}]
  /\ started = <<>>
  /\ toreDown = {}
  /\ closers = [g \in Closing |-> "new"]

-----------------------------------------------------------------------------
(* dim *)

\* resource.get runs the factory once; other getters wait for it in once.Do.
GetStarts(r) ==
  /\ built[r] = "no"
  /\ built' = [built EXCEPT ![r] = "factory"]
  /\ UNCHANGED <<cleanupFn, fns, added, closed, once, body, started, toreDown, closers>>

\* The factory returns a value and its teardown, or an error, after which every
\* get panics.
GetReturns(r) ==
  /\ built[r] = "factory"
  /\ \/ built' = [built EXCEPT ![r] = "built"] /\ cleanupFn' = cleanupFn \cup {r}
     \/ built' = [built EXCEPT ![r] = "failed"] /\ UNCHANGED cleanupFn
  /\ UNCHANGED <<fns, added, closed, once, body, started, toreDown, closers>>

-----------------------------------------------------------------------------
(* Closer.add and the two ways to close *)

\* Under the mutex: a handler added after close is dropped with a warning.
Add(r) ==
  /\ r \notin Range(added) /\ ~closed
  /\ fns' = Append(fns, r) /\ added' = Append(added, r)
  /\ UNCHANGED <<built, cleanupFn, closed, once, body, started, toreDown, closers>>

\* copyAndReverseHandlers: the handlers, last registered first.
ReverseHandlers(hs) == [i \in 1 .. Len(hs) |-> hs[(Len(hs) - i) + 1]]

\* The first closer is inside once.Do; no handlers, no work.
CloseStarts(g, mode) ==
  /\ closers[g] = "new" /\ once = "free"
  /\ once' = g
  /\ body' = [mode |-> mode, live |-> {r \in Resource : built[r] = "built"},
              waiting |-> ReverseHandlers(fns), running |-> {}]
  /\ fns' = <<>> /\ closed' = TRUE
  /\ closers' = [closers EXCEPT ![g] = "inside"]
  /\ UNCHANGED <<built, cleanupFn, added, started, toreDown>>

\* The handlers but the i-th.
Without(hs, i) == SubSeq(hs, 1, i - 1) \o SubSeq(hs, i + 1, Len(hs))

\* Close starts a goroutine per handler; CloseSync calls one after the other.
HandlerStarts ==
  /\ \E i \in DOMAIN body.waiting :
       /\ body.mode = "sync" => i = 1 /\ body.running = {}
       /\ body' = [body EXCEPT !.waiting = Without(@, i), !.running = @ \cup {body.waiting[i]}]
       /\ started' = Append(started, body.waiting[i])
  /\ UNCHANGED <<built, cleanupFn, fns, added, closed, once, toreDown, closers>>

HandlerPanicEscapes(r) ==
  /\ r \in body.running
  /\ \/ body' = [body EXCEPT !.running = @ \ {r}]
     \/ body' = [body EXCEPT !.waiting = <<>>, !.running = @ \ {r}]
  /\ toreDown' = IF r \in cleanupFn THEN toreDown \cup {r} ELSE toreDown
  /\ UNCHANGED <<built, cleanupFn, fns, added, closed, once, started, closers>>

\* getCleanup reads cleanupFn under its mutex: nil means nothing was built.  An
\* error, or a panic, which is recovered, joins the errors and ends nothing.
HandlerReturns(r) ==
  /\ r \in body.running
  /\ body' = [body EXCEPT !.running = @ \ {r}]
  /\ toreDown' = IF r \in cleanupFn THEN toreDown \cup {r} ELSE toreDown
  /\ UNCHANGED <<built, cleanupFn, fns, added, closed, once, started, closers>>

\* wg.Wait and the drained channel, or the end of the loop.
CloseReturns(g) ==
  /\ closers[g] = "inside"
  /\ body.waiting = <<>> /\ body.running = {}
  /\ once' = "done"
  /\ closers' = [closers EXCEPT ![g] = "returned"]
  /\ UNCHANGED <<built, cleanupFn, fns, added, closed, body, started, toreDown>>

\* Any other closer waits for the body and returns nil.
CloseAgain(g) ==
  /\ closers[g] = "new" /\ once = "done"
  /\ closers' = [closers EXCEPT ![g] = "returned"]
  /\ UNCHANGED <<built, cleanupFn, fns, added, closed, once, body, started, toreDown>>

CloseCall(g) ==
  \/ \E mode \in {"sync", "async"} : CloseStarts(g, mode)
  \/ CloseReturns(g) \/ CloseAgain(g)

Handlers == HandlerStarts \/ \E r \in Resource : HandlerReturns(r)

CloserNext ==
  \/ \E r \in Resource : GetStarts(r) \/ GetReturns(r) \/ Add(r)
  \/ \E g \in Closing : CloseCall(g)
  \/ Handlers

CloserSpec == CloserInit /\ [][CloserNext]_closerVars
CloserFairSpec == CloserSpec /\ WF_closerVars(Handlers) /\ \A g \in Closing : WF_closerVars(CloseCall(g))

-----------------------------------------------------------------------------
\* Handlers are resources, closers are new, inside the once or back.
CloserTypeOK ==
  /\ built \in [Resource -> {"no", "factory", "built", "failed"}]
  /\ cleanupFn \subseteq Resource /\ toreDown \subseteq Resource
  /\ Range(fns) \cup Range(added) \cup Range(started) \subseteq Resource
  /\ closed \in BOOLEAN
  /\ once \in Closing \cup {"free", "done"}
  /\ body.live \cup body.running \cup Range(body.waiting) \subseteq Resource
  /\ closers \in [Closing -> {"new", "inside", "returned"}]

SomeReturned == \E g \in Closing : closers[g] = "returned"

\* When any Close returns, also one that lost the race of once.Do, every handler
\* registered before the close has run to its end, whatever failed or panicked.
ReturnedMeansClosed ==
  SomeReturned => body.waiting = <<>> /\ body.running = {} /\ fns = <<>>

\* By then every registered resource that was built when the close began is torn
\* down; only a build the close overtakes is left open (resource.getCleanup).
BuiltIsTornDown == SomeReturned => Range(added) \cap body.live \subseteq toreDown

\* CloseSync runs every accepted handler, one at a time, last registered first.
SyncIsLifo ==
  body.mode = "sync" =>
    /\ started \o body.waiting = [i \in 1 .. Len(added) |-> added[(Len(added) - i) + 1]]
    /\ \A r, s \in body.running : r = s

\* Close returns once its handlers do, for every caller.
EveryCloseReturns == \A g \in Closing : <>(closers[g] = "returned")

\* What is left after a Close, panics and racing calls included: nothing runs, what
\* was built is torn down, and in reverse order where that is promised.
CloserSafety == CloserTypeOK /\ ReturnedMeansClosed /\ BuiltIsTornDown /\ SyncIsLifo
=============================================================================
