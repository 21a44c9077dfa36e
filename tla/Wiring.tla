------------------------------- MODULE Wiring -------------------------------
(***************************************************************************)
(* What a service wires at its start: the Registry of task types, the Mux  *)
(* of a queue, the Check of one against the other, and the handlers of an  *)
(* eventbus.Bus, which may be registered while events are dispatched.      *)
(***************************************************************************)
EXTENDS Naturals, Sequences, Functions

CONSTANTS Type, Kind, Queue,
          Func,          \* handlers of the bus for one (domain, action)
          Dispatcher     \* goroutines that Call or Publish an event

ASSUME WiringAssumption == "none" \notin Queue \cup Kind

VARIABLES routes,     \* Registry.routes
          mux,        \* kinds in the routes of the Mux of each queue
          checked,    \* queues whose last Check passed, no Register since
          scheduled,  \* tasks written and not yet handled: queue and kind
          dead,       \* queues with a task that ended as unknownKind
          funcs,      \* Bus.funcs of the pair, in registration order
          dispatch    \* each dispatch: its mode, its snapshot and what ran

wiringVars == <<routes, mux, checked, scheduled, dead, funcs, dispatch>>

NoRoute == [queue |-> "none", kind |-> "none", drop |-> FALSE]
Registered(t) == routes[t] # NoRoute

WiringInit ==
  /\ routes = [t \in Type |-> NoRoute]
  /\ mux = [q \in Queue |-> {}]
  /\ checked = {}
  /\ scheduled = {}
  /\ dead = {}
  /\ funcs = <<>>
  /\ dispatch = [d \in Dispatcher |-> [mode |-> "new", fns |-> <<>>, ran |-> <<>>, failed |-> {}]]

-----------------------------------------------------------------------------
(* queue.Registry, queue.Mux and queue.Scheduler *)

\* Registry.Register: a type is registered once.
Register(t, q, k, drop) ==
  /\ ~Registered(t)
  /\ routes' = [routes EXCEPT ![t] = [queue |-> q, kind |-> k, drop |-> drop]]
  /\ checked' = checked \ {q}
  /\ UNCHANGED <<mux, scheduled, dead, funcs, dispatch>>

\* Mux.Register: a kind is registered once.
MuxRegister(q, k) ==
  /\ k \notin mux[q]
  /\ mux' = [mux EXCEPT ![q] = @ \cup {k}]
  /\ UNCHANGED <<routes, checked, scheduled, dead, funcs, dispatch>>

\* Registry.kinds: what the registered types schedule into q.
KindsFirst(q) ==
  LET ts == {t \in Type : routes[t].queue = q}
  IN IF ts = {} THEN {} ELSE LET t == CHOOSE t \in ts : TRUE IN {routes[t].kind}

Kinds(q) == {routes[t].kind : t \in {u \in Type : routes[u].queue = q /\ ~routes[u].drop}}

\* Registry.Check passes when the Mux has every kind.
Check(q) ==
  /\ Kinds(q) \subseteq mux[q]
  /\ checked' = checked \cup {q}
  /\ UNCHANGED <<routes, mux, scheduled, dead, funcs, dispatch>>

\* Scheduler.Schedule of a value of type t: an unknown type is refused, a
\* dropped one writes nothing.
Schedule(t) ==
  /\ Registered(t) /\ ~routes[t].drop
  /\ scheduled' = scheduled \cup {[queue |-> routes[t].queue, kind |-> routes[t].kind]}
  /\ UNCHANGED <<routes, mux, checked, dead, funcs, dispatch>>

\* Mux.Handle: a kind without a handler fails for good (unknownKind).
MuxHandle(task) ==
  /\ task \in scheduled
  /\ scheduled' = scheduled \ {task}
  /\ dead' = IF task.kind \in mux[task.queue] THEN dead ELSE dead \cup {task.queue}
  /\ UNCHANGED <<routes, mux, checked, funcs, dispatch>>

-----------------------------------------------------------------------------
(* eventbus.Bus; a registration of the same function again is another Func *)

BusRegister(f) ==
  /\ f \notin Range(funcs)
  /\ funcs' = Append(funcs, f)
  /\ UNCHANGED <<routes, mux, checked, scheduled, dead, dispatch>>

Dispatching(d, mode, fns) ==
  dispatch' = [dispatch EXCEPT ![d] = [mode |-> mode, fns |-> fns, ran |-> <<>>, failed |-> {}]]

\* Call and Publish take a snapshot of the handlers under the read lock.
Dispatch(d, mode) ==
  /\ dispatch[d].mode = "new"
  /\ Dispatching(d, mode, funcs)
  /\ UNCHANGED <<routes, mux, checked, scheduled, dead, funcs>>

Left(d) == SubSeq(dispatch[d].fns, Len(dispatch[d].ran) + 1, Len(dispatch[d].fns))
\* Call stops at the first error, Publish runs them all.
Stops(d) == dispatch[d].mode = "call" /\ dispatch[d].failed # {}

\* The next handler of the snapshot runs, outside the lock.
RunFunc(d) ==
  /\ Left(d) # <<>> /\ ~Stops(d)
  /\ LET f == Head(Left(d)) IN
       \E ok \in BOOLEAN :
         dispatch' = [dispatch EXCEPT ![d].ran = Append(@, f),
                                      ![d].failed = IF ok THEN @ ELSE @ \cup {f}]
  /\ UNCHANGED <<routes, mux, checked, scheduled, dead, funcs>>

Wire ==
  \/ \E t \in Type, q \in Queue, k \in Kind, drop \in BOOLEAN : Register(t, q, k, drop)
  \/ \E q \in Queue : Check(q) \/ \E k \in Kind : MuxRegister(q, k)
  \/ \E t \in Type : Schedule(t)
  \/ \E task \in scheduled : MuxHandle(task)

Events ==
  \/ \E f \in Func : BusRegister(f)
  \/ \E d \in Dispatcher : RunFunc(d) \/ \E mode \in {"call", "publish"} : Dispatch(d, mode)

WiringNext == Wire \/ Events

WiringSpec == WiringInit /\ [][WiringNext]_wiringVars

-----------------------------------------------------------------------------
\* Routes name queues and kinds, dispatches name handlers of the bus.
WiringTypeOK ==
  /\ routes \in [Type -> [queue : Queue, kind : Kind, drop : BOOLEAN] \cup {NoRoute}]
  /\ mux \in [Queue -> SUBSET Kind]
  /\ checked \subseteq Queue /\ dead \subseteq Queue
  /\ scheduled \subseteq [queue : Queue, kind : Kind]
  /\ Range(funcs) \subseteq Func
  /\ \A d \in Dispatcher :
       /\ dispatch[d].mode \in {"new", "call", "publish"}
       /\ Range(dispatch[d].ran) \subseteq Range(dispatch[d].fns)
       /\ dispatch[d].failed \subseteq Range(dispatch[d].ran)

\* Once Check passed for a queue and no type was registered for it after, no
\* task of it dies for want of a handler, whatever types share a kind or a queue
\* or are dropped, and whenever the task was written (Registry.Check against
\* Mux.lookup).
CheckedNeverDies == \A t \in scheduled : t.queue \in checked => t.kind \in mux[t.queue]

Finished(d) == dispatch[d].mode # "new" /\ (Left(d) = <<>> \/ Stops(d))

\* A dispatch runs the handlers its snapshot holds in registration order, each
\* once; a Publish runs all of them, and a Call all up to its first failure.  A
\* handler registered meanwhile, also by a handler, waits for the next event.
DispatchIsExact ==
  \A d \in Dispatcher :
    /\ dispatch[d].ran \o Left(d) = dispatch[d].fns
    /\ Finished(d) /\ dispatch[d].mode = "publish" => dispatch[d].ran = dispatch[d].fns
    /\ Finished(d) /\ dispatch[d].mode = "call" =>
         \/ dispatch[d].ran = dispatch[d].fns /\ dispatch[d].failed = {}
         \/ dispatch[d].failed = {dispatch[d].ran[Len(dispatch[d].ran)]}

\* What registration promises to dispatch.
WiringSafety == WiringTypeOK /\ CheckedNeverDies /\ DispatchIsExact
=============================================================================
