----------------------------- MODULE AppProofs ------------------------------
(* An application around its components: the process that serves requests and  *)
(* goes down without pulling anything from under one, the closer that tears   *)
(* down what was built, the wiring of event types to task handlers and of     *)
(* events to their handlers, and the tracing of what happens, for any number  *)
(* of requests, dependencies, closers, types, queues, handlers and spans.     *)
EXTENDS Servers, Closer, Wiring, Tracing, TLAPS

\* Most leaves are first-order; the ones with arithmetic cite SMT.
USE Zenon

-----------------------------------------------------------------------------
(* Tracing                                                                 *)

SpanContexts == [trace : 0..(MaxSpans + 1), id : 0..MaxSpans, sampled : BOOLEAN, remote : BOOLEAN]
Contexts == [sc : SpanContexts, mark : BOOLEAN]
SpanKinds == {"server", "query", "tick", "send", "process"}
SpanUnders == {"request", "tick", "silent", "item", "message"}
SpanRecords == [kind : SpanKinds, under : SpanUnders, sc : SpanContexts]
EventRecords == [state : {"none", "task", "message", "done"}, headers : SpanContexts,
                 created : SpanContexts, sent : SpanContexts]

TracingTypes ==
  /\ tcSampler \in [Process -> Samplers] /\ tcCaller \in SpanContexts /\ tcHits \subseteq Traces
  /\ tcSpans \in Seq(SpanRecords)
  /\ tcEcho \in SpanContexts
  /\ tcRequest = NoContext \/ tcRequest \in Contexts
  /\ tcTick = NoContext \/ tcTick \in Contexts
  /\ tcEvent \in EventRecords

\* Two span contexts that make the same decision for the same trace.
Alike(a, b) == a.trace = b.trace /\ a.sampled = b.sampled

\* The span contexts a later span may continue.
Circulating ==
  {tcCaller, tcEvent.headers} \cup {s.sc : s \in Spans}
    \cup {c.sc : c \in {tcRequest, tcTick} \ {NoContext}}

OneTraceOneDecision(S) ==
  \A a, b \in S : IsValid(a) /\ a.trace = b.trace => a.sampled = b.sampled

AllParentBased == \A p \in Process : tcSampler[p] \in ParentBased

ContextsInv ==
  /\ \A a \in Circulating : a.trace < FreshTrace
  /\ AllParentBased => OneTraceOneDecision(Circulating)
  /\ tcCaller.remote
  /\ tcRequest # NoContext => ~tcRequest.mark
  /\ tcTick # NoContext => (tcTick.mark => tcTick.sc = NoSpan)

\* The headers of the event are those it was created with or, if it was created
\* in no trace, those of the publish that sent it.
EventInv ==
  /\ tcEvent.state = "none" =>
       tcEvent = NoEvent /\ \A s \in Spans : s.kind \notin {"send", "process"}
  /\ tcEvent.state = "task" =>
       /\ tcEvent.headers = tcEvent.created /\ tcEvent.sent = NoSpan
       /\ \A s \in Spans : s.kind # "process"
  /\ tcEvent.state \in {"message", "done"} =>
       /\ tcEvent.headers.trace = tcEvent.sent.trace
       /\ IsValid(tcEvent.created) => tcEvent.headers = tcEvent.created

\* A span has a trace, and under a silent tick it is not sampled.
SpansInv == \A s \in Spans : IsValid(s.sc) /\ (s.under = "silent" => ~s.sc.sampled)

EchoInv ==
  IsValid(tcEcho) =>
    /\ tcRequest # NoContext
    /\ \E s \in Spans : s.kind = "server" /\ s.sc = tcEcho /\ s.sc = tcRequest.sc

TracingInv ==
  /\ TracingTypes /\ ContextsInv /\ EventInv /\ EchoInv
  /\ SpansInv /\ EventKeepsItsTrace

\* The absent span context is of the type and not valid.
LEMMA NoSpanType == NoSpan \in SpanContexts /\ ~IsValid(NoSpan)
  BY TracingAssumption, SMT DEF NoSpan, SpanContexts, IsValid

\* Headers and extraction keep the trace and the decision.
LEMMA CarrierAlike ==
  ASSUME NEW c \in Contexts
  PROVE  Carrier(c) \in SpanContexts /\ Alike(Carrier(c), c.sc)
BY DEF Carrier, Contexts, SpanContexts, Alike

\* Headers carry the trace and the decision of what was injected.
LEMMA ExtractAlike ==
  ASSUME NEW h \in SpanContexts
  PROVE  /\ Extract(h) \in SpanContexts
         /\ IsValid(Extract(h)) <=> IsValid(h)
         /\ IsValid(h) => Alike(Extract(h), h)
BY NoSpanType DEF Extract, SpanContexts, Alike, IsValid

\* What the span context of a new span is.
LEMMA StartSpanFacts ==
  ASSUME TracingTypes, NEW p \in Process, NEW c \in Contexts, NEW newRoot \in BOOLEAN,
         Len(tcSpans) < MaxSpans
  PROVE  LET parent == IF newRoot THEN NoSpan ELSE c.sc
             sc == StartSpan(p, c, newRoot)
         IN /\ sc \in SpanContexts
            /\ tcSampler[p] = "no_sdk" => sc = parent
            /\ IsValid(parent) => sc.trace = parent.trace
            /\ tcSampler[p] # "no_sdk" =>
                 /\ IsValid(sc) /\ ~sc.remote
                 /\ ~IsValid(parent) => sc.trace = FreshTrace
                 /\ c.mark => ~sc.sampled
                 /\ tcSampler[p] \in ParentBased /\ ~c.mark /\ IsValid(parent) =>
                      sc.sampled = parent.sampled
<1> DEFINE parent == IF newRoot THEN NoSpan ELSE c.sc
           trace == IF IsValid(parent) THEN parent.trace ELSE FreshTrace
           keep == ShouldSample(tcSampler[p], c.mark, parent, trace)
           sc == StartSpan(p, c, newRoot)
<1>1. parent \in SpanContexts
  BY NoSpanType DEF Contexts
<1>2. Len(tcSpans) \in Nat
  BY SMT DEF TracingTypes
<1>3. trace \in 1..(MaxSpans + 1)
  BY <1>1, <1>2, TracingAssumption, SMT DEF FreshTrace, IsValid, SpanContexts
<1> HIDE DEF parent, trace
<1>4. /\ keep \in BOOLEAN /\ (c.mark => ~keep)
      /\ tcSampler[p] \in ParentBased /\ ~c.mark /\ IsValid(parent) => keep = parent.sampled
  <2>1. parent.sampled \in BOOLEAN /\ c.mark \in BOOLEAN
    BY <1>1 DEF SpanContexts, Contexts
  <2>2. Root(tcSampler[p], trace) \in BOOLEAN
    <3> DEFINE n == tcSampler[p]
    <3>1. CASE n \in {"always_on", "parentbased_always_on"}
      BY <3>1 DEF Root
    <3>2. CASE n \in {"traceidratio", "parentbased_traceidratio"}
      <4>1. CASE trace \in tcHits
        <5>1. Root(n, trace) = TRUE
          BY <3>2, <4>1 DEF Root
        <5> QED
          BY <5>1
      <4>2. CASE trace \notin tcHits
        <5>1. Root(n, trace) = FALSE
          BY <3>2, <4>2, SMT DEF Root
        <5> QED
          BY <5>1
      <4> QED
        BY <4>1, <4>2
    <3>3. CASE n \notin {"always_on", "parentbased_always_on", "traceidratio", "parentbased_traceidratio"}
      BY <3>3 DEF Root
    <3> QED
      BY <3>1, <3>2, <3>3
  <2>3. CASE tcSampler[p] \in ParentBased /\ IsValid(parent)
    <3>1. keep = (~c.mark /\ parent.sampled)
      BY <2>3, Zenon DEF ShouldSample, sampler
    <3> HIDE DEF keep
    <3>2. parent.sampled = TRUE \/ parent.sampled = FALSE
      BY <2>1, Zenon
    <3> QED
      BY <2>1, <3>1, <3>2, Zenon
  <2>4. CASE ~(tcSampler[p] \in ParentBased /\ IsValid(parent))
    <3>1. keep = (~c.mark /\ Root(tcSampler[p], trace))
      BY <2>4, Zenon DEF ShouldSample, sampler
    <3> HIDE DEF keep
    <3> QED
      BY <2>1, <2>2, <2>4, <3>1, Zenon
  <2> QED
    BY <2>3, <2>4, Zenon
<1> HIDE DEF keep
<1>5. CASE tcSampler[p] = "no_sdk"
  BY <1>1, <1>5 DEF StartSpan, parent
<1>6. CASE tcSampler[p] # "no_sdk"
  <2>1. sc = [trace |-> trace, id |-> Len(tcSpans) + 1, remote |-> FALSE, sampled |-> keep]
    BY <1>6 DEF StartSpan, parent, trace, keep
  <2>2. sc \in SpanContexts
    BY <1>2, <1>3, <1>4, <2>1, TracingAssumption, SMT DEF SpanContexts
  <2> QED
    BY <1>3, <1>4, <1>6, <2>1, <2>2, SMT DEF IsValid, trace, parent
<1> QED
  BY <1>5, <1>6 DEF parent

\* A set of span contexts stays consistent when each of its new members decides
\* as an old one or as x, and x decides as an old one or is of a new trace.
LEMMA ConsistentStep ==
  ASSUME NEW S, NEW T, NEW x, OneTraceOneDecision(S),
         \A a \in T : IsValid(a) => Alike(a, x) \/ \E b \in S : Alike(a, b),
         (\A b \in S : b.trace # x.trace) \/ (\E b \in S : Alike(x, b))
  PROVE  OneTraceOneDecision(T)
<1> SUFFICES ASSUME NEW a \in T, NEW b \in T, IsValid(a), a.trace = b.trace
             PROVE  a.sampled = b.sampled
  BY Zenon DEF OneTraceOneDecision
<1>1. IsValid(b)
  BY DEF IsValid
<1>2. \A u, v \in S : IsValid(u) /\ u.trace = v.trace => u.sampled = v.sampled
  BY Zenon DEF OneTraceOneDecision
<1>3. /\ Alike(a, x) \/ \E u \in S : Alike(a, u)
      /\ Alike(b, x) \/ \E v \in S : Alike(b, v)
  BY <1>1
<1> QED
  BY <1>2, <1>3 DEF Alike, IsValid

\* A span that starts from a context in circulation: its place in the sequence
\* and what its span context shares with the others.
LEMMA SpanStarts ==
  ASSUME TracingInv, NEW p \in Process, NEW c \in Contexts, NEW newRoot \in BOOLEAN,
         NEW kind \in SpanKinds, NEW under \in SpanUnders,
         Started(p, StartSpan(p, c, newRoot), kind, under),
         c.mark => c.sc = NoSpan, under = "silent" => c.mark,
         IsValid(c.sc) => \E b \in Circulating : Alike(c.sc, b)
  PROVE  LET sc == StartSpan(p, c, newRoot)
         IN /\ sc \in SpanContexts
            /\ tcSpans' \in Seq(SpanRecords)
            /\ FreshTrace <= FreshTrace' /\ sc.trace < FreshTrace'
            /\ Spans' = IF tcSampler[p] = "no_sdk" THEN Spans
                        ELSE Spans \cup {[kind |-> kind, under |-> under, sc |-> sc]}
            /\ AllParentBased =>
                 (\A b \in Circulating : b.trace # sc.trace) \/ (\E b \in Circulating : Alike(sc, b))
            /\ Spans' # Spans => IsValid(sc) /\ (under = "silent" => ~sc.sampled)
<1> DEFINE sc == StartSpan(p, c, newRoot)
           parent == IF newRoot THEN NoSpan ELSE c.sc
           span == [kind |-> kind, under |-> under, sc |-> sc]
<1>1. TracingTypes /\ Len(tcSpans) < MaxSpans
  BY DEF TracingInv, Started
<1>2. /\ sc \in SpanContexts
      /\ tcSampler[p] = "no_sdk" => sc = parent
      /\ IsValid(parent) => sc.trace = parent.trace
      /\ tcSampler[p] # "no_sdk" =>
           /\ IsValid(sc) /\ ~sc.remote
           /\ ~IsValid(parent) => sc.trace = FreshTrace
           /\ c.mark => ~sc.sampled
           /\ tcSampler[p] \in ParentBased /\ ~c.mark /\ IsValid(parent) =>
                sc.sampled = parent.sampled
  BY <1>1, StartSpanFacts
<1>3. tcSpans' = IF tcSampler[p] = "no_sdk" THEN tcSpans ELSE Append(tcSpans, span)
  BY DEF Started
<1> HIDE DEF sc
<1>4. span \in SpanRecords
  BY <1>2 DEF SpanRecords
<1> HIDE DEF span
<1>5. tcSpans \in Seq(SpanRecords) /\ Len(tcSpans) \in Nat
  BY <1>1, SMT DEF TracingTypes
<1>6. tcSpans' \in Seq(SpanRecords) /\ FreshTrace <= FreshTrace'
  BY <1>3, <1>4, <1>5, SMT DEF FreshTrace
<1>7. Spans' = IF tcSampler[p] = "no_sdk" THEN Spans ELSE Spans \cup {span}
  <2>1. CASE tcSampler[p] = "no_sdk"
    BY <1>3, <2>1 DEF Spans
  <2>2. CASE tcSampler[p] # "no_sdk"
    <3>1. /\ Len(tcSpans') = Len(tcSpans) + 1 /\ tcSpans'[Len(tcSpans) + 1] = span
          /\ \A i \in 1..Len(tcSpans) : tcSpans'[i] = tcSpans[i]
      BY <1>3, <1>4, <1>5, <2>2, SMT
    <3>2. 1..(Len(tcSpans) + 1) = 1..Len(tcSpans) \cup {Len(tcSpans) + 1}
      BY <1>5, SMT
    <3> QED
      BY <2>2, <3>1, <3>2 DEF Spans
  <2> QED
    BY <2>1, <2>2
<1>8. \A b \in Circulating : b.trace < FreshTrace
  BY DEF TracingInv, ContextsInv
<1>9. parent = NoSpan \/ (parent = c.sc /\ (IsValid(parent) => \E b \in Circulating : Alike(parent, b)))
  OBVIOUS
<1>10. IsValid(parent) => parent.trace < FreshTrace
  BY <1>8, <1>9, NoSpanType DEF Alike
<1>11. FreshTrace \in Nat /\ FreshTrace > 0
  BY <1>5, SMT DEF FreshTrace
<1> HIDE DEF parent
<1>12. sc.trace < FreshTrace'
  <2>1. CASE tcSampler[p] = "no_sdk"
    <3>1. IsValid(parent) \/ sc.trace = 0
      BY <1>2, <2>1 DEF IsValid
    <3>2. FreshTrace' \in Nat /\ sc.trace \in Nat
      BY <1>2, <1>6, SMT DEF FreshTrace, SpanContexts
    <3> QED
      BY <1>2, <1>6, <1>10, <1>11, <3>1, <3>2, SMT
  <2>2. CASE tcSampler[p] # "no_sdk"
    <3>1. FreshTrace' = FreshTrace + 1
      BY <1>3, <1>4, <1>5, <2>2, SMT DEF FreshTrace
    <3>2. sc.trace < FreshTrace \/ sc.trace = FreshTrace
      BY <1>2, <1>10, <2>2
    <3> QED
      BY <1>2, <1>11, <3>1, <3>2, SMT DEF SpanContexts
  <2> QED
    BY <2>1, <2>2
<1>13. ASSUME AllParentBased
       PROVE  (\A b \in Circulating : b.trace # sc.trace) \/ (\E b \in Circulating : Alike(sc, b))
  <2>1. tcSampler[p] \in ParentBased /\ tcSampler[p] # "no_sdk"
    BY <1>13 DEF AllParentBased, ParentBased
  <2>2. CASE IsValid(parent)
    <3>1. ~c.mark
      BY <2>2, NoSpanType DEF parent
    <3> QED
      BY <1>2, <1>9, <2>1, <2>2, <3>1, NoSpanType DEF Alike
  <2>3. CASE ~IsValid(parent)
    <3>1. sc.trace = FreshTrace
      BY <1>2, <2>1, <2>3
    <3> QED
      BY <1>8, <1>11, <3>1, SMT
  <2> QED
    BY <2>2, <2>3
<1>14. Spans' # Spans => IsValid(sc) /\ (under = "silent" => ~sc.sampled)
  BY <1>2, <1>7
<1> QED
  BY <1>2, <1>6, <1>7, <1>12, <1>13, <1>14 DEF sc, span

\* What a step does to the contexts in circulation when each new one decides as
\* an old one or as the span it started.
LEMMA ContextsStep ==
  ASSUME TracingInv, TracingTypes', NEW x, UNCHANGED tcSampler,
         FreshTrace <= FreshTrace', x.trace < FreshTrace',
         \A a \in Circulating' : IsValid(a) => Alike(a, x) \/ \E b \in Circulating : Alike(a, b),
         AllParentBased =>
           (\A b \in Circulating : b.trace # x.trace) \/ (\E b \in Circulating : Alike(x, b))
  PROVE  /\ \A a \in Circulating' : a.trace < FreshTrace'
         /\ AllParentBased' => OneTraceOneDecision(Circulating')
<1>3. FreshTrace \in Nat /\ FreshTrace' \in Nat /\ FreshTrace' > 0
  BY SMT DEF TracingInv, TracingTypes, FreshTrace
<1>4. \A a \in Circulating' : a.trace \in Nat
  <2>1. Circulating' \subseteq SpanContexts
    <3>1. Spans' \subseteq SpanRecords
      BY SMT DEF TracingTypes, Spans
    <3>2. \A s \in Spans' : s.sc \in SpanContexts
      BY <3>1 DEF SpanRecords
    <3>3. \A c \in {tcRequest', tcTick'} \ {NoContext} : c.sc \in SpanContexts
      BY SMT DEF TracingTypes, Contexts
    <3>4. tcCaller' \in SpanContexts /\ tcEvent'.headers \in SpanContexts
      BY DEF TracingTypes, EventRecords
    <3> QED
      BY <3>2, <3>3, <3>4 DEF Circulating, NoContext
  <2> QED
    BY <2>1, SMT DEF SpanContexts
<1>1. ASSUME NEW a \in Circulating' PROVE a.trace < FreshTrace'
  <2>1. CASE IsValid(a)
    <3>1. CASE Alike(a, x)
      BY <3>1 DEF Alike
    <3>2. CASE \E b \in Circulating : Alike(a, b)
      <4>1. a.trace < FreshTrace
        BY <3>2, Zenon DEF TracingInv, ContextsInv, Alike
      <4> QED
        BY <1>3, <1>4, <4>1, SMT
    <3> QED
      BY <2>1, <3>1, <3>2
  <2>2. CASE ~IsValid(a)
    BY <1>3, <2>2 DEF IsValid
  <2> QED
    BY <2>1, <2>2
<1>2. ASSUME AllParentBased' PROVE OneTraceOneDecision(Circulating')
  <2>1. AllParentBased
    BY <1>2 DEF AllParentBased
  <2>2. OneTraceOneDecision(Circulating)
    BY <2>1 DEF TracingInv, ContextsInv
  <2> QED
    BY <2>1, <2>2, ConsistentStep
<1> QED
  BY <1>1, <1>2

\* Nothing has been traced in the beginning.
LEMMA TracingInitially == TracingInit => TracingInv
<1> SUFFICES ASSUME TracingInit PROVE TracingInv
  OBVIOUS
<1>1. Spans = {} /\ FreshTrace = 2
  BY SMT DEF TracingInit, Spans, FreshTrace
<1>2. tcCaller \in SpanContexts /\ tcCaller.trace = 1 /\ tcCaller.remote
  <2>1. tcCaller \in [trace : {1}, id : {0}, sampled : BOOLEAN, remote : {TRUE}]
    BY DEF TracingInit, CallerTrace
  <2>2. tcCaller.remote = TRUE /\ tcCaller.trace = 1
    BY <2>1
  <2>3. tcCaller \in SpanContexts
    <3>1. {1} \subseteq 0..(MaxSpans + 1) /\ {0} \subseteq 0..MaxSpans /\ {TRUE} \subseteq BOOLEAN
      BY TracingAssumption, SMT
    <3> QED
      BY <2>1, <3>1 DEF SpanContexts
  <2> QED
    BY <2>2, <2>3, Zenon
<1>3. NoEvent \in EventRecords /\ NoEvent.headers = NoSpan /\ NoEvent.state = "none"
  BY NoSpanType DEF NoEvent, EventRecords
<1>4. TracingTypes
  BY <1>2, <1>3, NoSpanType, SMT DEF TracingInit, TracingTypes
<1>5. Circulating = {tcCaller, NoSpan}
  BY <1>1, <1>3 DEF TracingInit, Circulating
<1>6. ContextsInv
  <2>1. \A a \in Circulating : a.trace < FreshTrace
    BY <1>1, <1>2, <1>5, SMT DEF NoSpan
  <2>2. OneTraceOneDecision(Circulating)
    BY <1>2, <1>5, SMT DEF OneTraceOneDecision, NoSpan, IsValid
  <2> QED
    BY <1>2, <2>1, <2>2, Zenon DEF TracingInit, ContextsInv
<1>7. EventInv /\ EchoInv /\ SpansInv /\ EventKeepsItsTrace
  BY <1>1, <1>3, NoSpanType DEF TracingInit, EventInv, EchoInv, SpansInv, EventKeepsItsTrace
<1> QED
  BY <1>4, <1>6, <1>7 DEF TracingInv

\* A span that is neither a publish nor a handling of the event leaves what is
\* known of the event.
LEMMA PlainSpan ==
  ASSUME TracingInv, UNCHANGED tcEvent, NEW s, Spans' \subseteq Spans \cup {s},
         s.kind \notin {"send", "process"}, Spans' # Spans => IsValid(s.sc) /\ (s.under = "silent" => ~s.sc.sampled)
  PROVE  EventInv' /\ EventKeepsItsTrace' /\ SpansInv'
<1>1. EventInv'
  BY DEF TracingInv, EventInv
<1>2. EventKeepsItsTrace'
  BY DEF TracingInv, EventKeepsItsTrace
<1>3. SpansInv'
  BY DEF TracingInv, SpansInv
<1> QED
  BY <1>1, <1>2, <1>3

\* A further span leaves the span of the response in place.
LEMMA EchoKept ==
  ASSUME TracingInv, UNCHANGED <<tcEcho, tcRequest>>, Spans \subseteq Spans'
  PROVE  EchoInv'
BY DEF TracingInv, EchoInv

\* A request starts its server span under what its caller sent.
LEMMA RequestKeeps == TracingInv /\ Request => TracingInv'
<1> SUFFICES ASSUME TracingInv, Request PROVE TracingInv'
  OBVIOUS
<1> USE DEF TracingInv
<1>1. PICK caller \in {NoSpan, tcCaller}, public \in BOOLEAN :
        LET sc == StartSpan("api", Context(caller, FALSE), public /\ IsValid(caller))
        IN /\ Started("api", sc, "server", "request")
           /\ tcRequest' = Context(sc, FALSE) /\ tcEcho' = InjectToResponse(sc)
           /\ UNCHANGED <<tcSampler, tcCaller, tcHits, tcTick, tcEvent>>
  BY DEF Request
<1> DEFINE c == Context(caller, FALSE)
           root == public /\ IsValid(caller)
           sc == StartSpan("api", c, root)
           span == [kind |-> "server", under |-> "request", sc |-> sc]
<1>2. c \in Contexts /\ c.sc = caller /\ ~c.mark /\ root \in BOOLEAN
  BY NoSpanType DEF Context, Contexts, TracingTypes
<1>3. IsValid(caller) => \E b \in Circulating : Alike(caller, b)
  BY NoSpanType DEF Circulating, Alike
<1>4. /\ sc \in SpanContexts
      /\ tcSpans' \in Seq(SpanRecords)
      /\ FreshTrace <= FreshTrace' /\ sc.trace < FreshTrace'
      /\ Spans' = IF tcSampler["api"] = "no_sdk" THEN Spans ELSE Spans \cup {span}
      /\ AllParentBased =>
           (\A b \in Circulating : b.trace # sc.trace) \/ (\E b \in Circulating : Alike(sc, b))
      /\ Spans' # Spans => IsValid(sc)
  <2> HIDE DEF c, root
  <2>1. "api" \in Process /\ "server" \in SpanKinds /\ "request" \in SpanUnders
    BY DEF Process, SpanKinds, SpanUnders
  <2>2. Started("api", sc, "server", "request")
    BY <1>1 DEF c, root
  <2> QED
    BY <1>2, <1>3, <2>1, <2>2, SpanStarts
<1>5. tcSampler["api"] = "no_sdk" => sc \in {NoSpan, tcCaller}
  BY <1>2 DEF StartSpan
<1>6. tcRequest' = Context(sc, FALSE) /\ tcEcho' = InjectToResponse(sc)
      /\ UNCHANGED <<tcSampler, tcCaller, tcHits, tcTick, tcEvent>>
  BY <1>1
<1> HIDE DEF c, root, sc
<1>11. span.kind = "server" /\ span.under = "request" /\ span.sc = sc
  OBVIOUS
<1> HIDE DEF span
<1>7. TracingTypes'
  BY <1>4, <1>6, NoSpanType DEF TracingTypes, Context, Contexts, InjectToResponse, Traces
<1>8. ContextsInv'
  <2>1. tcRequest'.sc = sc /\ ~tcRequest'.mark
    BY <1>6 DEF Context
  <2>2. \A a \in Circulating' : IsValid(a) => Alike(a, sc) \/ \E b \in Circulating : Alike(a, b)
    <3>1. Circulating' \subseteq Circulating \cup {sc}
      <4>1. {s.sc : s \in Spans'} \subseteq {s.sc : s \in Spans} \cup {sc}
        BY <1>4, <1>11
      <4>2. {d.sc : d \in {tcRequest', tcTick'} \ {NoContext}}
              \subseteq {d.sc : d \in {tcRequest, tcTick} \ {NoContext}} \cup {sc}
        BY <1>6, <2>1
      <4> QED
        BY <1>6, <4>1, <4>2 DEF Circulating, NoContext
    <3> QED
      BY <3>1 DEF Alike
  <2> QED
    BY <1>4, <1>6, <1>7, <2>1, <2>2, ContextsStep DEF ContextsInv
<1>9. EventInv' /\ EventKeepsItsTrace' /\ SpansInv'
  <2>1. Spans' \subseteq Spans \cup {span}
    BY <1>4
  <2> QED
    BY <1>4, <1>6, <1>11, <2>1, PlainSpan
<1>10. EchoInv'
  <2> SUFFICES ASSUME IsValid(tcEcho') PROVE EchoInv'
    BY DEF EchoInv
  <2>1. IsValid(sc) /\ ~sc.remote /\ tcEcho' = sc
    BY <1>6, NoSpanType DEF InjectToResponse
  <2>2. tcSampler["api"] # "no_sdk"
    BY <1>5, <2>1, NoSpanType DEF ContextsInv
  <2>3. tcRequest' # NoContext /\ tcRequest'.sc = sc
    BY <1>6 DEF Context, NoContext
  <2>4. span \in Spans'
    BY <1>4, <2>2
  <2> QED
    BY <1>11, <2>1, <2>3, <2>4 DEF EchoInv
<1> QED
  BY <1>7, <1>8, <1>9, <1>10

\* An event is created in the span of its request or of the tick.
LEMMA ScheduleEventKeeps == TracingInv /\ ScheduleEvent => TracingInv'
<1> SUFFICES ASSUME TracingInv, ScheduleEvent PROVE TracingInv'
  OBVIOUS
<1> USE DEF TracingInv
<1> DEFINE c == IF tcRequest = NoContext THEN Background ELSE tcRequest
<1>1. /\ tcEvent.state = "none"
      /\ tcEvent' = [NoEvent EXCEPT !.state = "task", !.headers = Carrier(c), !.created = Carrier(c)]
      /\ UNCHANGED <<tcSampler, tcCaller, tcHits, tcSpans, tcRequest, tcEcho, tcTick>>
  BY DEF ScheduleEvent
<1>2. c \in Contexts /\ (IsValid(c.sc) => c.sc \in Circulating)
  <2>1. CASE tcRequest = NoContext
    BY <2>1, NoSpanType DEF Background, Context, Contexts
  <2>2. CASE tcRequest # NoContext
    <3>1. c = tcRequest /\ c \in {tcRequest, tcTick} \ {NoContext}
      BY <2>2
    <3> HIDE DEF c
    <3> QED
      BY <2>2, <3>1 DEF TracingTypes, Circulating
  <2> QED
    BY <2>1, <2>2
<1> HIDE DEF c
<1>3. Carrier(c) \in SpanContexts /\ Alike(Carrier(c), c.sc)
  BY <1>2, CarrierAlike
<1>4. /\ tcEvent'.state = "task" /\ tcEvent'.headers = Carrier(c) /\ tcEvent'.created = Carrier(c)
      /\ tcEvent'.sent = NoSpan /\ tcEvent' \in EventRecords
  BY <1>1, <1>3, NoSpanType DEF NoEvent, EventRecords
<1>5. TracingTypes'
  BY <1>1, <1>4 DEF TracingTypes, Traces
<1>6. Spans' = Spans /\ FreshTrace' = FreshTrace
  BY <1>1 DEF Spans, FreshTrace
<1>7. ContextsInv'
  <2>1. Circulating' \subseteq Circulating \cup {Carrier(c)}
    BY <1>1, <1>4, <1>6 DEF Circulating
  <2>2. tcCaller \in Circulating
    BY DEF Circulating
  <2>3. \A a \in Circulating' : IsValid(a) => Alike(a, tcCaller) \/ \E b \in Circulating : Alike(a, b)
    BY <1>2, <1>3, <2>1 DEF Alike, IsValid
  <2>4. tcCaller.trace < FreshTrace' /\ FreshTrace <= FreshTrace'
    BY <1>6, <2>2, SMT DEF ContextsInv, TracingTypes, FreshTrace
  <2>5. Alike(tcCaller, tcCaller)
    BY DEF Alike
  <2> QED
    BY <1>1, <1>5, <2>2, <2>3, <2>4, <2>5, ContextsStep DEF ContextsInv
<1>8. \A s \in Spans : s.kind \notin {"send", "process"}
  BY <1>1 DEF EventInv
<1>9. EventInv' /\ EventKeepsItsTrace' /\ SpansInv'
  BY <1>4, <1>6, <1>8 DEF EventInv, EventKeepsItsTrace, SpansInv
<1>10. EchoInv'
  BY <1>1, <1>6, EchoKept
<1> QED
  BY <1>5, <1>7, <1>9, <1>10

\* A span of a query, under the context of a request or of a tick.
LEMMA QueryKeeps ==
  ASSUME TracingInv, NEW c \in Contexts, NEW under \in SpanUnders,
         Started("api", StartSpan("api", c, FALSE), "query", under),
         c \in {tcRequest, tcTick} \ {NoContext}, under = "silent" <=> c.mark,
         UNCHANGED <<tcSampler, tcCaller, tcHits, tcRequest, tcEcho, tcTick, tcEvent>>
  PROVE  TracingInv'
<1> USE DEF TracingInv
<1> DEFINE sc == StartSpan("api", c, FALSE)
           span == [kind |-> "query", under |-> under, sc |-> sc]
<1>1. c.mark => c.sc = NoSpan
  BY SMT DEF ContextsInv
<1>2. c.sc \in Circulating
  BY DEF Circulating
<1>3. /\ sc \in SpanContexts
      /\ tcSpans' \in Seq(SpanRecords)
      /\ FreshTrace <= FreshTrace' /\ sc.trace < FreshTrace'
      /\ Spans' = IF tcSampler["api"] = "no_sdk" THEN Spans ELSE Spans \cup {span}
      /\ AllParentBased =>
           (\A b \in Circulating : b.trace # sc.trace) \/ (\E b \in Circulating : Alike(sc, b))
      /\ Spans' # Spans => IsValid(sc) /\ (under = "silent" => ~sc.sampled)
  <2>1. "api" \in Process /\ "query" \in SpanKinds /\ Alike(c.sc, c.sc)
    BY DEF Process, SpanKinds, Alike
  <2> QED
    BY <1>1, <1>2, <2>1, SpanStarts
<1> HIDE DEF sc
<1>4. span.kind = "query" /\ span.under = under /\ span.sc = sc
  OBVIOUS
<1> HIDE DEF span
<1>5. TracingTypes'
  BY <1>3 DEF TracingTypes, Traces
<1>6. ContextsInv'
  <2>1. Circulating' \subseteq Circulating \cup {sc}
    <3>1. {s.sc : s \in Spans'} \subseteq {s.sc : s \in Spans} \cup {sc}
      BY <1>3, <1>4
    <3> QED
      BY <3>1 DEF Circulating, NoContext
  <2>2. \A a \in Circulating' : IsValid(a) => Alike(a, sc) \/ \E b \in Circulating : Alike(a, b)
    BY <2>1 DEF Alike
  <2> QED
    BY <1>3, <1>5, <2>2, ContextsStep DEF ContextsInv
<1>7. EventInv' /\ EventKeepsItsTrace' /\ SpansInv'
  <2>1. Spans' \subseteq Spans \cup {span}
    BY <1>3
  <2> QED
    BY <1>3, <1>4, <2>1, PlainSpan
<1>8. EchoInv'
  <2>1. Spans \subseteq Spans'
    BY <1>3
  <2> QED
    BY <2>1, EchoKept
<1> QED
  BY <1>5, <1>6, <1>7, <1>8

\* The queries of a request or a tick are spans under it.
LEMMA QueriesKeep == TracingInv /\ (RequestQueries \/ TickQueries) => TracingInv'
<1> SUFFICES ASSUME TracingInv, RequestQueries \/ TickQueries PROVE TracingInv'
  OBVIOUS
<1>1. CASE RequestQueries
  <2>1. tcRequest \in Contexts /\ tcRequest # NoContext /\ ~tcRequest.mark
    BY <1>1 DEF RequestQueries, TracingInv, TracingTypes, ContextsInv
  <2>2. "request" \in SpanUnders
    BY DEF SpanUnders
  <2> QED
    BY <1>1, <2>1, <2>2, QueryKeeps DEF RequestQueries
<1>2. CASE TickQueries
  <2>1. tcTick \in Contexts /\ tcTick # NoContext
    BY <1>2 DEF TickQueries, TracingInv, TracingTypes
  <2>2. PICK under \in SpanUnders : under = (IF tcTick.mark THEN "silent" ELSE "tick")
    BY DEF SpanUnders
  <2>3. under = "silent" <=> tcTick.mark
    BY <2>2
  <2>4. Started("api", StartSpan("api", tcTick, FALSE), "query", under)
    BY <1>2, <2>2 DEF TickQueries
  <2> QED
    BY <1>2, <2>1, <2>3, <2>4, QueryKeeps DEF TickQueries
<1> QED
  BY <1>1, <1>2

\* Steps that start no span and put no new trace into circulation.
LEMMA NoSpanKeeps == TracingInv /\ (RequestEnds \/ TickSuppressed \/ TickEnds) => TracingInv'
<1> SUFFICES ASSUME TracingInv, RequestEnds \/ TickSuppressed \/ TickEnds PROVE TracingInv'
  OBVIOUS
<1> USE DEF TracingInv
<1>1. UNCHANGED <<tcSampler, tcCaller, tcHits, tcSpans, tcEvent>>
  BY DEF RequestEnds, TickSuppressed, TickEnds
<1>2. Spans' = Spans /\ FreshTrace' = FreshTrace
  BY <1>1 DEF Spans, FreshTrace
<1> DEFINE idle == Suppress(Background)
<1>3. idle \in Contexts
  BY NoSpanType DEF Suppress, Background, Context, Contexts
<1>4. /\ tcRequest' \in {tcRequest, NoContext} /\ tcTick' \in {tcTick, NoContext, idle}
      /\ tcEcho' \in {tcEcho, NoSpan} /\ (tcRequest' # tcRequest => tcEcho' = NoSpan)
  BY DEF RequestEnds, TickSuppressed, TickEnds
<1>5. idle.sc = NoSpan /\ idle.mark
  BY DEF Suppress, Background, Context
<1> HIDE DEF idle
<1>6. TracingTypes'
  BY <1>1, <1>3, <1>4, NoSpanType DEF TracingTypes, Traces
<1>7. ContextsInv'
  <2>1. Circulating' \subseteq Circulating \cup {NoSpan}
    <3>1. {d.sc : d \in {tcRequest', tcTick'} \ {NoContext}}
            \subseteq {d.sc : d \in {tcRequest, tcTick} \ {NoContext}} \cup {NoSpan}
      BY <1>4, <1>5
    <3> QED
      BY <1>1, <1>2, <3>1 DEF Circulating, NoContext
  <2>2. tcCaller \in Circulating /\ Alike(tcCaller, tcCaller)
    BY DEF Circulating, Alike
  <2>3. \A a \in Circulating' : IsValid(a) => Alike(a, tcCaller) \/ \E b \in Circulating : Alike(a, b)
    BY <2>1, NoSpanType DEF Alike
  <2>4. tcCaller.trace < FreshTrace' /\ FreshTrace <= FreshTrace'
    BY <1>2, <2>2, SMT DEF ContextsInv, TracingTypes, FreshTrace
  <2>5. /\ \A a \in Circulating' : a.trace < FreshTrace'
        /\ AllParentBased' => OneTraceOneDecision(Circulating')
    BY <1>1, <1>6, <2>2, <2>3, <2>4, ContextsStep
  <2>6. tcCaller'.remote /\ (tcRequest' # NoContext => ~tcRequest'.mark)
    BY <1>1, <1>4 DEF ContextsInv
  <2>7. tcTick' # NoContext => (tcTick'.mark => tcTick'.sc = NoSpan)
    BY <1>4, <1>5, SMT DEF ContextsInv
  <2> QED
    BY <2>5, <2>6, <2>7 DEF ContextsInv
<1>8. EventInv' /\ EventKeepsItsTrace' /\ SpansInv'
  BY <1>1, <1>2 DEF EventInv, EventKeepsItsTrace, SpansInv
<1>9. EchoInv'
  BY <1>2, <1>4, NoSpanType DEF EchoInv
<1> QED
  BY <1>6, <1>7, <1>8, <1>9

\* A traced tick starts a trace of its own.
LEMMA TickTracedKeeps == TracingInv /\ TickTraced => TracingInv'
<1> SUFFICES ASSUME TracingInv, TickTraced PROVE TracingInv'
  OBVIOUS
<1> USE DEF TracingInv
<1> DEFINE c == Unsuppress(Background)
           sc == StartSpan("api", c, TRUE)
           span == [kind |-> "tick", under |-> "tick", sc |-> sc]
<1>1. /\ Started("api", sc, "tick", "tick") /\ tcTick' = Context(sc, FALSE)
      /\ UNCHANGED <<tcSampler, tcCaller, tcHits, tcRequest, tcEcho, tcEvent>>
  BY DEF TickTraced
<1>2. c \in Contexts /\ c.sc = NoSpan /\ ~c.mark
  BY NoSpanType DEF Unsuppress, Background, Context, Contexts
<1> HIDE DEF c
<1>3. /\ sc \in SpanContexts
      /\ tcSpans' \in Seq(SpanRecords)
      /\ FreshTrace <= FreshTrace' /\ sc.trace < FreshTrace'
      /\ Spans' = IF tcSampler["api"] = "no_sdk" THEN Spans ELSE Spans \cup {span}
      /\ AllParentBased =>
           (\A b \in Circulating : b.trace # sc.trace) \/ (\E b \in Circulating : Alike(sc, b))
      /\ Spans' # Spans => IsValid(sc)
  <2>1. "api" \in Process /\ "tick" \in SpanKinds /\ "tick" \in SpanUnders
    BY DEF Process, SpanKinds, SpanUnders
  <2> QED
    BY <1>1, <1>2, <2>1, NoSpanType, SpanStarts
<1> HIDE DEF sc
<1>4. span.kind = "tick" /\ span.under = "tick" /\ span.sc = sc
  OBVIOUS
<1> HIDE DEF span
<1>5. tcTick' \in Contexts /\ tcTick'.sc = sc /\ ~tcTick'.mark
  BY <1>1, <1>3 DEF Context, Contexts
<1>6. TracingTypes'
  BY <1>1, <1>3, <1>5 DEF TracingTypes, Traces
<1>7. ContextsInv'
  <2>1. Circulating' \subseteq Circulating \cup {sc}
    <3>1. {s.sc : s \in Spans'} \subseteq {s.sc : s \in Spans} \cup {sc}
      BY <1>3, <1>4
    <3>2. {d.sc : d \in {tcRequest', tcTick'} \ {NoContext}}
            \subseteq {d.sc : d \in {tcRequest, tcTick} \ {NoContext}} \cup {sc}
      BY <1>1, <1>5
    <3> QED
      BY <1>1, <3>1, <3>2 DEF Circulating, NoContext
  <2>2. \A a \in Circulating' : IsValid(a) => Alike(a, sc) \/ \E b \in Circulating : Alike(a, b)
    BY <2>1 DEF Alike
  <2> QED
    BY <1>1, <1>3, <1>5, <1>6, <2>2, ContextsStep DEF ContextsInv
<1>8. EventInv' /\ EventKeepsItsTrace' /\ SpansInv'
  <2>1. Spans' \subseteq Spans \cup {span}
    BY <1>3
  <2> QED
    BY <1>1, <1>3, <1>4, <2>1, PlainSpan
<1>9. EchoInv'
  <2>1. Spans \subseteq Spans'
    BY <1>3
  <2> QED
    BY <1>1, <2>1, EchoKept
<1> QED
  BY <1>6, <1>7, <1>8, <1>9

\* A publish: its span and the headers the message leaves with.
LEMMA ProcessorHandleKeeps == TracingInv /\ ProcessorHandle => TracingInv'
<1> SUFFICES ASSUME TracingInv, ProcessorHandle PROVE TracingInv'
  OBVIOUS
<1> USE DEF TracingInv
<1> DEFINE h == tcEvent.headers
           c == SendParent(Unsuppress(tcTick), h)
           sc == StartSpan("api", c, FALSE)
           span == [kind |-> "send", under |-> "item", sc |-> sc]
<1>1. /\ tcTick # NoContext /\ tcEvent.state = "task"
      /\ Started("api", sc, "send", "item")
      /\ UNCHANGED <<tcSampler, tcCaller, tcHits, tcRequest, tcEcho, tcTick>>
      /\ \/ tcEvent' = [tcEvent EXCEPT !.state = "message", !.sent = sc, !.headers = SendHeaders(h, sc)]
         \/ UNCHANGED tcEvent
  BY DEF ProcessorHandle
<1>2. tcTick \in Contexts /\ h \in SpanContexts /\ tcEvent.created = h /\ tcEvent \in EventRecords
  BY <1>1 DEF TracingTypes, EventRecords, EventInv
<1>3. Unsuppress(tcTick) \in Contexts /\ Unsuppress(tcTick).sc = tcTick.sc /\ Unsuppress(tcTick).mark = FALSE
  BY <1>2 DEF Unsuppress, Contexts
<1>4. /\ c \in Contexts /\ ~c.mark
      /\ IsValid(h) => Alike(c.sc, h)
      /\ ~IsValid(h) => c.sc = tcTick.sc
  <2>1. CASE IsValid(h)
    <3>1. c = [sc |-> Extract(h), mark |-> FALSE]
      BY <1>2, <1>3, <2>1, ExtractAlike DEF SendParent, Context
    <3> QED
      BY <1>2, <2>1, <3>1, ExtractAlike, SMT DEF Contexts
  <2>2. CASE ~IsValid(h)
    BY <1>2, <1>3, <2>2, ExtractAlike DEF SendParent
  <2> QED
    BY <2>1, <2>2
<1> HIDE DEF c
<1>5. h \in Circulating /\ tcTick.sc \in Circulating
  BY <1>1 DEF Circulating
<1>6. \E b \in Circulating : Alike(c.sc, b)
  BY <1>4, <1>5 DEF Alike
<1>7. /\ sc \in SpanContexts
      /\ tcSpans' \in Seq(SpanRecords)
      /\ FreshTrace <= FreshTrace' /\ sc.trace < FreshTrace'
      /\ Spans' = IF tcSampler["api"] = "no_sdk" THEN Spans ELSE Spans \cup {span}
      /\ AllParentBased =>
           (\A b \in Circulating : b.trace # sc.trace) \/ (\E b \in Circulating : Alike(sc, b))
      /\ Spans' # Spans => IsValid(sc)
  <2>1. "api" \in Process /\ "send" \in SpanKinds /\ "item" \in SpanUnders
    BY DEF Process, SpanKinds, SpanUnders
  <2> QED
    BY <1>1, <1>4, <1>6, <2>1, SpanStarts
<1>8. IsValid(h) => sc.trace = h.trace
  <2>1. Len(tcSpans) < MaxSpans /\ "api" \in Process
    BY <1>1 DEF Started, Process
  <2>2. IsValid(c.sc) => sc.trace = c.sc.trace
    BY <1>4, <2>1, StartSpanFacts
  <2> QED
    BY <1>4, <2>2 DEF Alike, IsValid
<1> HIDE DEF sc
<1>9. span.kind = "send" /\ span.under = "item" /\ span.sc = sc
  OBVIOUS
<1> HIDE DEF span
<1>10. /\ SendHeaders(h, sc) \in SpanContexts /\ SendHeaders(h, sc).trace = sc.trace
       /\ IsValid(h) => SendHeaders(h, sc) = h
       /\ ~IsValid(h) => Alike(SendHeaders(h, sc), sc)
  <2>1. CASE IsValid(h)
    BY <1>2, <1>8, <2>1, ExtractAlike DEF SendHeaders
  <2>2. CASE ~IsValid(h)
    <3>1. Context(sc, FALSE) \in Contexts /\ Context(sc, FALSE).sc = sc
      BY <1>7 DEF Context, Contexts
    <3>2. SendHeaders(h, sc) = Carrier(Context(sc, FALSE))
      BY <1>2, <2>2, ExtractAlike DEF SendHeaders
    <3> QED
      BY <2>2, <3>1, <3>2, CarrierAlike DEF Alike
  <2> QED
    BY <2>1, <2>2
<1>11. \/ /\ tcEvent'.state = "message" /\ tcEvent'.sent = sc /\ tcEvent'.headers = SendHeaders(h, sc)
          /\ tcEvent'.created = h /\ tcEvent' \in EventRecords
       \/ tcEvent' = tcEvent
  BY <1>1, <1>2, <1>7, <1>10 DEF EventRecords
<1>12. TracingTypes'
  BY <1>1, <1>7, <1>11 DEF TracingTypes, Traces
<1>13. ContextsInv'
  <2>1. tcEvent'.headers = h \/ Alike(tcEvent'.headers, sc)
    BY <1>10, <1>11
  <2>2. Circulating' \subseteq Circulating \cup {sc, tcEvent'.headers}
    <3>1. {s.sc : s \in Spans'} \subseteq {s.sc : s \in Spans} \cup {sc}
      BY <1>7, <1>9
    <3> QED
      BY <1>1, <3>1 DEF Circulating, NoContext
  <2>3. \A a \in Circulating' : IsValid(a) => Alike(a, sc) \/ \E b \in Circulating : Alike(a, b)
    BY <1>5, <2>1, <2>2 DEF Alike
  <2> QED
    BY <1>1, <1>7, <1>12, <2>3, ContextsStep DEF ContextsInv
<1>14. Spans' \subseteq Spans \cup {span} /\ Spans \subseteq Spans'
  BY <1>7
<1>15. \A s \in Spans' : s.kind # "process"
  BY <1>1, <1>9, <1>14 DEF EventInv
<1>16. EventInv'
  BY <1>1, <1>2, <1>10, <1>11, <1>15 DEF EventInv
<1>17. EventKeepsItsTrace'
  BY <1>1, <1>2, <1>8, <1>9, <1>11, <1>14, <1>15, SMT DEF EventKeepsItsTrace
<1>18. SpansInv'
  BY <1>7, <1>9, <1>14 DEF SpansInv
<1>19. EchoInv'
  BY <1>1, <1>14, EchoKept
<1> QED
  BY <1>12, <1>13, <1>16, <1>17, <1>18, <1>19

\* A handling of the message, in the other process.
LEMMA ConsumeKeeps == TracingInv /\ Consume => TracingInv'
<1> SUFFICES ASSUME TracingInv, Consume PROVE TracingInv'
  OBVIOUS
<1> USE DEF TracingInv
<1> DEFINE h == tcEvent.headers
           c == ProcessParent(Background, h)
           sc == StartSpan("sub", c, FALSE)
           span == [kind |-> "process", under |-> "message", sc |-> sc]
<1>1. /\ tcEvent.state = "message"
      /\ Started("sub", sc, "process", "message")
      /\ UNCHANGED <<tcSampler, tcCaller, tcHits, tcRequest, tcEcho, tcTick>>
      /\ tcEvent' \in {tcEvent, [tcEvent EXCEPT !.state = "done"]}
  BY DEF Consume
<1>2. h \in SpanContexts /\ h.trace = tcEvent.sent.trace /\ (IsValid(tcEvent.created) => h = tcEvent.created)
  BY <1>1 DEF TracingTypes, EventRecords, EventInv
<1>3. Background \in Contexts /\ Background.sc = NoSpan /\ Background.mark = FALSE
  BY NoSpanType DEF Background, Context, Contexts
<1>4. /\ c \in Contexts /\ ~c.mark
      /\ IsValid(h) => Alike(c.sc, h)
      /\ ~IsValid(h) => c.sc = NoSpan
  <2>1. CASE IsValid(h)
    <3>1. c = [sc |-> Extract(h), mark |-> FALSE]
      BY <1>2, <1>3, <2>1, ExtractAlike DEF ProcessParent, Context
    <3> QED
      BY <1>2, <2>1, <3>1, ExtractAlike, SMT DEF Contexts
  <2>2. CASE ~IsValid(h)
    BY <1>2, <1>3, <2>2, ExtractAlike DEF ProcessParent
  <2> QED
    BY <2>1, <2>2
<1> HIDE DEF c
<1>5. h \in Circulating
  BY DEF Circulating
<1>6. IsValid(c.sc) => \E b \in Circulating : Alike(c.sc, b)
  BY <1>4, <1>5, NoSpanType
<1>7. /\ sc \in SpanContexts
      /\ tcSpans' \in Seq(SpanRecords)
      /\ FreshTrace <= FreshTrace' /\ sc.trace < FreshTrace'
      /\ Spans' = IF tcSampler["sub"] = "no_sdk" THEN Spans ELSE Spans \cup {span}
      /\ AllParentBased =>
           (\A b \in Circulating : b.trace # sc.trace) \/ (\E b \in Circulating : Alike(sc, b))
      /\ Spans' # Spans => IsValid(sc)
  <2>1. "sub" \in Process /\ "process" \in SpanKinds /\ "message" \in SpanUnders
    BY DEF Process, SpanKinds, SpanUnders
  <2> QED
    BY <1>1, <1>4, <1>6, <2>1, SpanStarts
<1>8. IsValid(h) => sc.trace = h.trace
  <2>1. Len(tcSpans) < MaxSpans /\ "sub" \in Process
    BY <1>1 DEF Started, Process
  <2>2. IsValid(c.sc) => sc.trace = c.sc.trace
    BY <1>4, <2>1, StartSpanFacts
  <2> QED
    BY <1>4, <2>2 DEF Alike, IsValid
<1> HIDE DEF sc
<1>9. span.kind = "process" /\ span.under = "message" /\ span.sc = sc
  OBVIOUS
<1> HIDE DEF span
<1>10. /\ tcEvent'.state \in {"message", "done"} /\ tcEvent'.headers = h
       /\ tcEvent'.created = tcEvent.created /\ tcEvent'.sent = tcEvent.sent /\ tcEvent' \in EventRecords
  BY <1>1 DEF TracingTypes, EventRecords
<1>11. TracingTypes'
  BY <1>1, <1>7, <1>10 DEF TracingTypes, Traces
<1>12. ContextsInv'
  <2>1. Circulating' \subseteq Circulating \cup {sc}
    <3>1. {s.sc : s \in Spans'} \subseteq {s.sc : s \in Spans} \cup {sc}
      BY <1>7, <1>9
    <3> QED
      BY <1>1, <1>10, <3>1 DEF Circulating, NoContext
  <2>2. \A a \in Circulating' : IsValid(a) => Alike(a, sc) \/ \E b \in Circulating : Alike(a, b)
    BY <2>1 DEF Alike
  <2> QED
    BY <1>1, <1>7, <1>11, <2>2, ContextsStep DEF ContextsInv
<1>13. Spans' \subseteq Spans \cup {span} /\ Spans \subseteq Spans'
  BY <1>7
<1>14. EventInv'
  BY <1>2, <1>10 DEF EventInv
<1>15. EventKeepsItsTrace'
  BY <1>2, <1>8, <1>9, <1>10, <1>13 DEF EventKeepsItsTrace, IsValid
<1>16. SpansInv'
  BY <1>7, <1>9, <1>13 DEF SpansInv
<1>17. EchoInv'
  BY <1>1, <1>13, EchoKept
<1> QED
  BY <1>11, <1>12, <1>14, <1>15, <1>16, <1>17

\* For any number of spans and any samplers: idle polls export nothing, an event
\* stays in the trace it was created in through task, publish and handling, a
\* trace has one sampling decision under parent-based samplers, and a response
\* names the server span of this process.
THEOREM TracingHolds == TracingSpec => []TracingSafety
<1>1. TracingInv => TracingSafety
  <2> SUFFICES ASSUME TracingInv PROVE TracingSafety
    OBVIOUS
  <2>1. TracingTypeOK
    BY DEF TracingInv, TracingTypes, TracingTypeOK, SpanContexts, Contexts, SpanKinds, SpanUnders,
           SpanRecords, EventRecords
  <2>2. OneDecision
    <3> SUFFICES ASSUME AllParentBased, NEW s \in Spans, NEW t \in Spans, s.sc.trace = t.sc.trace
                 PROVE  s.sc.sampled = t.sc.sampled
      BY Zenon DEF OneDecision, AllParentBased
    <3>1. s.sc \in Circulating /\ t.sc \in Circulating
      BY DEF Circulating
    <3>2. IsValid(s.sc)
      BY DEF TracingInv, SpansInv
    <3> QED
      BY <3>1, <3>2 DEF TracingInv, ContextsInv, OneTraceOneDecision
  <2>3. ResponseNamesOurSpan
    BY DEF TracingInv, EchoInv, ResponseNamesOurSpan
  <2> QED
    BY <2>1, <2>2, <2>3 DEF TracingInv, SpansInv, IdlePollsAreSilent, TracingSafety
<1>2. TracingInv /\ [TracingNext]_tcVars => TracingInv'
  <2> SUFFICES ASSUME TracingInv, [TracingNext]_tcVars PROVE TracingInv'
    OBVIOUS
  <2>1. CASE UNCHANGED tcVars
    <3>1. TracingTypes'
      BY <2>1 DEF tcVars, TracingInv, TracingTypes, Traces
    <3>2. Spans' = Spans /\ FreshTrace' = FreshTrace
      BY <2>1 DEF tcVars, Spans, FreshTrace
    <3>3. ContextsInv'
      BY <2>1, <3>2 DEF tcVars, TracingInv, ContextsInv, Circulating, AllParentBased
    <3>4. EventInv' /\ EchoInv' /\ SpansInv' /\ EventKeepsItsTrace'
      BY <2>1, <3>2 DEF tcVars, TracingInv, EventInv, EchoInv, SpansInv, EventKeepsItsTrace
    <3> QED
      BY <3>1, <3>3, <3>4 DEF TracingInv
  <2> QED
    BY <2>1, RequestKeeps, ScheduleEventKeeps, QueriesKeep, NoSpanKeeps, TickTracedKeeps,
       ProcessorHandleKeeps, ConsumeKeeps DEF TracingNext
<1> QED
  BY <1>1, <1>2, TracingInitially, PTL DEF TracingSpec

-----------------------------------------------------------------------------
(* The servers                                                             *)

\* The part of TypeOK that does not count dependencies.
Shapes ==
  /\ svMain \in {"init", "run", "stopGrpc", "stopHttp", "wait", "close", "done"}
  /\ svHttp \in [start : Starts, open : Opens]
  /\ svGrpc \in [start : Starts, open : Opens]
  /\ svReq \in [Req -> [server : {"http", "grpc"}, state : {"none", "active", "done", "cut"}]]

\* A handler runs on a server that has served and is not closed.
Served(srv) == srv.start \in {"serving", "returned"} /\ srv.open # "closed"
ServedInv ==
  \A r \in Req : svReq[r].state = "active" =>
    IF svReq[r].server = "http" THEN Served(svHttp) ELSE Served(svGrpc)

Accepts(srv) == srv.start = "serving" /\ srv.open = "open"

\* How far app.Run is, seen at the servers.
PhaseInv ==
  /\ svMain = "init" => svHttp.start = "new" /\ svGrpc.start = "new"
  /\ svMain \in {"stopHttp", "wait"} => svGrpc.open = "closed"
  /\ svMain = "wait" => svHttp.open = "closed"
  /\ svMain \in {"close", "done"} => ~Accepts(svHttp) /\ ~Accepts(svGrpc)

ServersInv == Shapes /\ ServedInv /\ PhaseInv /\ DepsOutliveRequests

\* A service that starts serves nothing.
LEMMA ServersInit == Init => ServersInv
<1> SUFFICES ASSUME Init PROVE ServersInv
  OBVIOUS
<1>1. Shapes
  BY SMT DEF Init, Shapes, Starts, Opens
<1>2. ServedInv /\ PhaseInv /\ DepsOutliveRequests
  BY SMT DEF Init, ServedInv, PhaseInv, Accepts, DepsOutliveRequests
<1> QED
  BY <1>1, <1>2 DEF ServersInv

\* The dependencies are built, and a failure to build one leaves nothing served.
LEMMA InitDepsInv ==
  ASSUME ServersInv, InitDeps
  PROVE  ServersInv'
<1> USE DEF ServersInv
<1>1. Shapes' /\ ServedInv'
  BY DEF InitDeps, Shapes, ServedInv
<1>2. PhaseInv' /\ DepsOutliveRequests'
  <2>1. \A r \in Req : svReq[r].state # "active"
    BY DEF InitDeps, PhaseInv, ServedInv, Served, Shapes
  <2> QED
    BY <2>1 DEF InitDeps, PhaseInv, Accepts, DepsOutliveRequests
<1> QED
  BY <1>1, <1>2

\* The goroutines of the servers start, fail to listen and return.
LEMMA StartInv ==
  ASSUME ServersInv, HttpStart \/ GrpcStart \/ ListenFails \/ StartReturns
  PROVE  ServersInv'
<1> USE DEF ServersInv
<1>1. CASE HttpStart
  BY <1>1, SMT DEF HttpStart, Running, Shapes, Starts, ServedInv, Served, PhaseInv, Accepts, DepsOutliveRequests
<1>2. CASE GrpcStart
  BY <1>2, SMT DEF GrpcStart, Running, Shapes, Starts, ServedInv, Served, PhaseInv, Accepts, DepsOutliveRequests
<1>3. CASE ListenFails
  BY <1>3, SMT DEF ListenFails, Running, Shapes, Starts, ServedInv, Served, PhaseInv, Accepts, DepsOutliveRequests
<1>4. CASE StartReturns
  BY <1>4, SMT DEF StartReturns, Shapes, Starts, ServedInv, Served, PhaseInv, Accepts, DepsOutliveRequests
<1> QED
  BY <1>1, <1>2, <1>3, <1>4

\* A request arrives only at a server that accepts, and none does when the
\* cleanups run.
LEMMA RequestInv ==
  ASSUME ServersInv, NEW r \in Req, Arrive(r) \/ Answer(r)
  PROVE  ServersInv'
<1> USE DEF ServersInv
<1>1. CASE Arrive(r)
  BY <1>1, SMT DEF Arrive, Shapes, ServedInv, Served, PhaseInv, Accepts, DepsOutliveRequests
<1>2. CASE Answer(r)
  BY <1>2, SMT DEF Answer, Shapes, ServedInv, PhaseInv, DepsOutliveRequests
<1> QED
  BY <1>1, <1>2

\* A Stop returns with nothing in flight, drained or cut.
LEMMA StopInv ==
  ASSUME ServersInv, Signal \/ GrpcStop \/ HttpStop \/ Tick \/ GrpcStopped \/ HttpStopped
  PROVE  ServersInv'
<1> USE DEF ServersInv
<1>1. CASE Signal \/ Tick
  BY <1>1, SMT DEF Signal, Tick, Shapes, ServedInv, PhaseInv, DepsOutliveRequests
<1>2. CASE GrpcStop \/ HttpStop
  BY <1>2, SMT DEF GrpcStop, HttpStop, Shapes, Opens, ServedInv, Served, PhaseInv, Accepts, DepsOutliveRequests
<1>3. CASE GrpcStopped
  BY <1>3, SMT DEF GrpcStopped, CutAll, InFlight, Shapes, Opens, ServedInv, Served, PhaseInv, Accepts, DepsOutliveRequests
<1>4. CASE HttpStopped
  BY <1>4, SMT DEF HttpStopped, CutAll, InFlight, Shapes, Opens, ServedInv, Served, PhaseInv, Accepts, DepsOutliveRequests
<1> QED
  BY <1>1, <1>2, <1>3, <1>4

\* The closer runs after both servers are closed.
LEMMA CloseInv ==
  ASSUME ServersInv, Wait \/ CloseSync
  PROVE  ServersInv'
<1> USE DEF ServersInv
<1>1. CASE Wait
  BY <1>1, SMT DEF Wait, Shapes, ServedInv, Served, PhaseInv, Accepts, DepsOutliveRequests
<1>2. CASE CloseSync
  BY <1>2, SMT DEF CloseSync, Shapes, ServedInv, PhaseInv, DepsOutliveRequests
<1> QED
  BY <1>1, <1>2

\* Every step of the service keeps the invariant.
LEMMA ServersStep == ServersInv /\ [Next]_svVars => ServersInv'
<1> SUFFICES ASSUME ServersInv, [Next]_svVars PROVE ServersInv'
  OBVIOUS
<1>1. CASE UNCHANGED svVars
  BY <1>1 DEF svVars, ServersInv, Shapes, ServedInv, PhaseInv, DepsOutliveRequests
<1>2. CASE Next
  BY <1>2, InitDepsInv, StartInv, RequestInv, StopInv, CloseInv DEF Next
<1> QED
  BY <1>1, <1>2

\* The invariant holds from the start.
LEMMA ServersAlways == Spec => []ServersInv
BY ServersInit, ServersStep, PTL DEF Spec

\* No dependency is released under a request that was neither answered nor cut,
\* whichever way the service goes down (app.Run, Group.Run, closer.CloseSync).
THEOREM ServersDeps == Spec => []DepsOutliveRequests
<1>1. ServersInv => DepsOutliveRequests
  BY DEF ServersInv
<1> QED
  BY <1>1, ServersAlways, PTL

\* A request is cut only after the timer of its server's Stop ran out, and a
\* server that was stopped first never serves (httpserver.Stop, grpcserver.Stop
\* and the Starts they race).
THEOREM ServersGraceful == Spec => StopIsGraceful
<1>1. ServersInv /\ [Next]_svVars => [CutOnlyLate]_svVars
  <2> SUFFICES ASSUME ServersInv, Next, NEW r \in Req, svReq[r].state = "active", svReq'[r].state = "cut"
               PROVE  svTimer = 0
    BY DEF CutOnlyLate
  <2>1. CASE GrpcStopped \/ HttpStopped
    BY <2>1 DEF GrpcStopped, HttpStopped
  <2>2. CASE \E q \in Req : Arrive(q) \/ Answer(q)
    BY <2>2, SMT DEF Arrive, Answer, ServersInv, Shapes
  <2> QED
    BY <2>1, <2>2 DEF Next, InitDeps, HttpStart, GrpcStart, ListenFails, StartReturns, Signal, GrpcStop,
                      HttpStop, Tick, Wait, CloseSync
<1>2. ServersInv /\ [Next]_svVars => [NoServeAfterStop]_svVars
  <2> SUFFICES ASSUME ServersInv, Next PROVE NoServeAfterStop
    OBVIOUS
  <2>1. CASE HttpStart \/ GrpcStart
    BY <2>1 DEF HttpStart, GrpcStart, NoServeAfterStop, ServersInv, Shapes
  <2>2. CASE ListenFails \/ StartReturns \/ GrpcStop \/ GrpcStopped \/ HttpStop \/ HttpStopped
    BY <2>2 DEF ListenFails, StartReturns, GrpcStop, GrpcStopped, HttpStop, HttpStopped,
                NoServeAfterStop, ServersInv, Shapes
  <2> QED
    BY <2>1, <2>2 DEF Next, InitDeps, Arrive, Answer, Signal, Tick, Wait, CloseSync, NoServeAfterStop
<1>3. ServersInv /\ [Next]_svVars => [CutOnlyLate /\ NoServeAfterStop]_svVars
  BY <1>1, <1>2
<1> QED
  BY <1>3, ServersAlways, PTL DEF Spec, StopIsGraceful

-----------------------------------------------------------------------------
(* The closer                                                              *)

BuiltStates == {"no", "factory", "built", "failed"}
CloserStates == {"new", "inside", "returned"}
Bodies == [mode : {"none", "sync", "async"}, live : SUBSET Resource, waiting : Seq(Resource),
           running : SUBSET Resource]

CloserTypes ==
  /\ built \in [Resource -> BuiltStates]
  /\ cleanupFn \subseteq Resource /\ toreDown \subseteq Resource
  /\ fns \in Seq(Resource) /\ added \in Seq(Resource) /\ started \in Seq(Resource)
  /\ closed \in BOOLEAN
  /\ once \in Closing \cup {"free", "done"}
  /\ body \in Bodies
  /\ closers \in [Closing -> CloserStates]

\* A resource that is built has its teardown recorded.
BuiltInv == \A r \in Resource : built[r] = "built" => r \in cleanupFn

\* Before the once nothing is closed; after it nothing waits or runs; and the
\* only closer inside is the one that runs its body.
OnceInv ==
  /\ once = "free" => /\ ~closed /\ fns = added /\ started = <<>>
                      /\ body.mode = "none" /\ body.waiting = <<>> /\ body.running = {}
                      /\ \A g \in Closing : closers[g] = "new"
  /\ once # "free" => closed /\ fns = <<>>
  /\ once = "done" => body.waiting = <<>> /\ body.running = {}
  /\ \A g \in Closing : /\ closers[g] = "inside" => once = g
                        /\ closers[g] = "returned" => once = "done"

\* A handler of the close waits, runs, or has torn down what was built.
TornInv ==
  /\ body.live \subseteq cleanupFn
  /\ once # "free" =>
       \A r \in Range(added) : \/ r \in Range(body.waiting) \/ r \in body.running
                               \/ r \in body.live => r \in toreDown

\* CloseSync runs one handler at a time, last registered first.
LifoInv ==
  body.mode = "sync" => /\ started \o body.waiting = ReverseHandlers(added)
                        /\ body.running = {} \/ \E r \in Resource : body.running = {r}

CloserInv == CloserTypes /\ BuiltInv /\ OnceInv /\ TornInv /\ LifoInv

\* A reversed sequence has the same elements.
LEMMA ReverseHas ==
  ASSUME NEW q \in Seq(Resource)
  PROVE  ReverseHandlers(q) \in Seq(Resource) /\ Range(q) \subseteq Range(ReverseHandlers(q)) /\ <<>> \o ReverseHandlers(q) = ReverseHandlers(q)
<1>1. Len(q) \in Nat /\ DOMAIN q = 1 .. Len(q) /\ \A i \in 1 .. Len(q) : q[i] \in Resource
  BY SMT
<1>2. \A i \in 1 .. Len(q) : (Len(q) - i) + 1 \in 1 .. Len(q) /\ (Len(q) - ((Len(q) - i) + 1)) + 1 = i
  BY <1>1, SMT
<1>3. ReverseHandlers(q) = [i \in 1 .. Len(q) |-> q[(Len(q) - i) + 1]]
  BY DEF ReverseHandlers
<1>4. \A n \in Nat : \A f \in [1 .. n -> Resource] : f \in Seq(Resource) /\ <<>> \o f = f
  BY SMT
<1>5. ReverseHandlers(q) \in [1 .. Len(q) -> Resource]
  BY <1>1, <1>2, <1>3
<1>6. ReverseHandlers(q) \in Seq(Resource) /\ <<>> \o ReverseHandlers(q) = ReverseHandlers(q)
  BY <1>1, <1>4, <1>5
<1>7. \A j \in 1 .. Len(q) : ReverseHandlers(q)[j] = q[(Len(q) - j) + 1]
  BY <1>3
<1>8. Range(q) \subseteq Range(ReverseHandlers(q))
  <2>1. DOMAIN ReverseHandlers(q) = 1 .. Len(q)
    BY <1>3
  <2>2. ASSUME NEW i \in 1 .. Len(q) PROVE \E j \in 1 .. Len(q) : ReverseHandlers(q)[j] = q[i]
    <3>1. PICK j \in 1 .. Len(q) : (Len(q) - j) + 1 = i
      BY <1>2
    <3> QED
      BY <1>7, <3>1
  <2> QED
    BY <1>1, <2>1, <2>2 DEF Range
<1> QED
  BY <1>6, <1>8

\* The elements of a concatenation.
LEMMA ConcatAt ==
  ASSUME NEW x \in Seq(Resource), NEW y \in Seq(Resource)
  PROVE  /\ x \o y \in Seq(Resource) /\ Len(x \o y) = Len(x) + Len(y)
         /\ DOMAIN (x \o y) = 1 .. Len(x) + Len(y)
         /\ \A j \in 1 .. Len(x) + Len(y) : (x \o y)[j] = IF j <= Len(x) THEN x[j] ELSE y[j - Len(x)]
BY SMT

\* What is left when one element is taken out of a sequence.
LEMMA WithoutLeaves ==
  ASSUME NEW w \in Seq(Resource), NEW i \in DOMAIN w
  PROVE  /\ Without(w, i) \in Seq(Resource)
         /\ Range(w) \subseteq Range(Without(w, i)) \cup {w[i]}
<1> DEFINE a == SubSeq(w, 1, i - 1)
           b == SubSeq(w, i + 1, Len(w))
<1>1. Len(w) \in Nat /\ i \in 1 .. Len(w) /\ DOMAIN w = 1 .. Len(w)
  BY SMT
<1>2. /\ a \in Seq(Resource) /\ b \in Seq(Resource) /\ Len(a) = i - 1 /\ Len(b) = Len(w) - i
      /\ \A j \in 1 .. i - 1 : a[j] = w[j]
      /\ \A j \in 1 .. Len(w) - i : b[j] = w[j + i]
  BY <1>1, SMT
<1> HIDE DEF a, b
<1> DEFINE u == a \o b
<1>3. /\ u \in Seq(Resource) /\ DOMAIN u = 1 .. Len(a) + Len(b)
      /\ \A j \in 1 .. Len(a) + Len(b) : u[j] = IF j <= Len(a) THEN a[j] ELSE b[j - Len(a)]
  BY <1>2, ConcatAt
<1> HIDE DEF u
<1>4. /\ DOMAIN u = 1 .. Len(w) - 1
      /\ \A j \in 1 .. i - 1 : u[j] = a[j]
      /\ \A j \in i .. Len(w) - 1 : u[j] = b[j - (i - 1)]
  <2>1. Len(a) + Len(b) = Len(w) - 1 /\ Len(a) = i - 1
    BY <1>1, <1>2, SMT
  <2>2. \A j \in 1 .. i - 1 : j \in 1 .. Len(w) - 1 /\ j <= i - 1
    BY <1>1, SMT
  <2>3. \A j \in i .. Len(w) - 1 : j \in 1 .. Len(w) - 1 /\ ~(j <= i - 1)
    BY <1>1, SMT
  <2>4. \A j \in 1 .. Len(w) - 1 : u[j] = IF j <= i - 1 THEN a[j] ELSE b[j - (i - 1)]
    BY <1>3, <2>1
  <2> QED
    BY <1>3, <2>1, <2>2, <2>3, <2>4
<1>5. Without(w, i) = u
  BY DEF Without, a, b, u
<1>6. ASSUME NEW j \in 1 .. Len(w), j # i PROVE w[j] \in Range(u)
  <2>1. CASE j < i
    <3>1. j \in 1 .. i - 1 /\ j \in 1 .. Len(w) - 1
      BY <1>1, <2>1, SMT
    <3>2. u[j] = w[j]
      BY <1>2, <1>4, <3>1
    <3> QED
      BY <1>4, <3>1, <3>2 DEF Range
  <2>2. CASE ~(j < i)
    <3>1. /\ j - 1 \in i .. Len(w) - 1 /\ j - 1 \in 1 .. Len(w) - 1
          /\ (j - 1) - (i - 1) = j - i /\ j - i \in 1 .. Len(w) - i /\ (j - i) + i = j
      BY <1>1, <1>6, <2>2, SMT
    <3>2. u[j - 1] = w[j]
      BY <1>2, <1>4, <3>1
    <3> QED
      BY <1>4, <3>1, <3>2 DEF Range
  <2> QED
    BY <2>1, <2>2
<1>7. Range(w) \subseteq Range(u) \cup {w[i]}
  BY <1>1, <1>6 DEF Range
<1> QED
  BY <1>5, <1>7, <1>3

\* The first element moves from the front of what waits to the end of what ran.
LEMMA FirstMoves ==
  ASSUME NEW q \in Seq(Resource), NEW w \in Seq(Resource), 1 \in DOMAIN w
  PROVE  Append(q, w[1]) \o Without(w, 1) = q \o w
<1>1. Len(w) \in Nat /\ Len(w) >= 1
  BY SMT
<1>2. Without(w, 1) = SubSeq(w, 1, 1 - 1) \o SubSeq(w, 1 + 1, Len(w))
  BY DEF Without
<1>3. SubSeq(w, 1, 1 - 1) \o SubSeq(w, 1 + 1, Len(w)) = Tail(w)
  BY <1>1, SMT
<1>4. Append(q, w[1]) \o Tail(w) = q \o w
  <2> DEFINE p == Append(q, w[1])
             t == Tail(w)
  <2>1. /\ p \in Seq(Resource) /\ Len(p) = Len(q) + 1 /\ p[Len(q) + 1] = w[1] /\ Len(q) \in Nat
        /\ \A j \in 1 .. Len(q) : p[j] = q[j]
        /\ t \in Seq(Resource) /\ Len(t) = Len(w) - 1 /\ \A j \in 1 .. Len(w) - 1 : t[j] = w[j + 1]
    BY <1>1, SMT
  <2> HIDE DEF p, t
  <2> DEFINE u == p \o t
             v == q \o w
  <2>2. /\ u \in Seq(Resource) /\ Len(u) = Len(p) + Len(t)
        /\ \A j \in 1 .. Len(p) + Len(t) : u[j] = IF j <= Len(p) THEN p[j] ELSE t[j - Len(p)]
    BY <2>1, ConcatAt
  <2>3. /\ v \in Seq(Resource) /\ Len(v) = Len(q) + Len(w)
        /\ \A j \in 1 .. Len(q) + Len(w) : v[j] = IF j <= Len(q) THEN q[j] ELSE w[j - Len(q)]
    BY ConcatAt
  <2> HIDE DEF u, v
  <2>4. Len(u) = Len(v)
    BY <1>1, <2>1, <2>2, <2>3, SMT
  <2>5. ASSUME NEW j \in 1 .. Len(u) PROVE u[j] = v[j]
    <3>1. j \in 1 .. Len(q) + Len(w) /\ j \in 1 .. Len(p) + Len(t)
      BY <1>1, <2>1, <2>2, SMT
    <3>2. CASE j \in 1 .. Len(q)
      <4>1. j <= Len(q) /\ j <= Len(p)
        BY <2>1, <3>2, SMT
      <4> QED
        BY <2>1, <2>2, <2>3, <3>1, <3>2, <4>1
    <3>3. CASE j = Len(q) + 1
      <4>1. ~(j <= Len(q)) /\ j <= Len(p) /\ j - Len(q) = 1
        BY <2>1, <3>3, SMT
      <4>2. u[j] = p[j] /\ v[j] = w[j - Len(q)]
        BY <2>2, <2>3, <3>1, <4>1
      <4> QED
        BY <2>1, <3>3, <4>1, <4>2
    <3>4. CASE j > Len(q) + 1
      <4>1. /\ ~(j <= Len(q)) /\ ~(j <= Len(p)) /\ j - Len(p) \in 1 .. Len(w) - 1
            /\ (j - Len(p)) + 1 = j - Len(q)
        BY <1>1, <2>1, <3>1, <3>4, SMT
      <4>2. u[j] = t[j - Len(p)] /\ v[j] = w[j - Len(q)]
        BY <2>2, <2>3, <3>1, <4>1
      <4> QED
        BY <2>1, <4>1, <4>2
    <3>5. j \in 1 .. Len(q) \/ j = Len(q) + 1 \/ j > Len(q) + 1
      BY <2>1, <3>1, SMT
    <3> QED
      BY <3>2, <3>3, <3>4, <3>5
  <2>6. \A x, y \in Seq(Resource) : Len(x) = Len(y) /\ (\A j \in 1 .. Len(x) : x[j] = y[j]) => x = y
    BY SMT
  <2>7. u = v
    BY <2>2, <2>3, <2>4, <2>5, <2>6
  <2> QED
    BY <2>7 DEF u, v, p, t
<1> QED
  BY <1>2, <1>3, <1>4

\* Nothing was built, added or closed in the beginning.
LEMMA CloserInitially == CloserInit => CloserInv
<1> SUFFICES ASSUME CloserInit PROVE CloserInv
  OBVIOUS
<1>1. <<>> \in Seq(Resource) /\ Len(<<>>) = 0 /\ DOMAIN <<>> = {}
  BY SMT
<1>2. /\ body \in Bodies /\ body.mode = "none" /\ body.live = {} /\ body.running = {}
      /\ body.waiting = <<>>
  BY <1>1 DEF CloserInit, Bodies
<1>3. CloserTypes
  BY <1>1, <1>2 DEF CloserInit, CloserTypes, BuiltStates, CloserStates
<1>4. OnceInv
  BY <1>2, CloserAssumption DEF CloserInit, OnceInv
<1>5. BuiltInv /\ TornInv /\ LifoInv
  BY <1>2 DEF CloserInit, BuiltInv, TornInv, LifoInv
<1> QED
  BY <1>3, <1>4, <1>5 DEF CloserInv

\* Building a resource leaves the close alone.
LEMMA GetKeeps ==
  ASSUME CloserInv, NEW r \in Resource, GetStarts(r) \/ GetReturns(r)
  PROVE  CloserInv'
<1>1. CloserTypes /\ BuiltInv /\ OnceInv /\ TornInv /\ LifoInv
  BY DEF CloserInv
<1>2. UNCHANGED <<fns, added, closed, once, body, started, toreDown, closers>>
  BY DEF GetStarts, GetReturns
<1>3. /\ built' \in [Resource -> BuiltStates]
      /\ cleanupFn \subseteq cleanupFn' /\ cleanupFn' \subseteq Resource
      /\ BuiltInv'
  BY <1>1 DEF CloserTypes, BuiltInv, BuiltStates, GetStarts, GetReturns
<1>4. CloserTypes'
  BY <1>1, <1>2, <1>3 DEF CloserTypes, BuiltStates, Bodies, CloserStates
<1>5. OnceInv'
  BY <1>1, <1>2 DEF OnceInv
<1>6. TornInv'
  BY <1>1, <1>2, <1>3 DEF TornInv
<1>7. LifoInv'
  BY <1>1, <1>2 DEF LifoInv
<1> QED
  BY <1>3, <1>4, <1>5, <1>6, <1>7 DEF CloserInv

\* A cleanup is registered before the close only.
LEMMA AddKeeps ==
  ASSUME CloserInv, NEW r \in Resource, Add(r)
  PROVE  CloserInv'
<1>1. CloserTypes /\ BuiltInv /\ OnceInv /\ TornInv /\ LifoInv
  BY DEF CloserInv
<1>2. UNCHANGED <<built, cleanupFn, closed, once, body, started, toreDown, closers>>
      /\ ~closed /\ fns' = Append(fns, r) /\ added' = Append(added, r)
  BY DEF Add
<1>3. once = "free" /\ fns = added
  BY <1>1, <1>2 DEF OnceInv
<1>4. \A q \in Seq(Resource) : Append(q, r) \in Seq(Resource)
  BY SMT
<1>5. CloserTypes'
  BY <1>1, <1>2, <1>4 DEF CloserTypes
<1>6. OnceInv'
  BY <1>1, <1>2, <1>3 DEF OnceInv
<1>7. BuiltInv' /\ TornInv'
  BY <1>1, <1>2, <1>3 DEF BuiltInv, TornInv
<1>8. LifoInv'
  BY <1>1, <1>2, <1>3 DEF OnceInv, LifoInv
<1> QED
  BY <1>5, <1>6, <1>7, <1>8 DEF CloserInv

\* The first closer takes every handler, last registered first.
LEMMA CloseStartsKeeps ==
  ASSUME CloserInv, NEW g \in Closing, NEW mode \in {"sync", "async"}, CloseStarts(g, mode)
  PROVE  CloserInv'
<1>1. CloserTypes /\ BuiltInv /\ OnceInv
  BY DEF CloserInv
<1>2. /\ UNCHANGED <<built, cleanupFn, added, started, toreDown>>
      /\ once = "free" /\ once' = g /\ fns' = <<>> /\ closed' = TRUE
      /\ closers' = [closers EXCEPT ![g] = "inside"]
      /\ body' = [mode |-> mode, live |-> {r \in Resource : built[r] = "built"},
                  waiting |-> ReverseHandlers(fns), running |-> {}]
  BY DEF CloseStarts
<1>3. fns = added /\ started = <<>> /\ \A h \in Closing : closers[h] = "new"
  BY <1>1, <1>2 DEF OnceInv
<1>4. /\ body'.mode = mode /\ body'.live = {r \in Resource : built[r] = "built"}
      /\ body'.waiting = ReverseHandlers(added) /\ body'.running = {}
  BY <1>2, <1>3
<1>5. /\ ReverseHandlers(added) \in Seq(Resource) /\ Range(added) \subseteq Range(ReverseHandlers(added))
      /\ <<>> \o ReverseHandlers(added) = ReverseHandlers(added)
  BY <1>1, ReverseHas DEF CloserTypes
<1>6. body' \in Bodies
  BY <1>2, <1>3, <1>5 DEF Bodies
<1>7. /\ closers' \in [Closing -> CloserStates] /\ closers'[g] = "inside"
      /\ \A h \in Closing : h # g => closers'[h] = "new"
  BY <1>1, <1>2, <1>3 DEF CloserTypes, CloserStates
<1>8. CloserTypes'
  <2>1. <<>> \in Seq(Resource)
    BY SMT
  <2> QED
    BY <1>1, <1>2, <1>6, <1>7, <2>1 DEF CloserTypes
<1>9. OnceInv'
  BY <1>2, <1>7, CloserAssumption DEF OnceInv
<1>10. BuiltInv' /\ TornInv'
  BY <1>1, <1>2, <1>4, <1>5 DEF BuiltInv, TornInv
<1>11. LifoInv'
  <2>1. started' \o body'.waiting = ReverseHandlers(added)
    BY <1>2, <1>3, <1>4, <1>5
  <2>2. added' = added
    BY <1>2
  <2> QED
    BY <1>4, <2>1, <2>2 DEF LifoInv, ReverseHandlers
<1> QED
  BY <1>8, <1>9, <1>10, <1>11 DEF CloserInv

\* A handler moves from those that wait to those that run.
LEMMA HandlerStartsKeeps == CloserInv /\ HandlerStarts => CloserInv'
<1> SUFFICES ASSUME CloserInv, HandlerStarts PROVE CloserInv'
  OBVIOUS
<1>1. CloserTypes /\ BuiltInv /\ OnceInv /\ TornInv /\ LifoInv
  BY DEF CloserInv
<1>2. PICK i \in DOMAIN body.waiting :
        /\ body.mode = "sync" => i = 1 /\ body.running = {}
        /\ body' = [body EXCEPT !.waiting = Without(body.waiting, i),
                                !.running = body.running \cup {body.waiting[i]}]
        /\ started' = Append(started, body.waiting[i])
  BY DEF HandlerStarts
<1>3. UNCHANGED <<built, cleanupFn, fns, added, closed, once, toreDown, closers>>
  BY DEF HandlerStarts
<1>4. PICK w \in Seq(Resource) : w = body.waiting
  BY <1>1 DEF CloserTypes, Bodies
<1>5. i \in DOMAIN w /\ w[i] \in Resource /\ w # <<>>
  BY <1>2, <1>4, SMT
<1>6. Without(w, i) \in Seq(Resource) /\ Range(w) \subseteq Range(Without(w, i)) \cup {w[i]}
  BY <1>5, WithoutLeaves
<1> DEFINE x == [body EXCEPT !.waiting = Without(w, i), !.running = body.running \cup {w[i]}]
<1>7. body' = x
  BY <1>2, <1>4
<1>8. /\ x \in Bodies /\ x.mode = body.mode /\ x.live = body.live /\ x.waiting = Without(w, i)
      /\ x.running = body.running \cup {w[i]}
  BY <1>1, <1>5, <1>6 DEF CloserTypes, Bodies
<1> HIDE DEF x
<1>9. started' = Append(started, w[i]) /\ started' \in Seq(Resource)
  <2>1. \A q \in Seq(Resource) : Append(q, w[i]) \in Seq(Resource)
    BY <1>5, SMT
  <2> QED
    BY <1>1, <1>2, <1>4, <2>1 DEF CloserTypes
<1>10. CloserTypes'
  BY <1>1, <1>3, <1>7, <1>8, <1>9 DEF CloserTypes
<1>11. once # "free" /\ once # "done"
  <2>1. once # "done"
    BY <1>1, <1>4, <1>5 DEF OnceInv
  <2>2. once # "free"
    BY <1>1, <1>4, <1>5 DEF OnceInv
  <2> QED
    BY <2>1, <2>2
<1>12. OnceInv'
  BY <1>1, <1>3, <1>11 DEF OnceInv
<1>13. BuiltInv' /\ TornInv'
  BY <1>1, <1>3, <1>4, <1>6, <1>7, <1>8 DEF BuiltInv, TornInv
<1>14. LifoInv'
  <2> SUFFICES ASSUME body.mode = "sync" PROVE LifoInv'
    BY <1>7, <1>8 DEF LifoInv
  <2>1. i = 1 /\ body.running = {}
    BY <1>2
  <2>2. Append(started, w[1]) \o Without(w, 1) = started \o w
    BY <1>1, <1>5, <2>1, FirstMoves DEF CloserTypes
  <2>3. started' \o body'.waiting = ReverseHandlers(added)
    BY <1>1, <1>4, <1>7, <1>8, <1>9, <2>1, <2>2 DEF LifoInv
  <2>4. body'.running = {w[1]}
    BY <1>7, <1>8, <2>1
  <2> QED
    BY <1>3, <1>5, <2>1, <2>3, <2>4 DEF LifoInv, ReverseHandlers
<1> QED
  BY <1>10, <1>12, <1>13, <1>14 DEF CloserInv

\* A handler that ends has torn down what was built when the close began.
LEMMA HandlerReturnsKeeps ==
  ASSUME CloserInv, NEW r \in Resource, HandlerReturns(r)
  PROVE  CloserInv'
<1>1. CloserTypes /\ BuiltInv /\ OnceInv /\ TornInv /\ LifoInv
  BY DEF CloserInv
<1>2. /\ UNCHANGED <<built, cleanupFn, fns, added, closed, once, started, closers>>
      /\ r \in body.running
      /\ toreDown' = IF r \in cleanupFn THEN toreDown \cup {r} ELSE toreDown
  BY DEF HandlerReturns
<1> DEFINE x == [body EXCEPT !.running = body.running \ {r}]
<1>3. body' = x
  BY DEF HandlerReturns
<1>4. /\ x \in Bodies /\ x.mode = body.mode /\ x.live = body.live /\ x.waiting = body.waiting
      /\ x.running = body.running \ {r}
  BY <1>1 DEF CloserTypes, Bodies
<1> HIDE DEF x
<1>5. toreDown' \subseteq Resource /\ toreDown \subseteq toreDown' /\ (r \in cleanupFn => r \in toreDown')
  BY <1>1, <1>2 DEF CloserTypes
<1>6. CloserTypes'
  BY <1>1, <1>2, <1>3, <1>4, <1>5 DEF CloserTypes
<1>7. OnceInv'
  <2>1. once # "free" /\ once # "done"
    BY <1>1, <1>2 DEF OnceInv
  <2> QED
    BY <1>1, <1>2, <2>1 DEF OnceInv
<1>8. BuiltInv' /\ TornInv'
  BY <1>1, <1>2, <1>3, <1>4, <1>5 DEF BuiltInv, TornInv
<1>9. LifoInv'
  <2> SUFFICES ASSUME body.mode = "sync" PROVE LifoInv'
    BY <1>3, <1>4 DEF LifoInv
  <2>1. started' \o body'.waiting = ReverseHandlers(added)
    BY <1>1, <1>2, <1>3, <1>4 DEF LifoInv
  <2>2. body'.running = {}
    BY <1>1, <1>2, <1>3, <1>4 DEF LifoInv
  <2> QED
    BY <1>2, <2>1, <2>2 DEF LifoInv, ReverseHandlers
<1> QED
  BY <1>6, <1>7, <1>8, <1>9 DEF CloserInv

\* A close returns when nothing waits or runs, or after one that did.
LEMMA CloseReturnsKeeps ==
  ASSUME CloserInv, NEW g \in Closing, CloseReturns(g) \/ CloseAgain(g)
  PROVE  CloserInv'
<1>1. CloserTypes /\ BuiltInv /\ OnceInv /\ TornInv /\ LifoInv
  BY DEF CloserInv
<1>2. /\ UNCHANGED <<built, cleanupFn, fns, added, closed, body, started, toreDown>>
      /\ closers' = [closers EXCEPT ![g] = "returned"] /\ once' = "done"
  BY DEF CloseReturns, CloseAgain
<1>3. once # "free" /\ body.waiting = <<>> /\ body.running = {}
  BY <1>1, CloserAssumption DEF OnceInv, CloseReturns, CloseAgain
<1>4. /\ closers' \in [Closing -> CloserStates] /\ closers'[g] = "returned"
      /\ \A h \in Closing : h # g => closers'[h] = closers[h]
  BY <1>1, <1>2 DEF CloserTypes, CloserStates
<1>5. ASSUME NEW h \in Closing, h # g PROVE closers[h] # "inside"
  <2>1. CASE CloseReturns(g)
    BY <1>1, <1>5, <2>1 DEF OnceInv, CloseReturns
  <2>2. CASE CloseAgain(g)
    BY <1>1, <2>2, CloserAssumption DEF OnceInv, CloseAgain
  <2> QED
    BY <2>1, <2>2
<1>6. CloserTypes'
  BY <1>1, <1>2, <1>4 DEF CloserTypes
<1>7. OnceInv'
  BY <1>1, <1>2, <1>3, <1>4, <1>5 DEF OnceInv
<1>8. BuiltInv' /\ TornInv'
  BY <1>1, <1>2, <1>3 DEF BuiltInv, TornInv
<1>9. LifoInv'
  BY <1>1, <1>2 DEF LifoInv, ReverseHandlers
<1> QED
  BY <1>6, <1>7, <1>8, <1>9 DEF CloserInv

\* Every step keeps what is known of the close.
LEMMA CloserStep == CloserInv /\ [CloserNext]_closerVars => CloserInv'
<1> SUFFICES ASSUME CloserInv, [CloserNext]_closerVars PROVE CloserInv'
  OBVIOUS
<1>1. CASE UNCHANGED closerVars
  <2>1. UNCHANGED <<built, cleanupFn, fns, added, closed, once, body, started, toreDown, closers>>
    BY <1>1 DEF closerVars
  <2>2. CloserTypes' /\ BuiltInv' /\ OnceInv'
    BY <2>1 DEF CloserInv, CloserTypes, BuiltInv, OnceInv
  <2>3. TornInv' /\ LifoInv'
    BY <2>1 DEF CloserInv, TornInv, LifoInv, ReverseHandlers
  <2> QED
    BY <2>2, <2>3 DEF CloserInv
<1> QED
  BY <1>1, GetKeeps, AddKeeps, CloseStartsKeeps, HandlerStartsKeeps, HandlerReturnsKeeps, CloseReturnsKeeps
     DEF CloserNext, CloseCall, Handlers

\* For any number of resources, cleanups and racing Close calls: when one has
\* returned no handler waits or runs and every registered resource that was
\* built is torn down, and CloseSync runs the handlers one at a time, last
\* registered first.
THEOREM CloserSafe == CloserSpec => []CloserSafety
<1>1. CloserInv => CloserSafety
  <2> SUFFICES ASSUME CloserInv PROVE CloserSafety
    OBVIOUS
  <2>1. CloserTypeOK
    <3>1. \A q \in Seq(Resource) : DOMAIN q = 1 .. Len(q) /\ \A i \in 1 .. Len(q) : q[i] \in Resource
      BY SMT
    <3>2. \A q \in Seq(Resource) : Range(q) \subseteq Resource
      BY <3>1 DEF Range
    <3>3. body.live \subseteq Resource /\ body.running \subseteq Resource /\ body.waiting \in Seq(Resource)
      BY DEF CloserInv, CloserTypes, Bodies
    <3> QED
      BY <3>2, <3>3 DEF CloserInv, CloserTypes, CloserTypeOK, BuiltStates, CloserStates
  <2>2. SomeReturned => once = "done"
    BY DEF CloserInv, OnceInv, SomeReturned
  <2>3. ReturnedMeansClosed
    BY <2>2 DEF CloserInv, OnceInv, ReturnedMeansClosed
  <2>4. BuiltIsTornDown
    <3>1. ~\E r : r \in Range(<<>>)
      <4>1. DOMAIN <<>> = {}
        BY SMT
      <4> QED
        BY <4>1 DEF Range
    <3>2. ASSUME SomeReturned PROVE Range(added) \cap body.live \subseteq toreDown
      <4>1. once # "free" /\ body.waiting = <<>> /\ body.running = {}
        BY <2>2, <3>2 DEF CloserInv, OnceInv
      <4> QED
        BY <3>1, <4>1 DEF CloserInv, TornInv
    <3> QED
      BY <3>2 DEF BuiltIsTornDown
  <2>5. SyncIsLifo
    BY DEF CloserInv, LifoInv, SyncIsLifo, ReverseHandlers
  <2> QED
    BY <2>1, <2>3, <2>4, <2>5 DEF CloserSafety
<1> QED
  BY <1>1, CloserInitially, CloserStep, PTL DEF CloserSpec

-----------------------------------------------------------------------------
(* Mux and dispatcher                                                      *)

Routes == [queue : Queue, kind : Kind, drop : BOOLEAN] \cup {NoRoute}
Modes == {"new", "call", "publish"}
Dispatches == [mode : Modes, fns : Seq(Func), ran : Seq(Func), failed : SUBSET Func]

WiringTypes ==
  /\ routes \in [Type -> Routes]
  /\ mux \in [Queue -> SUBSET Kind]
  /\ checked \subseteq Queue /\ dead \subseteq Queue
  /\ scheduled \subseteq [queue : Queue, kind : Kind]
  /\ funcs \in Seq(Func)
  /\ dispatch \in [Dispatcher -> Dispatches]

\* A task was written for a registered type, and the Mux of a checked queue has
\* the kind of every type that schedules into it.
RoutesInv ==
  /\ \A task \in scheduled : \E t \in Type :
       routes[t].queue = task.queue /\ routes[t].kind = task.kind /\ ~routes[t].drop
  /\ \A t \in Type : routes[t].queue \in checked /\ ~routes[t].drop =>
       routes[t].kind \in mux[routes[t].queue]

\* A dispatch has run a prefix of its snapshot; a Call failed at its last
\* handler or not at all.
DispatchInv(x) ==
  /\ Len(x.ran) <= Len(x.fns)
  /\ \A i \in 1..Len(x.ran) : x.ran[i] = x.fns[i]
  /\ \A f \in x.failed : \E i \in 1..Len(x.ran) : f = x.ran[i]
  /\ x.mode = "call" => x.failed = {} \/ (Len(x.ran) > 0 /\ x.failed = {x.ran[Len(x.ran)]})

WiringInv == WiringTypes /\ RoutesInv /\ \A d \in Dispatcher : DispatchInv(dispatch[d])

\* Nothing is registered and nothing dispatched in the beginning.
LEMMA WiringInitially == WiringInit => WiringInv
<1> SUFFICES ASSUME WiringInit PROVE WiringInv
  OBVIOUS
<1>1. WiringTypes
  BY SMT DEF WiringInit, WiringTypes, Routes, Dispatches, Modes
<1>2. RoutesInv
  BY DEF WiringInit, RoutesInv
<1>3. \A d \in Dispatcher : DispatchInv(dispatch[d])
  BY SMT DEF WiringInit, DispatchInv
<1> QED
  BY <1>1, <1>2, <1>3 DEF WiringInv

\* Registration, scheduling and the start check keep the routes of checked queues.
LEMMA WireStep == WiringInv /\ Wire => WiringInv'
<1> SUFFICES ASSUME WiringInv, Wire PROVE WiringInv'
  OBVIOUS
<1> USE DEF WiringInv
<1>1. UNCHANGED <<funcs, dispatch>>
  BY DEF Wire, Register, MuxRegister, Check, Schedule, MuxHandle
<1>2. \A d \in Dispatcher : DispatchInv(dispatch[d])'
  BY <1>1
<1>3. ASSUME NEW t \in Type, NEW q \in Queue, NEW k \in Kind, NEW drop \in BOOLEAN, Register(t, q, k, drop)
      PROVE  WiringTypes' /\ RoutesInv'
  <2> DEFINE route == [queue |-> q, kind |-> k, drop |-> drop]
  <2>1. route \in Routes
    BY DEF Routes
  <2>2. /\ routes[t] = NoRoute /\ routes' = [routes EXCEPT ![t] = route]
        /\ checked' = checked \ {q} /\ UNCHANGED <<mux, scheduled, dead, funcs, dispatch>>
    BY <1>3 DEF Register, Registered
  <2>3. WiringTypes'
    BY <2>1, <2>2 DEF WiringTypes, Routes, Dispatches, Modes
  <2>4. ASSUME NEW task \in scheduled
        PROVE  \E u \in Type :
                 routes'[u].queue = task.queue /\ routes'[u].kind = task.kind /\ ~routes'[u].drop
    <3>1. PICK u \in Type :
            routes[u].queue = task.queue /\ routes[u].kind = task.kind /\ ~routes[u].drop
      BY DEF RoutesInv
    <3>2. task.kind \in Kind
      BY DEF WiringTypes
    <3>3. CASE u # t
      BY <2>2, <3>1, <3>3 DEF WiringTypes
    <3>4. CASE u = t
      BY <2>2, <3>1, <3>2, <3>4, WiringAssumption, SMT DEF NoRoute
    <3> QED
      BY <3>3, <3>4
  <2>5. ASSUME NEW u \in Type, routes'[u].queue \in checked', ~routes'[u].drop
        PROVE  routes'[u].kind \in mux'[routes'[u].queue]
    <3>1. CASE u # t
      BY <2>2, <2>5, <3>1 DEF WiringTypes, RoutesInv
    <3>2. CASE u = t
      BY <2>2, <2>5, <3>2 DEF WiringTypes
    <3> QED
      BY <3>1, <3>2
  <2> QED
    BY <2>2, <2>3, <2>4, <2>5 DEF RoutesInv
<1>4. ASSUME NEW q \in Queue, Check(q) PROVE WiringTypes' /\ RoutesInv'
  <2>1. /\ Kinds(q) \subseteq mux[q] /\ checked' = checked \cup {q}
        /\ UNCHANGED <<routes, mux, scheduled, dead, funcs, dispatch>>
    BY <1>4 DEF Check
  <2>2. WiringTypes'
    BY <2>1 DEF WiringTypes, Routes, Dispatches
  <2>3. \A t \in Type : routes[t].queue = q /\ ~routes[t].drop => routes[t].kind \in mux[q]
    BY <2>1 DEF Kinds
  <2> QED
    BY <2>1, <2>2, <2>3 DEF RoutesInv
<1>5. ASSUME NEW q \in Queue, NEW k \in Kind, MuxRegister(q, k) PROVE WiringTypes' /\ RoutesInv'
  <2>1. /\ mux' = [mux EXCEPT ![q] = @ \cup {k}]
        /\ UNCHANGED <<routes, checked, scheduled, dead, funcs, dispatch>>
    BY <1>5 DEF MuxRegister
  <2>2. WiringTypes'
    BY <2>1 DEF WiringTypes, Routes, Dispatches
  <2>3. \A p \in Queue : mux[p] \subseteq mux'[p]
    BY <2>1 DEF WiringTypes
  <2>4. \A t \in Type : routes[t].queue \in checked /\ ~routes[t].drop =>
          routes[t].kind \in mux'[routes[t].queue]
    BY <2>3 DEF RoutesInv, WiringTypes
  <2> QED
    BY <2>1, <2>2, <2>4 DEF RoutesInv
<1>6. ASSUME NEW t \in Type, Schedule(t) PROVE WiringTypes' /\ RoutesInv'
  <2> DEFINE task == [queue |-> routes[t].queue, kind |-> routes[t].kind]
  <2>1. /\ routes[t] # NoRoute /\ ~routes[t].drop /\ scheduled' = scheduled \cup {task}
        /\ UNCHANGED <<routes, mux, checked, dead, funcs, dispatch>>
    BY <1>6 DEF Schedule, Registered
  <2>2. task \in [queue : Queue, kind : Kind]
    BY <2>1 DEF WiringTypes, Routes
  <2>3. WiringTypes'
    BY <2>1, <2>2 DEF WiringTypes, Routes, Dispatches
  <2> QED
    BY <2>1, <2>3, SMT DEF RoutesInv
<1>7. ASSUME NEW task \in scheduled, MuxHandle(task) PROVE WiringTypes' /\ RoutesInv'
  <2>1. task.queue \in Queue
    BY DEF WiringTypes
  <2>2. WiringTypes'
    BY <1>7, <2>1 DEF MuxHandle, WiringTypes, Routes, Dispatches
  <2> QED
    BY <1>7, <2>2 DEF MuxHandle, RoutesInv
<1> QED
  BY <1>2, <1>3, <1>4, <1>5, <1>6, <1>7 DEF Wire

\* The next handler of a dispatch keeps what is known of it.
LEMMA RunKeeps ==
  ASSUME NEW x \in Dispatches, DispatchInv(x), Len(x.ran) < Len(x.fns),
         x.mode # "call" \/ x.failed = {}, NEW ok \in BOOLEAN, NEW y \in Dispatches,
         y.mode = x.mode, y.fns = x.fns, y.ran = Append(x.ran, x.fns[Len(x.ran) + 1]),
         y.failed = IF ok THEN x.failed ELSE x.failed \cup {x.fns[Len(x.ran) + 1]}
  PROVE  DispatchInv(y)
<1> DEFINE n == Len(x.ran)
           f == x.fns[n + 1]
<1>0. x.ran \in Seq(Func) /\ x.fns \in Seq(Func) /\ n \in Nat
  BY SMT DEF Dispatches
<1>1. /\ Len(y.ran) = n + 1 /\ y.ran[n + 1] = f
      /\ \A i \in 1..n : y.ran[i] = x.ran[i]
  BY <1>0, SMT
<1>2. Len(y.ran) <= Len(y.fns) /\ \A i \in 1..Len(y.ran) : y.ran[i] = y.fns[i]
  BY <1>0, <1>1, SMT DEF DispatchInv
<1>3. \A g \in y.failed : \E i \in 1..Len(y.ran) : g = y.ran[i]
  <2> TAKE g \in y.failed
  <2>1. CASE g \in x.failed
    BY <1>0, <1>1, <2>1, SMT DEF DispatchInv
  <2>2. CASE g = f
    BY <1>0, <1>1, <2>2, SMT
  <2> QED
    BY <2>1, <2>2
<1>4. y.mode = "call" => y.failed = {} \/ (Len(y.ran) > 0 /\ y.failed = {y.ran[Len(y.ran)]})
  BY <1>0, <1>1, SMT
<1> QED
  BY <1>2, <1>3, <1>4 DEF DispatchInv

\* Register, Call and Publish keep every dispatch on a prefix of its snapshot.
LEMMA EventsStep == WiringInv /\ Events => WiringInv'
<1> SUFFICES ASSUME WiringInv, Events PROVE WiringInv'
  OBVIOUS
<1> USE DEF WiringInv
<1>1. UNCHANGED <<routes, mux, checked, scheduled, dead>>
  BY DEF Events, BusRegister, Dispatch, RunFunc
<1>2. RoutesInv'
  BY <1>1 DEF RoutesInv
<1>3. ASSUME NEW f \in Func, BusRegister(f) PROVE WiringInv'
  <2>1. funcs' \in Seq(Func) /\ dispatch' = dispatch
    BY <1>3, SMT DEF BusRegister, WiringTypes
  <2> QED
    BY <1>1, <1>2, <2>1 DEF WiringTypes
<1>4. ASSUME NEW d \in Dispatcher, NEW mode \in {"call", "publish"}, Dispatch(d, mode) PROVE WiringInv'
  <2> DEFINE y == [mode |-> mode, fns |-> funcs, ran |-> <<>>, failed |-> {}]
  <2>1. y \in Dispatches
    BY SMT DEF Dispatches, WiringTypes, Modes
  <2>2. DispatchInv(y)
    BY SMT DEF DispatchInv, WiringTypes
  <2>3. dispatch' = [dispatch EXCEPT ![d] = y] /\ UNCHANGED funcs
    BY <1>4 DEF Dispatch, Dispatching
  <2> HIDE DEF y
  <2>4. WiringTypes'
    BY <1>1, <2>1, <2>3 DEF WiringTypes
  <2>5. \A e \in Dispatcher : DispatchInv(dispatch'[e])
    BY <2>2, <2>3 DEF WiringTypes
  <2> QED
    BY <1>2, <2>4, <2>5
<1>5. ASSUME NEW d \in Dispatcher, RunFunc(d) PROVE WiringInv'
  <2> DEFINE x == dispatch[d]
             n == Len(x.ran)
             f == x.fns[n + 1]
  <2>1. x \in Dispatches /\ x.ran \in Seq(Func) /\ x.fns \in Seq(Func) /\ n \in Nat /\ n <= Len(x.fns)
    BY SMT DEF WiringTypes, Dispatches, DispatchInv
  <2>2. Left(d) # <<>> /\ ~Stops(d)
    BY <1>5 DEF RunFunc
  <2>3. n < Len(x.fns)
    <3>1. ASSUME n = Len(x.fns) PROVE FALSE
      <4>1. Left(d) = <<>>
        BY <2>1, <3>1, SMT DEF Left
      <4> QED
        BY <2>2, <4>1
    <3> QED
      BY <2>1, <3>1, SMT
  <2>4. Head(Left(d)) = f
    BY <2>1, <2>3, SMT DEF Left
  <2>5. f \in Func
    BY <2>1, <2>3, SMT
  <2>6. PICK ok \in BOOLEAN :
          dispatch' = [dispatch EXCEPT ![d].ran = Append(@, f),
                                       ![d].failed = IF ok THEN @ ELSE @ \cup {f}]
    BY <1>5, <2>4 DEF RunFunc
  <2> DEFINE y == [mode |-> x.mode, fns |-> x.fns, ran |-> Append(x.ran, f),
                   failed |-> IF ok THEN x.failed ELSE x.failed \cup {f}]
  <2>7. y \in Dispatches
    BY <2>1, <2>5, SMT DEF Dispatches
  <2>8. dispatch'[d] = y
    BY <2>6 DEF WiringTypes, Dispatches
  <2>9. \A e \in Dispatcher \ {d} : dispatch'[e] = dispatch[e]
    BY <2>6 DEF WiringTypes
  <2>10. dispatch' \in [Dispatcher -> Dispatches]
    <3>1. dispatch' = [e \in Dispatcher |-> dispatch'[e]]
      BY <2>6 DEF WiringTypes
    <3> HIDE DEF y
    <3> QED
      BY <2>7, <2>8, <2>9, <3>1 DEF WiringTypes
  <2>11. DispatchInv(y)
    <3>1. x.mode # "call" \/ x.failed = {}
      BY <2>2 DEF Stops
    <3> QED
      BY <2>1, <2>3, <2>7, <3>1, RunKeeps
  <2> HIDE DEF y
  <2>12. WiringTypes'
    BY <1>1, <1>5, <2>10 DEF WiringTypes, RunFunc
  <2>13. \A e \in Dispatcher : DispatchInv(dispatch'[e])
    BY <2>8, <2>9, <2>11
  <2> QED
    BY <1>2, <2>12, <2>13
<1> QED
  BY <1>3, <1>4, <1>5 DEF Events

\* A prefix followed by what is left of a sequence is the sequence.
LEMMA PrefixAndRest ==
  ASSUME NEW S, NEW r \in Seq(S), NEW w \in Seq(S), Len(r) <= Len(w),
         \A i \in 1..Len(r) : r[i] = w[i]
  PROVE  LET rest == SubSeq(w, Len(r) + 1, Len(w))
         IN r \o rest = w /\ (rest = <<>> => r = w)
<1> DEFINE n == Len(r)
           rest == SubSeq(w, n + 1, Len(w))
<1>1. n \in Nat /\ Len(w) \in Nat
  BY SMT
<1>2. rest \in Seq(S) /\ Len(rest) = Len(w) - n
  BY <1>1, SMT
<1>3. \A i \in 1..Len(rest) : rest[i] = w[n + i]
  BY <1>1, <1>2, SMT
<1> HIDE DEF rest
<1>4. r \o rest = w
  <2>1. r \o rest \in Seq(S) /\ Len(r \o rest) = Len(w)
    BY <1>1, <1>2, SMT
  <2>2. ASSUME NEW i \in 1..Len(w) PROVE (r \o rest)[i] = w[i]
    <3>1. CASE i <= n
      BY <1>1, <1>2, <3>1, SMT
    <3>2. CASE i > n
      <4>1. i - n \in 1..Len(rest)
        BY <1>1, <1>2, <3>2, SMT
      <4>2. (r \o rest)[i] = rest[i - n]
        BY <1>1, <1>2, <3>2, SMT
      <4>3. rest[i - n] = w[n + (i - n)]
        BY <1>3, <4>1
      <4> QED
        BY <1>1, <4>2, <4>3, SMT
    <3>3. i <= n \/ i > n
      BY <1>1, SMT
    <3> QED
      BY <3>1, <3>2, <3>3, Zenon
  <2>3. w = [i \in 1..Len(w) |-> w[i]]
    BY SMT
  <2>4. r \o rest = [i \in 1..Len(w) |-> (r \o rest)[i]]
    <3>1. \A z \in Seq(S) : z = [i \in 1..Len(z) |-> z[i]]
      BY SMT
    <3> QED
      BY <2>1, <3>1, Zenon
  <2> QED
    BY <2>2, <2>3, <2>4, Zenon
<1>5. ASSUME rest = <<>> PROVE r = w
  <2>1. Len(r) = Len(w)
    BY <1>1, <1>2, <1>5, SMT
  <2> QED
    BY <2>1, SMT
<1> QED
  BY <1>4, <1>5 DEF rest

\* The invariant implies what the runs check of a dispatch.
LEMMA DispatchExact ==
  ASSUME WiringInv, NEW d \in Dispatcher
  PROVE  /\ dispatch[d].ran \o Left(d) = dispatch[d].fns
         /\ Range(dispatch[d].ran) \subseteq Range(dispatch[d].fns)
         /\ dispatch[d].failed \subseteq Range(dispatch[d].ran)
         /\ Left(d) = <<>> => dispatch[d].ran = dispatch[d].fns
<1>1. dispatch[d] \in Dispatches /\ DispatchInv(dispatch[d])
  BY DEF WiringInv, WiringTypes
<1>2. PICK r, w : r = dispatch[d].ran /\ w = dispatch[d].fns
  OBVIOUS
<1>3. /\ r \in Seq(Func) /\ w \in Seq(Func) /\ Len(r) <= Len(w)
      /\ \A i \in 1..Len(r) : r[i] = w[i]
      /\ \A f \in dispatch[d].failed : \E i \in 1..Len(r) : f = r[i]
  BY <1>1, <1>2 DEF Dispatches, DispatchInv
<1>4. Left(d) = SubSeq(w, Len(r) + 1, Len(w))
  BY <1>2 DEF Left
<1>5. r \o Left(d) = w /\ (Left(d) = <<>> => r = w)
  BY <1>3, <1>4, PrefixAndRest, SMT
<1>6. Range(r) \subseteq Range(w)
  BY <1>3, SMT DEF Range
<1>7. dispatch[d].failed \subseteq Range(r)
  BY <1>3, SMT DEF Range
<1> QED
  BY <1>2, <1>5, <1>6, <1>7

\* For any types, kinds, queues, handlers and dispatches: no task of a checked
\* queue meets a Mux without its handler, and a dispatch runs the handlers that
\* were registered when it began, in their order.
THEOREM WiringHolds == WiringSpec => []WiringSafety
<1>1. WiringInv => WiringSafety
  <2> SUFFICES ASSUME WiringInv PROVE WiringSafety
    OBVIOUS
  <2>1. WiringTypeOK
    <3>1. \A d \in Dispatcher : dispatch[d].mode \in {"new", "call", "publish"}
      BY DEF WiringInv, WiringTypes, Dispatches, Modes
    <3>2. Range(funcs) \subseteq Func
      BY SMT DEF WiringInv, WiringTypes, Range
    <3> QED
      BY <3>1, <3>2, DispatchExact DEF WiringInv, WiringTypes, WiringTypeOK, Routes
  <2>2. CheckedNeverDies
    BY DEF WiringInv, RoutesInv, CheckedNeverDies
  <2>3. DispatchIsExact
    <3> SUFFICES ASSUME NEW d \in Dispatcher
                 PROVE  /\ dispatch[d].ran \o Left(d) = dispatch[d].fns
                        /\ Finished(d) /\ dispatch[d].mode = "publish" => dispatch[d].ran = dispatch[d].fns
                        /\ Finished(d) /\ dispatch[d].mode = "call" =>
                             \/ dispatch[d].ran = dispatch[d].fns /\ dispatch[d].failed = {}
                             \/ dispatch[d].failed = {dispatch[d].ran[Len(dispatch[d].ran)]}
      BY DEF DispatchIsExact
    <3>1. dispatch[d].ran \o Left(d) = dispatch[d].fns /\ (Left(d) = <<>> => dispatch[d].ran = dispatch[d].fns)
      BY DispatchExact
    <3>2. dispatch[d].mode = "call" =>
            dispatch[d].failed = {} \/ dispatch[d].failed = {dispatch[d].ran[Len(dispatch[d].ran)]}
      BY DEF WiringInv, DispatchInv
    <3> QED
      BY <3>1, <3>2, Zenon DEF Finished, Stops
  <2> QED
    BY <2>1, <2>2, <2>3 DEF WiringSafety
<1>2. WiringInv /\ [WiringNext]_wiringVars => WiringInv'
  <2> SUFFICES ASSUME WiringInv, [WiringNext]_wiringVars PROVE WiringInv'
    OBVIOUS
  <2>1. CASE UNCHANGED wiringVars
    BY <2>1 DEF wiringVars, WiringInv, WiringTypes, RoutesInv
  <2> QED
    BY <2>1, WireStep, EventsStep DEF WiringNext
<1> QED
  BY <1>1, <1>2, WiringInitially, PTL DEF WiringSpec
=============================================================================
