------------------------------ MODULE Tracing ------------------------------
(***************************************************************************)
(* The trace context of one event on its way from the request that         *)
(* schedules it, through the queue worker that publishes it, to the        *)
(* consumer in another process: middleware.Trace, otel.Carrier in the      *)
(* envelope of the task, the suppressed tick of worker.Loop,               *)
(* Processor.handle, brokertrace.StartSend and consume.startProcess, with  *)
(* the samplers of otel/setup deciding about every span.                   *)
(*                                                                         *)
(* A context holds a span context (sc) and the mark of otel.Suppress. A    *)
(* span context is a trace, a span id, the sampled flag and whether it     *)
(* came from outside the process. The SDK, otelhttp and the broker are     *)
(* external.                                                               *)
(***************************************************************************)
EXTENDS Naturals, Sequences

CONSTANTS Samplers,   \* what OTEL_TRACES_SAMPLER may be, "no_exporter" or "no_sdk"
          MaxSpans    \* bound on the spans of a run

ASSUME TracingAssumption == MaxSpans \in Nat

Process == {"api", "sub"}

VARIABLES tcSampler,  \* the sampler of each process
          tcCaller,   \* the span the caller of the api sends, sampled or not
          tcHits,     \* traces the ratio of traceidratio takes
          tcSpans,    \* spans started, in order
          tcRequest,  \* the context of the request in the api, or NoContext
          tcEcho,     \* the span context the response of the request carries
          tcTick,     \* the context of the tick of the queue worker, or NoContext
          tcEvent     \* the event: its state and the headers it carries

tcVars == <<tcSampler, tcCaller, tcHits, tcSpans, tcRequest, tcEcho, tcTick, tcEvent>>

NoSpan == [trace |-> 0, id |-> 0, sampled |-> FALSE, remote |-> FALSE]
IsValid(sc) == sc.trace # 0
Context(sc, mark) == [sc |-> sc, mark |-> mark]
Background == Context(NoSpan, FALSE)
NoContext == [none |-> TRUE]
NoEvent == [state |-> "none", headers |-> NoSpan, created |-> NoSpan, sent |-> NoSpan]

\* Trace 1 is the one of the caller of the api.
CallerTrace == 1
Traces == CallerTrace..(MaxSpans + 1)

TracingInit ==
  /\ tcSampler \in [Process -> Samplers]
  /\ tcCaller \in [trace : {CallerTrace}, id : {0}, sampled : BOOLEAN, remote : {TRUE}]
  /\ tcHits \in {{}, Traces \ {CallerTrace}}
  /\ tcSpans = <<>>
  /\ tcRequest = NoContext /\ tcEcho = NoSpan /\ tcTick = NoContext
  /\ tcEvent = NoEvent

-----------------------------------------------------------------------------
(* otel and otel/setup *)

Suppress(c) == [c EXCEPT !.mark = TRUE]
Unsuppress(c) == [c EXCEPT !.mark = FALSE]

\* The trace context of c as headers, and back.
Carrier(c) == [c.sc EXCEPT !.remote = FALSE]
Extract(headers) == IF IsValid(headers) THEN [headers EXCEPT !.remote = TRUE] ELSE NoSpan

ParentBased == {"parentbased_always_on", "parentbased_always_off", "parentbased_traceidratio"}

\* The root decision of a sampler samplerFromEnv builds.
Root(name, trace) ==
  CASE name \in {"always_on", "parentbased_always_on"} -> TRUE
    [] name \in {"traceidratio", "parentbased_traceidratio"} -> trace \in tcHits
    [] OTHER -> FALSE

sampler(name, parent, trace) ==
  IF name \in ParentBased /\ IsValid(parent) THEN parent.sampled ELSE Root(name, trace)

\* suppressible over the sampler of the process.
ShouldSample(name, mark, parent, trace) == ~mark /\ sampler(name, parent, trace)

FreshTrace == 2 + Len(tcSpans)

\* The span context of a span that process p starts from c, as a new root or
\* as a child; without an SDK it is the one of c.
StartSpan(p, c, newRoot) ==
  LET parent == IF newRoot THEN NoSpan ELSE c.sc
      trace  == IF IsValid(parent) THEN parent.trace ELSE FreshTrace
  IN IF tcSampler[p] = "no_sdk" THEN parent
     ELSE [trace |-> trace, id |-> Len(tcSpans) + 1, remote |-> FALSE,
           sampled |-> ShouldSample(tcSampler[p], c.mark, parent, trace)]

\* The span that gave sc, of a kind and under an activity of the process.
Started(p, sc, kind, under) ==
  /\ Len(tcSpans) < MaxSpans
  /\ tcSpans' = IF tcSampler[p] = "no_sdk" THEN tcSpans
                ELSE Append(tcSpans, [kind |-> kind, under |-> under, sc |-> sc])

-----------------------------------------------------------------------------
(* The request *)

\* The response carries the span of this process, never the one of the caller.
InjectToResponse(sc) == IF IsValid(sc) /\ ~sc.remote THEN sc ELSE NoSpan

\* middleware.Trace: the server span continues the trace of the request, or
\* starts a new one on a public endpoint.
Request ==
  \E caller \in {NoSpan, tcCaller}, public \in BOOLEAN :
    LET sc == StartSpan("api", Context(caller, FALSE), public /\ IsValid(caller))
    IN /\ tcRequest = NoContext
       /\ Started("api", sc, "server", "request")
       /\ tcRequest' = Context(sc, FALSE) /\ tcEcho' = InjectToResponse(sc)
       /\ UNCHANGED <<tcSampler, tcCaller, tcHits, tcTick, tcEvent>>

\* A handler schedules the event; encode puts the context into the envelope of
\* the task. Code outside a request has no span.
ScheduleEvent ==
  /\ tcEvent.state = "none"
  /\ LET c == IF tcRequest = NoContext THEN Background ELSE tcRequest
     IN tcEvent' = [NoEvent EXCEPT !.state = "task", !.headers = Carrier(c), !.created = Carrier(c)]
  /\ UNCHANGED <<tcSampler, tcCaller, tcHits, tcSpans, tcRequest, tcEcho, tcTick>>

RequestQueries ==
  /\ tcRequest # NoContext
  /\ Started("api", StartSpan("api", tcRequest, FALSE), "query", "request")
  /\ UNCHANGED <<tcSampler, tcCaller, tcHits, tcRequest, tcEcho, tcTick, tcEvent>>

RequestEnds ==
  /\ tcRequest # NoContext
  /\ tcRequest' = NoContext /\ tcEcho' = NoSpan
  /\ UNCHANGED <<tcSampler, tcCaller, tcHits, tcSpans, tcTick, tcEvent>>

-----------------------------------------------------------------------------
(* The tick of the queue worker *)

\* startTick of a loop that does not trace its ticks.
TickSuppressed ==
  /\ tcTick = NoContext
  /\ tcTick' = Suppress(Background)
  /\ UNCHANGED <<tcSampler, tcCaller, tcHits, tcSpans, tcRequest, tcEcho, tcEvent>>

\* startTick of a loop that does: runspan.Start opens a root span.
TickTraced ==
  /\ tcTick = NoContext
  /\ LET sc == StartSpan("api", Unsuppress(Background), TRUE)
     IN /\ Started("api", sc, "tick", "tick")
        /\ tcTick' = Context(sc, FALSE)
  /\ UNCHANGED <<tcSampler, tcCaller, tcHits, tcRequest, tcEcho, tcEvent>>

\* The lease, the marks and the cleanup of a tick are queries under its context.
TickQueries ==
  /\ tcTick # NoContext
  /\ Started("api", StartSpan("api", tcTick, FALSE), "query", IF tcTick.mark THEN "silent" ELSE "tick")
  /\ UNCHANGED <<tcSampler, tcCaller, tcHits, tcRequest, tcEcho, tcTick, tcEvent>>

TickEnds ==
  /\ tcTick # NoContext /\ tcTick' = NoContext
  /\ UNCHANGED <<tcSampler, tcCaller, tcHits, tcSpans, tcRequest, tcEcho, tcEvent>>

SendParentTick(c, headers) == c

\* The context StartSend opens its span from: the one the message was created
\* in, when its headers have it.
SendParent(c, headers) == IF IsValid(Extract(headers)) THEN Context(Extract(headers), c.mark) ELSE c

\* The headers the message goes out with.
SendHeaders(headers, sc) == IF IsValid(Extract(headers)) THEN headers ELSE Carrier(Context(sc, FALSE))

\* Processor.handle lifts the mark, the handler of the outbox publishes under
\* the span of StartSend, and a publish that fails is retried by a later tick.
ProcessorHandle ==
  /\ tcTick # NoContext /\ tcEvent.state = "task"
  /\ LET c  == Unsuppress(tcTick)
         sc == StartSpan("api", SendParent(c, tcEvent.headers), FALSE)
     IN /\ Started("api", sc, "send", "item")
        /\ \/ tcEvent' = [tcEvent EXCEPT !.state = "message", !.sent = sc,
                                         !.headers = SendHeaders(tcEvent.headers, sc)]
           \/ UNCHANGED tcEvent
  /\ UNCHANGED <<tcSampler, tcCaller, tcHits, tcRequest, tcEcho, tcTick>>

-----------------------------------------------------------------------------
(* The consumer *)

\* The context the span of the handling opens from.
ProcessParent(c, headers) == IF IsValid(Extract(headers)) THEN Context(Extract(headers), c.mark) ELSE c

\* startProcess and the handler: an ack ends the message, a requeue keeps it.
Consume ==
  /\ tcEvent.state = "message"
  /\ Started("sub", StartSpan("sub", ProcessParent(Background, tcEvent.headers), FALSE), "process", "message")
  /\ tcEvent' \in {tcEvent, [tcEvent EXCEPT !.state = "done"]}
  /\ UNCHANGED <<tcSampler, tcCaller, tcHits, tcRequest, tcEcho, tcTick>>

TracingNext == Request \/ ScheduleEvent \/ RequestQueries \/ RequestEnds
        \/ TickSuppressed \/ TickTraced \/ TickQueries \/ TickEnds \/ ProcessorHandle \/ Consume

TracingSpec == TracingInit /\ [][TracingNext]_tcVars

-----------------------------------------------------------------------------
(* Properties *)

Spans == {tcSpans[i] : i \in 1..Len(tcSpans)}

\* Types of the variables.
TracingTypeOK ==
  LET SpanContext == [trace : 0..(MaxSpans + 1), id : 0..MaxSpans, sampled : BOOLEAN, remote : BOOLEAN]
  IN /\ tcSampler \in [Process -> Samplers] /\ tcCaller \in SpanContext /\ tcHits \subseteq Traces
     /\ tcSpans \in Seq([kind : {"server", "query", "tick", "send", "process"},
                         under : {"request", "tick", "silent", "item", "message"}, sc : SpanContext])
     /\ tcEcho \in SpanContext
     /\ \A c \in {tcRequest, tcTick} : c = NoContext \/ c \in [sc : SpanContext, mark : BOOLEAN]
     /\ tcEvent \in [state : {"none", "task", "message", "done"}, headers : SpanContext,
                     created : SpanContext, sent : SpanContext]

\* No span of an idle poll is exported: what a tick of a loop that does not
\* trace its ticks starts outside its items is never sampled.
IdlePollsAreSilent == \A s \in Spans : s.under = "silent" => ~s.sc.sampled

\* The publishes of an event and its handling are spans of the trace the event
\* was created in, whichever tick publishes it and however often; an event
\* created in no trace is handled in the trace of the publish that sent it.
EventKeepsItsTrace ==
  /\ IsValid(tcEvent.created) =>
       \A s \in Spans : s.kind \in {"send", "process"} => s.sc.trace = tcEvent.created.trace
  /\ IsValid(tcEvent.sent) =>
       \A s \in Spans : s.kind = "process" => s.sc.trace = tcEvent.sent.trace

\* With parent-based samplers in both processes a trace is recorded whole or
\* not at all: the mark of a tick does not cut the publish of a sampled
\* request out of its trace.
OneDecision ==
  (\A p \in Process : tcSampler[p] \in ParentBased) =>
    \A s, t \in Spans : s.sc.trace = t.sc.trace => s.sc.sampled = t.sc.sampled

\* The traceparent of a response is the server span this process opened for
\* the request, never the span of its caller.
ResponseNamesOurSpan ==
  IsValid(tcEcho) => \E s \in Spans : s.kind = "server" /\ s.sc = tcEcho /\ s.sc = tcRequest.sc

\* What a reader of the traces relies on: silence of idle polls, whole traces that
\* an event does not leave, and responses that name a span of this process.
TracingSafety ==
  TracingTypeOK /\ IdlePollsAreSilent /\ EventKeepsItsTrace /\ OneDecision /\ ResponseNamesOurSpan
=============================================================================
