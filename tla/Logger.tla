------------------------------- MODULE Logger -------------------------------
(***************************************************************************)
(* The handler stack of logger.NewWithHandler: traceHandler over the       *)
(* service identity over eventHandler over the sink. Loggers are derived   *)
(* with With and WithGroup in any order and write records with and without *)
(* a span; a record is the sequence of the paths of its attributes, an     *)
(* attribute inside group g having path <<g, name>>.                       *)
(***************************************************************************)
EXTENDS Naturals, Sequences, SequencesExt

CONSTANTS Attr,      \* names of attributes
          Group,     \* names of groups
          MaxSteps   \* bound on the With and WithGroup calls of a logger

Level == {"info", "error", "custom"}

VARIABLES lgConf,    \* Config: levels with an EventFn, and whether Service is set
          lgStack,   \* the handlers of the logger in use
          lgSteps,   \* the With and WithGroup calls that derived it
          lgLine,    \* the last record the sink wrote
          lgSeen,    \* the record the EventFn got for it, or NoRecord
          lgOwn      \* what the last call logged: attributes and whether it has a span

lgVars == <<lgConf, lgStack, lgSteps, lgLine, lgSeen, lgOwn>>

NoRecord == <<"no record">>
AttrStep(a) == [group |-> "", attr |-> a]
GroupStep(g) == [group |-> g, attr |-> ""]
Paths(names) == [i \in DOMAIN names |-> <<names[i]>>]
Under(g, paths) == [i \in DOMAIN paths |-> <<g>> \o paths[i]]

identity == IF lgConf.service THEN <<"service.name">> ELSE <<>>
traceFields == <<"trace_id">>

-----------------------------------------------------------------------------
(* eventHandler, over the sink *)

\* One kept step over what comes after it.
FoldStep(step, inner) ==
  IF step.group # "" THEN Under(step.group, inner) ELSE <<<<step.attr>>>> \o inner

\* The paths of a record whose own are nested in the kept steps.
foldGOA(goas, own) == FoldRight(FoldStep, goas, own)

\* WithAttrs below the traceHandler: the sink renders the attribute, and the
\* event handler keeps the step when there is one.
EventWithAttrs(stack, a) ==
  [stack EXCEPT !.sink = Append(@, <<a>>), !.kept = Append(@, AttrStep(a))]

\* newEventHandler and the identity over it.
NewWithHandler(service) ==
  LET bare == [sink |-> <<>>, kept |-> <<>>, goas |-> <<>>]
  IN IF service THEN EventWithAttrs(bare, "service.name") ELSE bare

Init ==
  /\ lgConf \in [events : SUBSET (Level \ {"custom"}), service : BOOLEAN]
  /\ lgStack = NewWithHandler(lgConf.service)
  /\ lgSteps = <<>> /\ lgLine = NoRecord /\ lgSeen = NoRecord
  /\ lgOwn = [attrs |-> <<>>, span |-> FALSE]

\* eventHandler.Handle: the EventFn of the level first, then the sink.
EventHandle(level, r) ==
  /\ lgSeen' = IF level \in lgConf.events THEN foldGOA(lgStack.kept, r) ELSE NoRecord
  /\ lgLine' = lgStack.sink \o r

-----------------------------------------------------------------------------
(* traceHandler, over them *)

Derived == lgLine' = NoRecord /\ lgSeen' = NoRecord /\ UNCHANGED <<lgConf, lgOwn>>

\* Before the first group an attribute goes to the next handler, from it on
\* the step is kept.
WithAttrs(a) ==
  /\ Len(lgSteps) < MaxSteps
  /\ lgStack' = IF lgStack.goas = <<>> THEN EventWithAttrs(lgStack, a)
                ELSE [lgStack EXCEPT !.goas = Append(@, AttrStep(a))]
  /\ lgSteps' = Append(lgSteps, AttrStep(a))
  /\ Derived

WithGroup(g) ==
  /\ Len(lgSteps) < MaxSteps
  /\ lgStack' = [lgStack EXCEPT !.goas = Append(@, GroupStep(g))]
  /\ lgSteps' = Append(lgSteps, GroupStep(g))
  /\ Derived

\* The record next gets: its attributes in the kept steps, the trace fields
\* of the span outside them.
TracedInside(own, span) ==
  foldGOA(lgStack.goas, Paths(own) \o IF span THEN Paths(traceFields) ELSE <<>>)

Traced(own, span) ==
  foldGOA(lgStack.goas, Paths(own)) \o IF span THEN Paths(traceFields) ELSE <<>>

Handle(level, own, span) ==
  /\ EventHandle(level, Traced(own, span))
  /\ lgOwn' = [attrs |-> own, span |-> span]
  /\ UNCHANGED <<lgConf, lgStack, lgSteps>>

Next ==
  \/ \E a \in Attr : WithAttrs(a)
  \/ \E g \in Group : WithGroup(g)
  \/ \E level \in Level, own \in {<<>>} \cup {<<a>> : a \in Attr}, span \in BOOLEAN : Handle(level, own, span)

Spec == Init /\ [][Next]_lgVars

-----------------------------------------------------------------------------
(* Properties *)

\* Types of the variables.
TypeOK ==
  /\ lgConf \in [events : SUBSET Level, service : BOOLEAN]
  /\ lgSteps \in Seq([group : Group \cup {""}, attr : Attr \cup {""}]) /\ Len(lgSteps) <= MaxSteps
  /\ lgStack.goas \in Seq([group : Group \cup {""}, attr : Attr \cup {""}])
  /\ lgOwn \in [attrs : Seq(Attr), span : BOOLEAN]

\* The groups that are open after the first n steps, outermost first.
Open(n) == [i \in DOMAIN SelectSeq(SubSeq(lgSteps, 1, n), LAMBDA s : s.group # "") |->
              SelectSeq(SubSeq(lgSteps, 1, n), LAMBDA s : s.group # "")[i].group]

\* The line slog promises: every attribute under the groups open when it was
\* added, in the order of the calls.
Promised ==
  LET added == SelectSeq([i \in DOMAIN lgSteps |-> i], LAMBDA i : lgSteps[i].group = "")
  IN [i \in DOMAIN added |-> Append(Open(added[i]), lgSteps[added[i]].attr)]
       \o [i \in DOMAIN lgOwn.attrs |-> Append(Open(Len(lgSteps)), lgOwn.attrs[i])]

\* A written line is the identity, the attributes nested as slog promises and
\* then the trace fields at the top level, although traceHandler splits the
\* steps at the first group between the sink and itself.
LineNestsAsSlog ==
  lgLine # NoRecord =>
    lgLine = Paths(identity) \o Promised \o IF lgOwn.span THEN Paths(traceFields) ELSE <<>>

\* The EventFn of a level gets the record exactly as the sink writes it: the
\* identity, the With attributes and the trace fields included.
HookSeesTheLine == lgSeen # NoRecord => lgSeen = lgLine

\* One line, for the sink and for the hooks.
LoggerSafety == TypeOK /\ LineNestsAsSlog /\ HookSeesTheLine
=============================================================================
