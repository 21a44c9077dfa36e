------------------------------ MODULE Scaffold ------------------------------
(***************************************************************************)
(* The skit command: new and add write files into the directory of a       *)
(* service that its developer edits.  A run checks its preconditions, then *)
(* writes its files one by one and may be interrupted between two; later   *)
(* runs meet what it left.                                                 *)
(*                                                                         *)
(* A file is <<area, package, name>>; its content is generated or edited.  *)
(* core.go and model.go stand for the files of a core package, handler.go  *)
(* for those of an api package and main.go for those of the bootstrap that *)
(* no command looks at.                                                    *)
(***************************************************************************)
EXTENDS Naturals, Sequences, FiniteSetsExt

CONSTANTS Pkg,          \* package names the arguments normalise to
          EntityNames,  \* those the core, REST and gRPC templates reserve
          Cmd,          \* the commands to run
          MaxRuns, MaxEdits

\* The commands of main; those the next steps name are there.
ASSUME ScaffoldAssumption ==
  /\ Cmd \subseteq {"new", "new-full", "rest", "rest-test", "grpc", "grpc-test", "consumer",
                   "worker", "cron", "event", "http-client", "migration"}
  /\ {"rest-test", "grpc-test"} \subseteq Cmd
  /\ MaxRuns \in Nat

VARIABLES files,   \* files in the directory
          edited,  \* those the developer wrote or changed
          running, \* the command under way, or Idle
          todo,    \* the files it has still to write, and how
          last,    \* the last command that ran to its end
          hinted,  \* commands that printed next steps told the developer to run
          runs

scaffoldVars == <<files, edited, running, todo, last, hinted, runs>>

Idle == [cmd |-> "none"]

-----------------------------------------------------------------------------
(* The files of each command *)

GoMod == <<"root", "none", "go.mod">>
Deps == <<"deps", "none", "deps.go">>

\* generateCore
CoreFiles(p) ==
  << <<"core", p, "core.go">>, <<"core", p, "model.go">>, <<"coredb", p, "db.go">>,
     <<"coremocks", p, "doc.go">> >>

\* generateRESTTests; the harness is shared by every entity.
RESTTests(p) ==
  << <<"api", p, "handler_test.go">>, <<"tests", p, "store_test.go">>,
     <<"tests", p, "test.go">>, <<"tests", "none", "harness_test.go">> >>

Starter == <<GoMod, <<"root", "none", "main.go">>, <<"root", "none", "README.md">> >>
FullStarter == Starter \o <<Deps, <<"server", "none", "server.go">>, <<"migrations", "init", 1>> >>

ProtoFiles(p) == << <<"proto", p, "v1.proto">>, <<"grpc", p, "handler.go">> >>
Bootstrap == << <<"server", "none", "grpc.go">>, <<"docs", "none", "docs.go">> >>

\* The package of a consumer, worker, cron, event or client and its test, which
\* --no-tests leaves out; only add rest is run with and without it here.
WithTest(area, c) == << <<area, c.pkg, "main.go">>, <<area, c.pkg, "test.go">> >>

HasDir(area, p) == \E f \in files : f[1] = area /\ f[2] = p
\* os.Stat of core/<pkg>: any file under it makes the directory.
HasCore(p) == \E area \in {"core", "coredb", "coremocks"} : HasDir(area, p)

\* nextMigrationSeq
NextSeqCount == Cardinality({f \in files : f[1] = "migrations"}) + 1
NextSeq == Max({0} \cup {f[3] : f \in {g \in files : g[1] = "migrations"}}) + 1

RESTFilesFresh(c) ==
  (IF HasCore(c.pkg) THEN <<>> ELSE CoreFiles(c.pkg)) \o << <<"api", c.pkg, "handler.go">> >>
    \o (IF c.tests THEN RESTTests(c.pkg) ELSE <<>>)

\* addREST
RESTFiles(c) ==
  CoreFiles(c.pkg) \o << <<"api", c.pkg, "handler.go">> >>
    \o (IF c.tests THEN RESTTests(c.pkg) ELSE <<>>)

\* addGRPC generates the core only when its directory is missing.
GRPCFiles(c) ==
  (IF HasCore(c.pkg) THEN <<>> ELSE CoreFiles(c.pkg)) \o ProtoFiles(c.pkg) \o Bootstrap

GRPCTestFiles(c) == << <<"grpc", c.pkg, "test.go">> >>

\* addConsumer: the handler, the shared configuration, and the transport of the
\* broker the flag names.
ConsumerFiles(c) ==
  << <<"consumers", c.pkg, "main.go">>, <<"config", "none", "consumer.go">>,
     <<"consumers", c.pkg, c.flag>>, <<"consumers", c.pkg, "test.go">> >>

WorkerFiles(c) == WithTest("workers", c)
CronFiles(c) == WithTest("crons", c)

\* addEvent: the event type goes into the core package that publishes it.
EventFiles(c) == << <<"core", c.core, c.pkg>> >> \o WithTest("events", c)

HTTPClientFiles(c) == WithTest("clients", c)

MigrationFiles(c) == << <<"migrations", c.pkg, NextSeq>> >>

\* What each command writes, given the directory it finds.
Files(c) ==
  CASE c.cmd = "new" -> Starter
    [] c.cmd = "new-full" -> FullStarter
    [] c.cmd = "rest" -> RESTFiles(c)
    [] c.cmd = "rest-test" -> RESTTests(c.pkg)
    [] c.cmd = "grpc" -> GRPCFiles(c)
    [] c.cmd = "grpc-test" -> GRPCTestFiles(c)
    [] c.cmd = "consumer" -> ConsumerFiles(c)
    [] c.cmd = "worker" -> WorkerFiles(c)
    [] c.cmd = "cron" -> CronFiles(c)
    [] c.cmd = "event" -> EventFiles(c)
    [] c.cmd = "http-client" -> HTTPClientFiles(c)
    [] c.cmd = "migration" -> MigrationFiles(c)

\* Files a command refuses to find: ensureAbsent, before anything is written.
MustBeAbsent(c) ==
  CASE c.cmd = "new-full" -> Range(FullStarter)
    [] c.cmd = "grpc" -> Range(ProtoFiles(c.pkg))
    [] c.cmd \notin {"new-full", "grpc"} -> {}

-----------------------------------------------------------------------------
(* The preconditions, all checked before the first write *)

Unnamed == {"new", "new-full"}
Entity == {"rest", "rest-test", "grpc", "grpc-test"}
IsNew(c) == c.cmd \in Unnamed

\* The check of --core and eventTypeName.
EventTypeOK(c) == c.core \notin EntityNames /\ c.core # c.pkg

\* checkName, and what an event checks beyond it.
NameOK(c) ==
  /\ c.cmd \in Entity => c.pkg \notin EntityNames
  /\ c.cmd = "event" => EventTypeOK(c)

\* moduleFromGoMod; --module, which stands in for a missing go.mod, is not given.
ModuleOK(c) == IsNew(c) \/ c.cmd = "migration" \/ GoMod \in files

\* requireDir of the -test commands.
DirsOK(c) ==
  /\ c.cmd = "rest-test" => HasCore(c.pkg) /\ HasDir("api", c.pkg)
  /\ c.cmd = "grpc-test" => HasDir("grpc", c.pkg)

\* ensureEmptyDir
EmptyDir == files = {}

\* A lock needs a schedule that ticks on every replica at once; --replace needs
\* --full; the minimal starter needs an empty directory.
FlagsOK(c) ==
  /\ ~(c.cmd = "cron" /\ c.flag = "lock @every")
  /\ ~(c.cmd = "new" /\ c.flag = "replace")
  /\ c.cmd = "new" => EmptyDir

Accepts(c) ==
  NameOK(c) /\ ModuleOK(c) /\ DirsOK(c) /\ FlagsOK(c) /\ MustBeAbsent(c) \cap files = {}

Flags(cmd) ==
  CASE cmd = "consumer" -> {"rmq", "kafka"}
    [] cmd = "cron" -> {"none", "lock", "lock @every"}
    [] cmd = "new" -> {"none", "replace"}
    [] cmd \notin {"consumer", "cron", "new"} -> {"none"}

Commands ==
  UNION {[cmd : {cmd}, flag : Flags(cmd),
          pkg : IF cmd \in Unnamed THEN {"none"} ELSE Pkg,
          tests : IF cmd = "rest" THEN BOOLEAN ELSE {FALSE},
          core : IF cmd = "event" THEN Pkg ELSE {"none"}] : cmd \in Cmd}

-----------------------------------------------------------------------------
\* The directory of a new service: empty, or with files of its developer.
Init ==
  /\ files \in {{}, {<<"root", "none", "README.md">>}, {GoMod}}
  /\ edited = files
  /\ running = Idle /\ todo = <<>>
  /\ last = Idle
  /\ hinted = {}
  /\ runs = 0

Start(c) ==
  /\ running = Idle /\ runs < MaxRuns
  /\ runs' = runs + 1
  /\ IF Accepts(c)
     THEN running' = c /\ todo' = Files(c)
     ELSE UNCHANGED <<running, todo>>
  /\ UNCHANGED <<files, edited, last, hinted>>

\* writeIfAbsent, or renderFile of a file that ensureAbsent saw absent.
WriteIfAbsent ==
  /\ todo # <<>>
  /\ files' = files \cup {Head(todo)}
  /\ todo' = Tail(todo)
  /\ UNCHANGED <<edited, running, last, hinted, runs>>

RESTNextSteps(c) == IF c.tests THEN {} ELSE {[c EXCEPT !.cmd = "rest-test"]}
GRPCNextSteps(c) == {[c EXCEPT !.cmd = "grpc-test"]}

\* The next steps a command prints that are commands themselves.
NextSteps(c) ==
  CASE c.cmd = "rest" -> RESTNextSteps(c)
    [] c.cmd = "grpc" -> GRPCNextSteps(c)
    [] c.cmd \notin {"rest", "grpc"} -> {}

Finish ==
  /\ running # Idle /\ todo = <<>>
  /\ last' = running
  /\ hinted' = hinted \cup NextSteps(running)
  /\ running' = Idle
  /\ UNCHANGED <<files, edited, todo, runs>>

\* A write fails or the developer stops the run.
Interrupt ==
  /\ todo # <<>>
  /\ running' = Idle /\ todo' = <<>>
  /\ UNCHANGED <<files, edited, last, hinted, runs>>

\* The developer edits a generated file.
Edit(f) ==
  /\ Cardinality(edited) < MaxEdits
  /\ f \in files \ edited
  /\ edited' = edited \cup {f}
  /\ UNCHANGED <<files, running, todo, last, hinted, runs>>

\* The developer removes a migration that was not applied yet.
DropMigration(f) ==
  /\ running = Idle /\ f \in files /\ f[1] = "migrations"
  /\ files' = files \ {f} /\ edited' = edited \ {f}
  /\ UNCHANGED <<running, todo, last, hinted, runs>>

Next ==
  \/ \E c \in Commands : Start(c)
  \/ WriteIfAbsent \/ Finish \/ Interrupt
  \/ \E f \in files : Edit(f) \/ DropMigration(f)

Spec == Init /\ [][Next]_scaffoldVars

-----------------------------------------------------------------------------
\* Only files of the directory are edited; what runs, ran or was hinted at is a
\* command.
TypeOK ==
  /\ edited \subseteq files
  /\ running \in Commands \cup {Idle} /\ last \in Commands \cup {Idle}
  /\ hinted \subseteq Commands
  /\ runs \in 0..MaxRuns

\* No run, whatever ran or was interrupted before it, takes a file of the
\* developer away or overwrites what they changed.
NeverClobbers ==
  running # Idle => edited \subseteq edited' /\ files \subseteq files'

\* A run that ends well leaves everything its templates refer to, also after
\* interrupted runs of this and of other commands: writing only what is absent
\* fills in what they left out.
RestIsWhole ==
  /\ last.cmd = "rest" => Range(CoreFiles(last.pkg)) \subseteq files
  /\ last.cmd = "rest-test" => HasCore(last.pkg) /\ Range(RESTTests(last.pkg)) \subseteq files

\* A command the next steps point at is accepted whenever it is run, whatever
\* runs in between.
HintsAreRunnable == \A c \in hinted : Accepts(c)

\* The number of a new migration is past those of all the others, also when
\* runs were interrupted, the bootstrap with its first migration came late or
\* the developer removed some.
MigrationsOrdered ==
  \A f \in files' \ files, g \in files :
    running.cmd = "migration" /\ g[1] = "migrations" => f[3] > g[3]

\* What a run leaves when it ends well, and what it tells the developer to run.
ScaffoldSafety == TypeOK /\ RestIsWhole /\ HintsAreRunnable
=============================================================================
