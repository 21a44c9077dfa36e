--------------------------- MODULE ScaffoldProofs ---------------------------
(* The command that scaffolds a service: what its runs leave in a directory,  *)
(* for any packages and reserved names and any number of runs and edits.      *)
EXTENDS Scaffold, WellFoundedInduction, TLAPS

\* Most leaves are first-order; the ones with arithmetic cite SMT.
USE Zenon

-----------------------------------------------------------------------------
(* Lists and numbers                                                       *)

\* A bounded, nonempty set of naturals has a greatest element, which is its Max.
LEMMA MaxIsGreatest ==
  ASSUME NEW S \in SUBSET Nat, S # {}, NEW b \in Nat, \A y \in S : y <= b
  PROVE  Max(S) \in S /\ \A y \in S : y <= Max(S)
<1> DEFINE T == {k \in Nat : \A y \in S : y <= k}
<1>1. \E k \in T : \A j \in T : ~(<<j, k>> \in OpToRel(<, Nat))
  <2>1. T \subseteq Nat /\ b \in T
    OBVIOUS
  <2> HIDE DEF T
  <2>2. IsWellFoundedOn(OpToRel(<, Nat), Nat)
    BY NatLessThanWellFounded
  <2> QED
    BY <2>1, <2>2, WFMin
<1>2. PICK k \in T : \A j \in T : ~(<<j, k>> \in OpToRel(<, Nat))
  BY <1>1
<1>3. k \in Nat /\ \A y \in S : y <= k
  OBVIOUS
<1>4. \A j \in T : ~(j < k)
  <2>1. \A j \in T : j \in Nat
    OBVIOUS
  <2>2. ASSUME NEW j \in Nat, j < k PROVE <<j, k>> \in OpToRel(<, Nat)
    <3>1. <<j, k>> \in Nat \X Nat /\ <<j, k>>[1] = j /\ <<j, k>>[2] = k
      BY <1>3, SMT
    <3> QED
      BY <2>2, <3>1, SMT DEF OpToRel
  <2> QED
    BY <1>2, <2>1, <2>2
<1>5. k \in S
  <2> SUFFICES ASSUME k \notin S PROVE FALSE
    OBVIOUS
  <2>1. PICK z \in S : TRUE
    OBVIOUS
  <2>2. \A y \in S : y \in Nat /\ y <= k /\ y # k
    BY <1>3
  <2>3. k - 1 \in Nat /\ \A y \in S : y <= k - 1
    BY <1>3, <2>1, <2>2, SMT
  <2>4. k - 1 \in T
    BY <2>3
  <2> HIDE DEF T
  <2> QED
    BY <1>3, <1>4, <2>4, SMT
<1>6. \A y \in S : k >= y
  BY <1>3, SMT
<1>7. Max(S) \in S /\ \A y \in S : Max(S) >= y
  BY <1>5, <1>6 DEF Max
<1> QED
  BY <1>7, SMT

\* Lists of files.
LEMMA RangeOfLists ==
  /\ Range(<<>>) = {}
  /\ \A u : Range(<<u>>) = {u}
  /\ \A u, v : Range(<<u, v>>) = {u, v}
  /\ \A u, v, x, y : Range(<<u, v, x, y>>) = {u, v, x, y}
<1>1. Range(<<>>) = {}
  BY SMT DEF Range
<1>2. \A u : Range(<<u>>) = {u}
  BY SMT DEF Range
<1>3. \A u, v : Range(<<u, v>>) = {u, v}
  BY SMT DEF Range
<1>4. \A u, v, x, y : Range(<<u, v, x, y>>) = {u, v, x, y}
  BY SMT DEF Range
<1> QED
  BY <1>1, <1>2, <1>3, <1>4

\* The range of a concatenation.
LEMMA RangeOfConcat ==
  ASSUME NEW S, NEW q \in Seq(S), NEW r \in Seq(S)
  PROVE  q \o r \in Seq(S) /\ Range(q \o r) = Range(q) \cup Range(r)
<1> DEFINE w == q \o r
<1>1. /\ w \in Seq(S) /\ Len(w) = Len(q) + Len(r) /\ Len(q) \in Nat /\ Len(r) \in Nat
      /\ DOMAIN w = 1 .. Len(w) /\ DOMAIN q = 1 .. Len(q) /\ DOMAIN r = 1 .. Len(r)
      /\ \A i \in 1 .. Len(w) : w[i] = IF i <= Len(q) THEN q[i] ELSE r[i - Len(q)]
  BY SMT
<1> HIDE DEF w
<1>2. ASSUME NEW i \in DOMAIN w PROVE w[i] \in Range(q) \cup Range(r)
  <2>1. i \in 1 .. Len(w) /\ (i <= Len(q) => i \in DOMAIN q) /\ (~(i <= Len(q)) => i - Len(q) \in DOMAIN r)
    BY <1>1, SMT
  <2> QED
    BY <1>1, <2>1 DEF Range
<1>3. ASSUME NEW i \in DOMAIN q PROVE q[i] \in Range(w)
  <2>1. i \in 1 .. Len(w) /\ i <= Len(q)
    BY <1>1, SMT
  <2> QED
    BY <1>1, <2>1 DEF Range
<1>4. ASSUME NEW i \in DOMAIN r PROVE r[i] \in Range(w)
  <2>1. PICK j \in 1 .. Len(w) : ~(j <= Len(q)) /\ j - Len(q) = i
    <3>1. i + Len(q) \in 1 .. Len(w) /\ ~(i + Len(q) <= Len(q)) /\ (i + Len(q)) - Len(q) = i
      BY <1>1, SMT
    <3> QED
      BY <3>1
  <2> QED
    BY <1>1, <2>1 DEF Range
<1>5. Range(w) = Range(q) \cup Range(r)
  BY <1>2, <1>3, <1>4 DEF Range
<1> QED
  BY <1>1, <1>5 DEF w

\* A list is its first file and the rest.
LEMMA RangeOfTail ==
  ASSUME NEW S, NEW q \in Seq(S), q # <<>>
  PROVE  Head(q) \in S /\ Tail(q) \in Seq(S) /\ Range(q) = {Head(q)} \cup Range(Tail(q))
<1> DEFINE t == Tail(q)
<1>1. /\ t \in Seq(S) /\ Len(q) \in Nat /\ Len(q) >= 1 /\ Len(t) = Len(q) - 1 /\ Head(q) = q[1]
      /\ DOMAIN t = 1 .. Len(t) /\ DOMAIN q = 1 .. Len(q) /\ q[1] \in S
      /\ \A i \in 1 .. Len(t) : t[i] = q[i + 1]
  BY SMT
<1> HIDE DEF t
<1>2. ASSUME NEW i \in DOMAIN q PROVE q[i] \in {q[1]} \cup Range(t)
  <2>1. CASE i = 1
    BY <2>1
  <2>2. CASE i # 1
    <3>1. PICK j \in 1 .. Len(t) : j + 1 = i
      <4>1. i - 1 \in 1 .. Len(t) /\ (i - 1) + 1 = i
        BY <1>1, <2>2, SMT
      <4> QED
        BY <4>1
    <3> QED
      BY <1>1, <3>1 DEF Range
  <2> QED
    BY <2>1, <2>2
<1>3. ASSUME NEW i \in DOMAIN t PROVE t[i] \in Range(q)
  <2>1. i \in 1 .. Len(t) /\ i + 1 \in DOMAIN q
    BY <1>1, SMT
  <2> QED
    BY <1>1, <2>1 DEF Range
<1>4. 1 \in DOMAIN q
  BY <1>1, SMT
<1>5. Range(q) = {q[1]} \cup Range(t)
  BY <1>2, <1>3, <1>4 DEF Range
<1> QED
  BY <1>1, <1>5 DEF t

-----------------------------------------------------------------------------
Areas ==
  {"root", "deps", "core", "coredb", "coremocks", "api", "tests", "server", "migrations", "proto",
   "grpc", "docs", "consumers", "config", "workers", "crons", "events", "clients"}
Packages == Pkg \cup {"none", "init"}
Names ==
  {"go.mod", "deps.go", "core.go", "model.go", "db.go", "doc.go", "handler_test.go",
   "store_test.go", "test.go", "harness_test.go", "main.go", "README.md", "server.go",
   "v1.proto", "handler.go", "grpc.go", "docs.go", "consumer.go", "rmq", "kafka"}
FileSet == Areas \X Packages \X (Names \cup Pkg \cup Nat)

CoreGo(p) == <<"core", p, "core.go">>
ApiGo(p) == <<"api", p, "handler.go">>
GrpcGo(p) == <<"grpc", p, "handler.go">>

IsMigration(f) == f[1] = "migrations"

\* There is a last migration, written or to be written.
Numbered ==
  \E b \in Nat : \A f \in files \cup Range(todo) : IsMigration(f) => f[3] \in Nat /\ f[3] <= b

\* The lists hold files, and an idle directory has nothing to write.
ListsInv ==
  /\ files \subseteq FileSet /\ todo \in Seq(FileSet)
  /\ running = Idle => todo = <<>>
  /\ Numbered

\* The files of S are there, or will be when the command ends.
Coming(S) == S \subseteq files \cup Range(todo)

\* What a command that was accepted found and will leave.
RunInv ==
  /\ running.cmd \in {"rest", "grpc"} => GoMod \in files /\ running.pkg \notin EntityNames
  /\ running.cmd = "rest" => Coming(Range(CoreFiles(running.pkg)) \cup {ApiGo(running.pkg)})
  /\ running.cmd = "rest-test" => HasCore(running.pkg) /\ Coming(Range(RESTTests(running.pkg)))
  /\ running.cmd = "grpc" => Coming({GrpcGo(running.pkg)})
  /\ running.cmd = "migration" /\ todo # <<>> =>
       /\ Tail(todo) = <<>>
       /\ \A g \in files : IsMigration(g) => Head(todo)[3] > g[3]

\* What the command of a hint needs is there.
HintInv ==
  \A c \in hinted :
    /\ GoMod \in files /\ c.pkg \notin EntityNames
    /\ \/ c.cmd = "rest-test" /\ {CoreGo(c.pkg), ApiGo(c.pkg)} \subseteq files
       \/ c.cmd = "grpc-test" /\ GrpcGo(c.pkg) \in files

ScaffoldInv == TypeOK /\ ListsInv /\ RunInv /\ RestIsWhole /\ HintInv

\* What the arguments of a command are.
LEMMA CommandIs ==
  ASSUME NEW c \in Commands
  PROVE  /\ c.cmd \in Cmd
         /\ c.cmd \notin Unnamed => c.pkg \in Pkg
         /\ c.cmd = "event" => c.core \in Pkg
         /\ c.cmd = "consumer" => c.flag \in {"rmq", "kafka"}
         /\ c.tests \in BOOLEAN
         /\ c.cmd # "rest" => ~c.tests
<1>1. PICK cmd \in Cmd :
        c \in [cmd : {cmd}, flag : Flags(cmd),
               pkg : IF cmd \in Unnamed THEN {"none"} ELSE Pkg,
               tests : IF cmd = "rest" THEN BOOLEAN ELSE {FALSE},
               core : IF cmd = "event" THEN Pkg ELSE {"none"}]
  BY DEF Commands
<1>2. c.cmd = cmd
  BY <1>1
<1>3. /\ c.flag \in Flags(c.cmd)
      /\ c.pkg \in IF c.cmd \in Unnamed THEN {"none"} ELSE Pkg
      /\ c.tests \in IF c.cmd = "rest" THEN BOOLEAN ELSE {FALSE}
      /\ c.core \in IF c.cmd = "event" THEN Pkg ELSE {"none"}
  BY <1>1, <1>2
<1>4. c.cmd = "consumer" => Flags(c.cmd) = {"rmq", "kafka"}
  BY SMT DEF Flags
<1>5. c.tests \in BOOLEAN
  BY <1>3
<1> QED
  BY <1>2, <1>3, <1>4, <1>5

\* Most commands have no flags.
LEMMA NoFlags ==
  ASSUME NEW x, x \notin {"consumer", "cron", "new"}
  PROVE  Flags(x) = {"none"}
  BY SMT DEF Flags

\* A hint of add rest or add grpc is a command.
LEMMA HintIs ==
  ASSUME NEW c \in Commands, c.cmd \in {"rest", "grpc"}, ~c.tests,
         NEW hint \in {"rest-test", "grpc-test"}
  PROVE  /\ [c EXCEPT !.cmd = hint] \in Commands
         /\ [c EXCEPT !.cmd = hint].cmd = hint
         /\ [c EXCEPT !.cmd = hint].pkg = c.pkg
<1>1. PICK cmd \in Cmd :
        c \in [cmd : {cmd}, flag : Flags(cmd),
               pkg : IF cmd \in Unnamed THEN {"none"} ELSE Pkg,
               tests : IF cmd = "rest" THEN BOOLEAN ELSE {FALSE},
               core : IF cmd = "event" THEN Pkg ELSE {"none"}]
  BY DEF Commands
<1>2. c.cmd = cmd
  BY <1>1
<1>3. cmd \notin Unnamed /\ cmd # "event" /\ hint \notin Unnamed /\ hint # "event" /\ hint # "rest"
  BY <1>2 DEF Unnamed
<1>4. Flags(cmd) = {"none"} /\ Flags(hint) = {"none"}
  <2>1. cmd \notin {"consumer", "cron", "new"} /\ hint \notin {"consumer", "cron", "new"}
    BY <1>2
  <2> QED
    BY <2>1, NoFlags
<1>5. c \in [cmd : {cmd}, flag : {"none"}, pkg : Pkg, tests : {FALSE}, core : {"none"}]
  <2>1. c.tests \in BOOLEAN
    BY CommandIs
  <2>2. c \in [cmd : {cmd}, flag : {"none"}, pkg : Pkg, tests : BOOLEAN, core : {"none"}]
    BY <1>1, <1>3, <1>4
  <2> QED
    BY <2>1, <2>2
<1> DEFINE d == [c EXCEPT !.cmd = hint]
<1>6. d \in [cmd : {hint}, flag : {"none"}, pkg : Pkg, tests : {FALSE}, core : {"none"}]
  BY <1>5
<1>7. d.cmd = hint /\ d.pkg = c.pkg
  BY <1>5
<1>8. hint \in Cmd
  BY ScaffoldAssumption
<1> HIDE DEF d
<1>9. d \in Commands
  BY <1>3, <1>4, <1>6, <1>8 DEF Commands
<1> QED
  BY <1>7, <1>9 DEF d

-----------------------------------------------------------------------------
(* The files of a command *)

\* Short lists of members of a set.
LEMMA ListsOf ==
  ASSUME NEW S
  PROVE  /\ <<>> \in Seq(S)
         /\ \A u \in S : <<u>> \in Seq(S)
         /\ \A u, v \in S : <<u, v>> \in Seq(S)
         /\ \A u, v, x \in S : <<u, v, x>> \in Seq(S)
         /\ \A u, v, x, y \in S : <<u, v, x, y>> \in Seq(S)
<1>1. <<>> \in Seq(S) /\ (\A u \in S : <<u>> \in Seq(S)) /\ (\A u, v \in S : <<u, v>> \in Seq(S))
  BY SMT
<1>2. \A u, v, x \in S : <<u, v, x>> \in Seq(S)
  BY SMT
<1>3. \A u, v, x, y \in S : <<u, v, x, y>> \in Seq(S)
  BY SMT
<1> QED
  BY <1>1, <1>2, <1>3

\* A list of a subset is a list of the set, and its range is in the subset.
LEMMA SubLists ==
  ASSUME NEW S, NEW T \in SUBSET S, NEW q \in Seq(T)
  PROVE  q \in Seq(S) /\ Range(q) \subseteq T
<1>1. Len(q) \in Nat /\ DOMAIN q = 1 .. Len(q) /\ q \in [1 .. Len(q) -> T]
  BY SMT
<1>2. q \in [1 .. Len(q) -> S]
  BY <1>1
<1>3. q \in Seq(S)
  BY <1>1, <1>2, SMT
<1> QED
  BY <1>1, <1>3 DEF Range

\* nextMigrationSeq returns a number past every migration there is.
LEMMA NextIsNew ==
  ASSUME Numbered
  PROVE  NextSeq \in Nat /\ \A g \in files : IsMigration(g) => g[3] \in Nat /\ g[3] < NextSeq
<1> DEFINE S == {0} \cup {f[3] : f \in {g \in files : g[1] = "migrations"}}
<1>1. PICK b \in Nat : \A f \in files \cup Range(todo) : IsMigration(f) => f[3] \in Nat /\ f[3] <= b
  BY DEF Numbered
<1>2. S \subseteq Nat /\ S # {}
  <2>1. \A f \in files : f[1] = "migrations" => f[3] \in Nat
    BY <1>1 DEF IsMigration
  <2>2. 0 \in Nat
    BY SMT
  <2> QED
    BY <2>1, <2>2
<1>3. \A y \in S : y <= b
  <2>1. 0 <= b
    BY SMT
  <2> QED
    BY <1>1, <2>1 DEF IsMigration
<1>4. NextSeq = Max(S) + 1
  BY DEF NextSeq
<1>5. \A g \in files : IsMigration(g) => g[3] \in S
  BY DEF IsMigration
<1> HIDE DEF S
<1>6. Max(S) \in S /\ \A y \in S : y <= Max(S)
  BY <1>2, <1>3, MaxIsGreatest
<1>7. Max(S) \in Nat /\ \A g \in files : IsMigration(g) => g[3] \in Nat /\ g[3] <= Max(S)
  BY <1>2, <1>5, <1>6
<1> QED
  BY <1>4, <1>7, SMT

\* What a command may write: migrations get the first number or the next.
Writable == {f \in FileSet : IsMigration(f) => f[3] \in {1, NextSeq}}

\* A file that is no migration.
LEMMA PlainFile ==
  ASSUME NEW a \in Areas \ {"migrations"}, NEW p \in Packages, NEW n \in Names \cup Pkg
  PROVE  <<a, p, n>> \in Writable
<1>1. <<a, p, n>> \in FileSet
  BY DEF FileSet
<1>2. <<a, p, n>>[1] = a
  BY SMT
<1> QED
  BY <1>1, <1>2 DEF Writable, IsMigration

\* A migration with the first number or the next.
LEMMA MigrationFile ==
  ASSUME NEW p \in Packages, NEW n \in Nat, n = 1 \/ n = NextSeq
  PROVE  <<"migrations", p, n>> \in Writable
<1>1. <<"migrations", p, n>> \in FileSet
  BY DEF FileSet, Areas
<1>2. <<"migrations", p, n>>[3] = n
  BY SMT
<1> QED
  BY <1>1, <1>2 DEF Writable

\* The parts of the commands' lists.
LEMMA PartsAre ==
  ASSUME NEW p \in Pkg
  PROVE  /\ CoreFiles(p) \in Seq(Writable) /\ RESTTests(p) \in Seq(Writable)
         /\ ProtoFiles(p) \in Seq(Writable) /\ Bootstrap \in Seq(Writable)
<1>1. p \in Packages /\ "none" \in Packages
  BY DEF Packages
<1>2. CoreFiles(p) \in Seq(Writable)
  <2>1. /\ <<"core", p, "core.go">> \in Writable /\ <<"core", p, "model.go">> \in Writable
        /\ <<"coredb", p, "db.go">> \in Writable /\ <<"coremocks", p, "doc.go">> \in Writable
    BY <1>1, PlainFile DEF Areas, Names
  <2> QED
    BY <2>1, ListsOf DEF CoreFiles
<1>3. RESTTests(p) \in Seq(Writable)
  <2>1. /\ <<"api", p, "handler_test.go">> \in Writable /\ <<"tests", p, "store_test.go">> \in Writable
        /\ <<"tests", p, "test.go">> \in Writable /\ <<"tests", "none", "harness_test.go">> \in Writable
    BY <1>1, PlainFile DEF Areas, Names
  <2> QED
    BY <2>1, ListsOf DEF RESTTests
<1>4. ProtoFiles(p) \in Seq(Writable)
  <2>1. <<"proto", p, "v1.proto">> \in Writable /\ <<"grpc", p, "handler.go">> \in Writable
    BY <1>1, PlainFile DEF Areas, Names
  <2> QED
    BY <2>1, ListsOf DEF ProtoFiles
<1>5. Bootstrap \in Seq(Writable)
  <2>1. <<"server", "none", "grpc.go">> \in Writable /\ <<"docs", "none", "docs.go">> \in Writable
    BY <1>1, PlainFile DEF Areas, Names
  <2> QED
    BY <2>1, ListsOf DEF Bootstrap
<1> QED
  BY <1>2, <1>3, <1>4, <1>5

\* The two starters.
LEMMA StartersAre ==
  Starter \in Seq(Writable) /\ FullStarter \in Seq(Writable)
<1>1. "none" \in Packages /\ "init" \in Packages
  BY DEF Packages
<1>2. Starter \in Seq(Writable)
  <2>1. GoMod \in Writable /\ <<"root", "none", "main.go">> \in Writable
        /\ <<"root", "none", "README.md">> \in Writable
    BY <1>1, PlainFile DEF Areas, Names, GoMod
  <2> QED
    BY <2>1, ListsOf DEF Starter
<1>3. /\ Deps \in Writable /\ <<"server", "none", "server.go">> \in Writable
  BY <1>1, PlainFile DEF Areas, Names, Deps
<1>4. <<"migrations", "init", 1>> \in Writable
  <2>1. 1 \in Nat
    BY SMT
  <2> QED
    BY <1>1, <2>1, MigrationFile
<1> DEFINE more == <<Deps, <<"server", "none", "server.go">>, <<"migrations", "init", 1>> >>
<1>5. more \in Seq(Writable)
  BY <1>3, <1>4, ListsOf
<1>6. FullStarter = Starter \o more
  BY DEF FullStarter
<1> HIDE DEF more
<1> QED
  BY <1>2, <1>5, <1>6, RangeOfConcat

\* Every command has a list of files that it may write.
LEMMA FilesAre ==
  ASSUME NEW c \in Commands, Numbered
  PROVE  Files(c) \in Seq(Writable)
<1> DEFINE F == Files(c)
<1>1. /\ c.cmd \in Cmd
      /\ c.cmd \notin Unnamed => c.pkg \in Pkg
      /\ c.cmd = "event" => c.core \in Pkg
      /\ c.cmd = "consumer" => c.flag \in {"rmq", "kafka"}
      /\ c.tests \in BOOLEAN
  BY CommandIs
<1>2. NextSeq \in Nat
  BY NextIsNew
<1>3. \A q, r \in Seq(Writable) : q \o r \in Seq(Writable)
  BY RangeOfConcat
<1>4. \A p \in Pkg : p \in Packages
  BY DEF Packages
<1>5. ASSUME NEW area \in Areas \ {"migrations"}, c.pkg \in Pkg PROVE WithTest(area, c) \in Seq(Writable)
  <2>1. <<area, c.pkg, "main.go">> \in Writable /\ <<area, c.pkg, "test.go">> \in Writable
    BY <1>4, <1>5, PlainFile DEF Names
  <2> QED
    BY <2>1, ListsOf DEF WithTest
<1>6. CASE c.cmd = "new"
  BY <1>6, StartersAre, SMT DEF Files
<1>7. CASE c.cmd = "new-full"
  BY <1>7, StartersAre, SMT DEF Files
<1>8. CASE c.cmd = "rest"
  <2>1. c.pkg \in Pkg
    BY <1>1, <1>8 DEF Unnamed
  <2>2. F = RESTFiles(c)
    BY <1>8, SMT DEF Files
  <2>3. << <<"api", c.pkg, "handler.go">> >> \in Seq(Writable)
    <3>1. <<"api", c.pkg, "handler.go">> \in Writable
      BY <1>4, <2>1, PlainFile DEF Areas, Names
    <3> QED
      BY <3>1, ListsOf
  <2>4. (IF c.tests THEN RESTTests(c.pkg) ELSE <<>>) \in Seq(Writable)
    BY <2>1, PartsAre, ListsOf
  <2>5. CoreFiles(c.pkg) \in Seq(Writable)
    BY <2>1, PartsAre
  <2> QED
    BY <1>3, <2>2, <2>3, <2>4, <2>5 DEF RESTFiles
<1>9. CASE c.cmd = "rest-test"
  <2>1. c.pkg \in Pkg
    BY <1>1, <1>9 DEF Unnamed
  <2>2. F = RESTTests(c.pkg)
    BY <1>9, SMT DEF Files
  <2> QED
    BY <2>1, <2>2, PartsAre
<1>10. CASE c.cmd = "grpc"
  <2>1. c.pkg \in Pkg
    BY <1>1, <1>10 DEF Unnamed
  <2>2. F = GRPCFiles(c)
    BY <1>10, SMT DEF Files
  <2>3. (IF HasCore(c.pkg) THEN <<>> ELSE CoreFiles(c.pkg)) \in Seq(Writable)
    BY <2>1, PartsAre, ListsOf
  <2>4. ProtoFiles(c.pkg) \in Seq(Writable) /\ Bootstrap \in Seq(Writable)
    BY <2>1, PartsAre
  <2> QED
    BY <1>3, <2>2, <2>3, <2>4 DEF GRPCFiles
<1>11. CASE c.cmd = "grpc-test"
  <2>1. c.pkg \in Pkg
    BY <1>1, <1>11 DEF Unnamed
  <2>2. F = GRPCTestFiles(c)
    BY <1>11, SMT DEF Files
  <2>3. <<"grpc", c.pkg, "test.go">> \in Writable
    BY <1>4, <2>1, PlainFile DEF Areas, Names
  <2> QED
    BY <2>2, <2>3, ListsOf DEF GRPCTestFiles
<1>12. CASE c.cmd = "consumer"
  <2>1. c.pkg \in Pkg
    BY <1>1, <1>12 DEF Unnamed
  <2>2. F = ConsumerFiles(c)
    BY <1>12, SMT DEF Files
  <2>3. /\ <<"consumers", c.pkg, "main.go">> \in Writable
        /\ <<"config", "none", "consumer.go">> \in Writable
        /\ <<"consumers", c.pkg, "test.go">> \in Writable
    <3>1. "none" \in Packages
      BY DEF Packages
    <3> QED
      BY <1>4, <2>1, <3>1, PlainFile DEF Areas, Names
  <2>4. <<"consumers", c.pkg, c.flag>> \in Writable
    <3>1. c.flag \in Names
      BY <1>1, <1>12 DEF Names
    <3> QED
      BY <1>4, <2>1, <3>1, PlainFile DEF Areas
  <2> QED
    BY <2>2, <2>3, <2>4, ListsOf DEF ConsumerFiles
<1>13. CASE c.cmd = "worker"
  <2>1. F = WithTest("workers", c)
    BY <1>13, SMT DEF Files, WorkerFiles
  <2> QED
    BY <1>1, <1>5, <1>13, <2>1 DEF Unnamed, Areas
<1>14. CASE c.cmd = "cron"
  <2>1. F = WithTest("crons", c)
    BY <1>14, SMT DEF Files, CronFiles
  <2> QED
    BY <1>1, <1>5, <1>14, <2>1 DEF Unnamed, Areas
<1>15. CASE c.cmd = "event"
  <2>1. c.pkg \in Pkg
    BY <1>1, <1>15 DEF Unnamed
  <2>2. F = EventFiles(c)
    BY <1>15, SMT DEF Files
  <2>3. <<"core", c.core, c.pkg>> \in Writable
    BY <1>1, <1>4, <1>15, <2>1, PlainFile DEF Areas
  <2>4. << <<"core", c.core, c.pkg>> >> \in Seq(Writable)
    BY <2>3, ListsOf
  <2>5. WithTest("events", c) \in Seq(Writable)
    BY <1>5, <2>1 DEF Areas
  <2> QED
    BY <1>3, <2>2, <2>4, <2>5 DEF EventFiles
<1>16. CASE c.cmd = "http-client"
  <2>1. F = WithTest("clients", c)
    BY <1>16, SMT DEF Files, HTTPClientFiles
  <2> QED
    BY <1>1, <1>5, <1>16, <2>1 DEF Unnamed, Areas
<1>17. CASE c.cmd = "migration"
  <2>1. c.pkg \in Pkg
    BY <1>1, <1>17 DEF Unnamed
  <2>2. F = MigrationFiles(c)
    BY <1>17, SMT DEF Files
  <2>3. <<"migrations", c.pkg, NextSeq>> \in Writable
    BY <1>2, <1>4, <2>1, MigrationFile
  <2> QED
    BY <2>2, <2>3, ListsOf DEF MigrationFiles
<1>18. c.cmd \in {"new", "new-full", "rest", "rest-test", "grpc", "grpc-test", "consumer",
                  "worker", "cron", "event", "http-client", "migration"}
  BY <1>1, ScaffoldAssumption
<1> QED
  BY <1>6, <1>7, <1>8, <1>9, <1>10, <1>11, <1>12, <1>13, <1>14, <1>15, <1>16, <1>17, <1>18

-----------------------------------------------------------------------------
(* What stays *)

\* The files a finished run or a hint relies on are no migrations.
LEMMA PlainLists ==
  ASSUME NEW p
  PROVE  /\ Range(CoreFiles(p)) = {CoreGo(p), <<"core", p, "model.go">>, <<"coredb", p, "db.go">>,
                                   <<"coremocks", p, "doc.go">>}
         /\ \A f \in Range(CoreFiles(p)) \cup Range(RESTTests(p)) : ~IsMigration(f)
         /\ ~IsMigration(CoreGo(p)) /\ ~IsMigration(ApiGo(p)) /\ ~IsMigration(GrpcGo(p))
         /\ ~IsMigration(GoMod)
<1>1. Range(CoreFiles(p)) = {CoreGo(p), <<"core", p, "model.go">>, <<"coredb", p, "db.go">>,
                             <<"coremocks", p, "doc.go">>}
  <2>1. PICK u, v, x, y : /\ u = CoreGo(p) /\ v = <<"core", p, "model.go">>
                          /\ x = <<"coredb", p, "db.go">> /\ y = <<"coremocks", p, "doc.go">>
    OBVIOUS
  <2>2. CoreFiles(p) = <<u, v, x, y>>
    BY <2>1 DEF CoreFiles, CoreGo
  <2>3. Range(CoreFiles(p)) = {u, v, x, y}
    BY <2>2, RangeOfLists, SMT
  <2> QED
    BY <2>1, <2>3
<1>2. Range(RESTTests(p)) = {<<"api", p, "handler_test.go">>, <<"tests", p, "store_test.go">>,
                             <<"tests", p, "test.go">>, <<"tests", "none", "harness_test.go">>}
  <2>1. PICK u, v, x, y : /\ u = <<"api", p, "handler_test.go">> /\ v = <<"tests", p, "store_test.go">>
                          /\ x = <<"tests", p, "test.go">> /\ y = <<"tests", "none", "harness_test.go">>
    OBVIOUS
  <2>2. RESTTests(p) = <<u, v, x, y>>
    BY <2>1 DEF RESTTests
  <2>3. Range(RESTTests(p)) = {u, v, x, y}
    BY <2>2, RangeOfLists, SMT
  <2> QED
    BY <2>1, <2>3
<1>3. \A a, q, n : <<a, q, n>>[1] = a
  BY SMT
<1>4. \A a, q, n : a # "migrations" => ~IsMigration(<<a, q, n>>)
  BY <1>3 DEF IsMigration
<1>5. \A f \in Range(CoreFiles(p)) : ~IsMigration(f)
  BY <1>1, <1>4 DEF CoreGo
<1>6. \A f \in Range(RESTTests(p)) : ~IsMigration(f)
  BY <1>2, <1>4
<1>7. /\ ~IsMigration(CoreGo(p)) /\ ~IsMigration(ApiGo(p)) /\ ~IsMigration(GrpcGo(p))
      /\ ~IsMigration(GoMod)
  BY <1>4 DEF CoreGo, ApiGo, GrpcGo, GoMod
<1> QED
  BY <1>1, <1>5, <1>6, <1>7

\* No step takes a file away that is not a migration.
PlainStays == \A f \in files : ~IsMigration(f) => f \in files'

\* A core package stays.
LEMMA CoreStays ==
  ASSUME PlainStays, NEW p, HasCore(p)
  PROVE  HasCore(p)'
<1>1. PICK area \in {"core", "coredb", "coremocks"} : HasDir(area, p)
  BY DEF HasCore
<1>2. PICK f \in files : f[1] = area /\ f[2] = p
  BY <1>1 DEF HasDir
<1>3. f \in files'
  BY <1>2 DEF PlainStays, IsMigration
<1>4. HasDir(area, p)'
  BY <1>2, <1>3 DEF HasDir
<1> QED
  BY <1>4 DEF HasCore

\* What the last run left and what the hints need stays.
LEMMA DoneStays ==
  ASSUME PlainStays, RestIsWhole, HintInv, last' = last, hinted' = hinted
  PROVE  RestIsWhole' /\ HintInv'
<1>1. RestIsWhole'
  <2>1. PICK p : p = last.pkg
    OBVIOUS
  <2>2. p = last'.pkg
    BY <2>1
  <2>3. last'.cmd = "rest" => Range(CoreFiles(p)) \subseteq files'
    <3>1. last.cmd = "rest" => Range(CoreFiles(p)) \subseteq files
      BY <2>1 DEF RestIsWhole
    <3> QED
      BY <3>1, PlainLists DEF PlainStays
  <2>4. last.cmd = "rest-test" => HasCore(p) /\ Range(RESTTests(p)) \subseteq files
    BY <2>1 DEF RestIsWhole
  <2>5. last'.cmd = "rest-test" => HasCore(p)'
    BY <2>4, CoreStays
  <2>6. last'.cmd = "rest-test" => Range(RESTTests(p)) \subseteq files'
    BY <2>4, PlainLists DEF PlainStays
  <2> QED
    BY <2>2, <2>3, <2>5, <2>6 DEF RestIsWhole, HasCore, HasDir
<1>2. HintInv'
  <2> SUFFICES ASSUME NEW c \in hinted
               PROVE  /\ GoMod \in files' /\ c.pkg \notin EntityNames
                      /\ \/ c.cmd = "rest-test" /\ {CoreGo(c.pkg), ApiGo(c.pkg)} \subseteq files'
                         \/ c.cmd = "grpc-test" /\ GrpcGo(c.pkg) \in files'
    BY DEF HintInv
  <2>1. /\ GoMod \in files /\ c.pkg \notin EntityNames
        /\ \/ c.cmd = "rest-test" /\ {CoreGo(c.pkg), ApiGo(c.pkg)} \subseteq files
           \/ c.cmd = "grpc-test" /\ GrpcGo(c.pkg) \in files
    BY DEF HintInv
  <2>2. ~IsMigration(CoreGo(c.pkg)) /\ ~IsMigration(ApiGo(c.pkg)) /\ ~IsMigration(GrpcGo(c.pkg))
    BY PlainLists
  <2>3. ~IsMigration(GoMod)
    BY PlainLists
  <2> QED
    BY <2>1, <2>2, <2>3 DEF PlainStays
<1> QED
  BY <1>1, <1>2

\* Nothing runs.
LEMMA IdleIs ==
  /\ Idle.cmd = "none" /\ Idle \notin Commands
<1>1. Idle.cmd = "none"
  BY DEF Idle
<1>2. \A c \in Commands : c.cmd # "none"
  BY CommandIs, ScaffoldAssumption
<1> QED
  BY <1>1, <1>2

\* An idle directory has nothing to say about a run.
LEMMA IdleRun ==
  ASSUME running' = Idle
  PROVE  RunInv'
<1>1. running'.cmd = "none"
  BY IdleIs
<1> QED
  BY <1>1 DEF RunInv

\* A step that changes at most what is edited and the count of runs.
LEMMA SameRun ==
  ASSUME ScaffoldInv, UNCHANGED <<files, running, todo, last, hinted>>,
         edited' \subseteq files, runs' \in 0..MaxRuns
  PROVE  ScaffoldInv'
<1>1. files' = files /\ running' = running /\ todo' = todo /\ last' = last /\ hinted' = hinted
  OBVIOUS
<1>2. TypeOK'
  BY <1>1 DEF ScaffoldInv, TypeOK
<1>3. ListsInv'
  BY <1>1 DEF ScaffoldInv, ListsInv, Numbered
<1>4. RunInv'
  BY <1>1 DEF ScaffoldInv, RunInv, Coming, HasCore, HasDir
<1>5. PlainStays
  BY <1>1 DEF PlainStays
<1>6. RestIsWhole' /\ HintInv'
  BY <1>1, <1>5, DoneStays DEF ScaffoldInv
<1> QED
  BY <1>2, <1>3, <1>4, <1>6 DEF ScaffoldInv

-----------------------------------------------------------------------------
(* The steps *)

\* A command that is accepted has its files to write.
LEMMA StartKeeps ==
  ASSUME ScaffoldInv, NEW c \in Commands, Start(c)
  PROVE  ScaffoldInv'
<1>1. runs' \in 0..MaxRuns
  BY ScaffoldAssumption, SMT DEF ScaffoldInv, TypeOK, Start
<1>2. /\ running = Idle /\ files' = files /\ edited' = edited /\ last' = last /\ hinted' = hinted
      /\ edited \subseteq files
  BY DEF Start, ScaffoldInv, TypeOK
<1>3. CASE ~Accepts(c)
  <2>1. running' = running /\ todo' = todo
    BY <1>3 DEF Start
  <2> QED
    BY <1>1, <1>2, <2>1, SameRun
<1>4. CASE Accepts(c)
  <2>1. running' = c /\ todo' = Files(c)
    BY <1>4 DEF Start
  <2>2. Numbered
    BY DEF ScaffoldInv, ListsInv
  <2>3. todo' \in Seq(FileSet) /\ Range(todo') \subseteq Writable
    <3>1. Files(c) \in Seq(Writable)
      BY <2>2, FilesAre
    <3>2. Writable \in SUBSET FileSet
      BY DEF Writable
    <3> QED
      BY <2>1, <3>1, <3>2, SubLists
  <2>4. TypeOK'
    BY <1>1, <1>2, <2>1 DEF ScaffoldInv, TypeOK
  <2>5. c # Idle
    BY IdleIs
  <2>6. Numbered'
    <3>1. PICK b \in Nat : \A f \in files \cup Range(todo) : IsMigration(f) => f[3] \in Nat /\ f[3] <= b
      BY <2>2 DEF Numbered
    <3>2. NextSeq \in Nat
      BY <2>2, NextIsNew
    <3> DEFINE m == b + NextSeq + 1
    <3>3. m \in Nat /\ b <= m /\ 1 <= m /\ NextSeq <= m
      BY <3>2, SMT
    <3> HIDE DEF m
    <3>4. ASSUME NEW f \in files, IsMigration(f) PROVE f[3] \in Nat /\ f[3] <= m
      <4>1. f[3] \in Nat /\ f[3] <= b
        BY <3>1, <3>4
      <4> QED
        BY <3>3, <4>1, SMT
    <3>5. ASSUME NEW f \in Range(todo'), IsMigration(f) PROVE f[3] \in Nat /\ f[3] <= m
      <4>1. f[3] = 1 \/ f[3] = NextSeq
        BY <2>3, <3>5 DEF Writable
      <4> QED
        BY <3>2, <3>3, <4>1, SMT
    <3> QED
      BY <1>2, <3>3, <3>4, <3>5 DEF Numbered, IsMigration
  <2>7. ListsInv'
    BY <1>2, <2>1, <2>3, <2>5, <2>6 DEF ScaffoldInv, ListsInv
  <2>8. RunInv'
    <3>1. c.cmd \in {"rest", "grpc"} => GoMod \in files /\ c.pkg \notin EntityNames
      BY <1>4 DEF Accepts, NameOK, ModuleOK, IsNew, Unnamed, Entity
    <3>2. c.cmd \in {"rest", "rest-test", "grpc", "migration"} => c.pkg \in Pkg
      BY CommandIs DEF Unnamed
    <3>3. c.cmd = "rest" => Range(CoreFiles(c.pkg)) \cup {ApiGo(c.pkg)} \subseteq Range(todo')
      <4> SUFFICES ASSUME c.cmd = "rest"
                   PROVE  Range(CoreFiles(c.pkg)) \cup {ApiGo(c.pkg)} \subseteq Range(todo')
        OBVIOUS
      <4> DEFINE core == CoreFiles(c.pkg)
                 api == <<ApiGo(c.pkg)>>
                 tests == IF c.tests THEN RESTTests(c.pkg) ELSE <<>>
      <4>1. todo' = (core \o api) \o tests
        <5>1. Files(c) = RESTFiles(c)
          BY SMT DEF Files
        <5> QED
          BY <2>1, <5>1 DEF RESTFiles, ApiGo
      <4>2. core \in Seq(Writable)
        BY <3>2, PartsAre
      <4>3. api \in Seq(Writable)
        <5>1. "api" \in Areas \ {"migrations"} /\ c.pkg \in Packages /\ "handler.go" \in Names \cup Pkg
          BY <3>2 DEF Areas, Packages, Names
        <5>2. ApiGo(c.pkg) \in Writable
          BY <5>1, PlainFile DEF ApiGo
        <5> QED
          BY <5>2, ListsOf
      <4>4. tests \in Seq(Writable)
        BY <3>2, PartsAre, ListsOf
      <4>5. Range(api) = {ApiGo(c.pkg)}
        BY RangeOfLists, SMT
      <4> HIDE DEF core, api, tests
      <4>concat. \A q, r \in Seq(Writable) : q \o r \in Seq(Writable) /\ Range(q \o r) = Range(q) \cup Range(r)
        BY RangeOfConcat
      <4>6. core \o api \in Seq(Writable) /\ Range(core \o api) = Range(core) \cup Range(api)
        BY <4>2, <4>3, <4>concat
      <4>7. Range(todo') = Range(core \o api) \cup Range(tests)
        BY <4>1, <4>4, <4>6, <4>concat
      <4>8. Range(core) \cup {ApiGo(c.pkg)} \subseteq Range(todo')
        BY <4>5, <4>6, <4>7
      <4> QED
        BY <4>8 DEF core
    <3>4. c.cmd = "rest-test" => HasCore(c.pkg) /\ Range(RESTTests(c.pkg)) \subseteq Range(todo')
      <4>1. c.cmd = "rest-test" => Files(c) = RESTTests(c.pkg)
        BY SMT DEF Files
      <4> QED
        BY <1>4, <2>1, <4>1 DEF Accepts, DirsOK
    <3>5. c.cmd = "grpc" => GrpcGo(c.pkg) \in Range(todo')
      <4> SUFFICES ASSUME c.cmd = "grpc" PROVE GrpcGo(c.pkg) \in Range(todo')
        OBVIOUS
      <4> DEFINE core == IF HasCore(c.pkg) THEN <<>> ELSE CoreFiles(c.pkg)
                 proto == ProtoFiles(c.pkg)
      <4>1. todo' = (core \o proto) \o Bootstrap
        <5>1. Files(c) = GRPCFiles(c)
          BY SMT DEF Files
        <5> QED
          BY <2>1, <5>1 DEF GRPCFiles
      <4>2. core \in Seq(Writable) /\ proto \in Seq(Writable) /\ Bootstrap \in Seq(Writable)
        BY <3>2, PartsAre, ListsOf
      <4>3. GrpcGo(c.pkg) \in Range(proto)
        BY RangeOfLists, SMT DEF ProtoFiles, GrpcGo
      <4> HIDE DEF core, proto
      <4>concat. \A q, r \in Seq(Writable) : q \o r \in Seq(Writable) /\ Range(q \o r) = Range(q) \cup Range(r)
        BY RangeOfConcat
      <4>4. core \o proto \in Seq(Writable) /\ Range(core \o proto) = Range(core) \cup Range(proto)
        BY <4>2, <4>concat
      <4>5. Range(todo') = Range(core \o proto) \cup Range(Bootstrap)
        BY <4>1, <4>2, <4>4, <4>concat
      <4> QED
        BY <4>3, <4>4, <4>5
    <3>6. c.cmd = "migration" => /\ Tail(todo') = <<>>
                                 /\ \A g \in files : IsMigration(g) => Head(todo')[3] > g[3]
      <4> SUFFICES ASSUME c.cmd = "migration"
                   PROVE  /\ Tail(todo') = <<>>
                          /\ \A g \in files : IsMigration(g) => Head(todo')[3] > g[3]
        OBVIOUS
      <4>1. Files(c) = << <<"migrations", c.pkg, NextSeq>> >>
        BY SMT DEF Files, MigrationFiles
      <4>2. PICK f : f = <<"migrations", c.pkg, NextSeq>>
        OBVIOUS
      <4>3. todo' = <<f>> /\ f[3] = NextSeq
        BY <2>1, <4>1, <4>2, SMT
      <4>4. Tail(todo') = <<>> /\ Head(todo') = f
        BY <4>3, SMT
      <4>5. NextSeq \in Nat /\ \A g \in files : IsMigration(g) => g[3] \in Nat /\ g[3] < NextSeq
        BY <2>2, NextIsNew
      <4>6. \A g \in files : IsMigration(g) => NextSeq > g[3]
        BY <4>5, SMT
      <4> QED
        BY <4>3, <4>4, <4>6
    <3>7. HasCore(c.pkg) => HasCore(c.pkg)'
      BY <1>2 DEF HasCore, HasDir
    <3> QED
      BY <1>2, <2>1, <3>1, <3>3, <3>4, <3>5, <3>6, <3>7 DEF RunInv, Coming, IsMigration
  <2>9. RestIsWhole' /\ HintInv'
    <3>1. PlainStays
      BY <1>2 DEF PlainStays
    <3> QED
      BY <1>2, <3>1, DoneStays DEF ScaffoldInv
  <2> QED
    BY <2>4, <2>7, <2>8, <2>9 DEF ScaffoldInv
<1> QED
  BY <1>3, <1>4

\* A file that was to be written is there.
LEMMA WriteKeeps ==
  ASSUME ScaffoldInv, WriteIfAbsent
  PROVE  ScaffoldInv'
<1>1. /\ todo # <<>> /\ files' = files \cup {Head(todo)} /\ todo' = Tail(todo)
      /\ edited' = edited /\ running' = running /\ last' = last /\ hinted' = hinted /\ runs' = runs
  BY DEF WriteIfAbsent
<1>2. /\ Head(todo) \in FileSet /\ Tail(todo) \in Seq(FileSet)
      /\ Range(todo) = {Head(todo)} \cup Range(Tail(todo))
  BY <1>1, RangeOfTail DEF ScaffoldInv, ListsInv
<1>3. files' \cup Range(todo') = files \cup Range(todo) /\ files \subseteq files'
  BY <1>1, <1>2
<1>4. TypeOK'
  BY <1>1 DEF ScaffoldInv, TypeOK
<1>5. ListsInv'
  <2>1. running # Idle
    BY <1>1 DEF ScaffoldInv, ListsInv
  <2>2. Numbered'
    BY <1>3 DEF ScaffoldInv, ListsInv, Numbered, IsMigration
  <2>3. files' \subseteq FileSet /\ todo' \in Seq(FileSet)
    BY <1>1, <1>2 DEF ScaffoldInv, ListsInv
  <2> QED
    BY <1>1, <2>1, <2>2, <2>3 DEF ListsInv
<1>6. PlainStays
  BY <1>3 DEF PlainStays
<1>7. RunInv'
  <2>1. PICK p : p = running.pkg
    OBVIOUS
  <2>2. /\ running.cmd \in {"rest", "grpc"} => GoMod \in files /\ p \notin EntityNames
        /\ running.cmd = "rest" => Coming(Range(CoreFiles(p)) \cup {ApiGo(p)})
        /\ running.cmd = "rest-test" => HasCore(p) /\ Coming(Range(RESTTests(p)))
        /\ running.cmd = "grpc" => Coming({GrpcGo(p)})
        /\ running.cmd = "migration" => Tail(todo) = <<>>
    BY <1>1, <2>1 DEF ScaffoldInv, RunInv
  <2>3. running.cmd = "rest-test" => HasCore(p)'
    BY <1>6, <2>2, CoreStays
  <2>4. \A S : Coming(S) => S \subseteq files' \cup Range(todo')
    BY <1>3 DEF Coming
  <2>5. p = running'.pkg /\ running'.cmd = running.cmd
    BY <1>1, <2>1
  <2>6. /\ running'.cmd \in {"rest", "grpc"} => GoMod \in files' /\ p \notin EntityNames
        /\ running'.cmd = "rest" => Range(CoreFiles(p)) \cup {ApiGo(p)} \subseteq files' \cup Range(todo')
        /\ running'.cmd = "rest-test" => Range(RESTTests(p)) \subseteq files' \cup Range(todo')
        /\ running'.cmd = "grpc" => {GrpcGo(p)} \subseteq files' \cup Range(todo')
        /\ running'.cmd = "migration" => todo' = <<>>
    BY <1>1, <1>3, <2>2, <2>4, <2>5
  <2>7. running'.cmd = "rest-test" => HasCore(p)'
    BY <2>3, <2>5
  <2> QED
    BY <2>5, <2>6, <2>7 DEF RunInv, Coming, HasCore, HasDir
<1>8. RestIsWhole' /\ HintInv'
  BY <1>1, <1>6, DoneStays DEF ScaffoldInv
<1> QED
  BY <1>4, <1>5, <1>7, <1>8 DEF ScaffoldInv

\* A run that ends has written all its files, and what its hints need.
LEMMA FinishKeeps ==
  ASSUME ScaffoldInv, Finish
  PROVE  ScaffoldInv'
<1>1. /\ running # Idle /\ todo = <<>> /\ last' = running /\ hinted' = hinted \cup NextSteps(running)
      /\ running' = Idle /\ files' = files /\ edited' = edited /\ todo' = todo /\ runs' = runs
  BY DEF Finish
<1>2. running \in Commands
  BY <1>1 DEF ScaffoldInv, TypeOK
<1>3. Range(todo) = {}
  BY <1>1, RangeOfLists
<1>4. PICK c \in Commands : c = running
  BY <1>2
<1>5. /\ c.cmd \in {"rest", "grpc"} => GoMod \in files /\ c.pkg \notin EntityNames
      /\ c.cmd = "rest" => Range(CoreFiles(c.pkg)) \cup {ApiGo(c.pkg)} \subseteq files
      /\ c.cmd = "rest-test" => HasCore(c.pkg) /\ Range(RESTTests(c.pkg)) \subseteq files
      /\ c.cmd = "grpc" => GrpcGo(c.pkg) \in files
  BY <1>3, <1>4 DEF ScaffoldInv, RunInv, Coming
<1>6. ASSUME NEW h \in NextSteps(c)
      PROVE  /\ h \in Commands /\ GoMod \in files /\ h.pkg \notin EntityNames
             /\ \/ h.cmd = "rest-test" /\ {CoreGo(h.pkg), ApiGo(h.pkg)} \subseteq files
                \/ h.cmd = "grpc-test" /\ GrpcGo(h.pkg) \in files
  <2>1. CASE c.cmd = "rest"
    <3>1. NextSteps(c) = RESTNextSteps(c)
      BY <2>1, SMT DEF NextSteps
    <3>2. ~c.tests /\ h = [c EXCEPT !.cmd = "rest-test"]
      BY <3>1 DEF RESTNextSteps
    <3>3. h \in Commands /\ h.cmd = "rest-test" /\ h.pkg = c.pkg
      BY <2>1, <3>2, HintIs
    <3>4. CoreGo(c.pkg) \in Range(CoreFiles(c.pkg))
      BY PlainLists
    <3> QED
      BY <1>5, <2>1, <3>3, <3>4
  <2>2. CASE c.cmd = "grpc"
    <3>1. NextSteps(c) = GRPCNextSteps(c)
      BY <2>2, SMT DEF NextSteps
    <3>2. h = [c EXCEPT !.cmd = "grpc-test"]
      BY <3>1 DEF GRPCNextSteps
    <3>3. ~c.tests
      BY <2>2, CommandIs
    <3>4. h \in Commands /\ h.cmd = "grpc-test" /\ h.pkg = c.pkg
      BY <2>2, <3>2, <3>3, HintIs
    <3> QED
      BY <1>5, <2>2, <3>4
  <2>3. CASE c.cmd \notin {"rest", "grpc"}
    <3>1. NextSteps(c) = {}
      BY <2>3, SMT DEF NextSteps
    <3> QED
      BY <3>1
  <2> QED
    BY <2>1, <2>2, <2>3
<1>7. TypeOK'
  BY <1>1, <1>2, <1>4, <1>6 DEF ScaffoldInv, TypeOK
<1>8. ListsInv'
  BY <1>1 DEF ScaffoldInv, ListsInv, Numbered
<1>9. RunInv'
  BY <1>1, IdleRun
<1>10. RestIsWhole'
  <2>1. HasCore(c.pkg) => HasCore(c.pkg)'
    BY <1>1 DEF HasCore, HasDir
  <2>2. last' = c
    BY <1>1, <1>4
  <2> QED
    BY <1>1, <1>5, <2>1, <2>2 DEF RestIsWhole
<1>11. HintInv'
  <2>1. hinted' = hinted \cup NextSteps(c)
    BY <1>1, <1>4
  <2> HIDE DEF NextSteps
  <2> QED
    BY <1>1, <1>6, <2>1 DEF ScaffoldInv, HintInv
<1> QED
  BY <1>7, <1>8, <1>9, <1>10, <1>11 DEF ScaffoldInv

\* An interrupted run leaves the files it wrote.
LEMMA InterruptKeeps ==
  ASSUME ScaffoldInv, Interrupt
  PROVE  ScaffoldInv'
<1>1. /\ running' = Idle /\ todo' = <<>> /\ files' = files /\ edited' = edited /\ last' = last
      /\ hinted' = hinted /\ runs' = runs
  BY DEF Interrupt
<1>2. TypeOK'
  BY <1>1 DEF ScaffoldInv, TypeOK
<1>3. ListsInv'
  <2>1. Range(todo') = {}
    BY <1>1, RangeOfLists
  <2>2. Numbered'
    BY <1>1, <2>1 DEF ScaffoldInv, ListsInv, Numbered, IsMigration
  <2>3. todo' \in Seq(FileSet)
    BY <1>1, ListsOf
  <2> QED
    BY <1>1, <2>2, <2>3 DEF ScaffoldInv, ListsInv
<1>4. RunInv'
  BY <1>1, IdleRun
<1>5. PlainStays
  BY <1>1 DEF PlainStays
<1>6. RestIsWhole' /\ HintInv'
  BY <1>1, <1>5, DoneStays DEF ScaffoldInv
<1> QED
  BY <1>2, <1>3, <1>4, <1>6 DEF ScaffoldInv

\* The developer only removes migrations.
LEMMA DropKeeps ==
  ASSUME ScaffoldInv, NEW f \in files, DropMigration(f)
  PROVE  ScaffoldInv'
<1>1. /\ running = Idle /\ f[1] = "migrations" /\ files' = files \ {f} /\ edited' = edited \ {f}
      /\ running' = running /\ todo' = todo /\ last' = last /\ hinted' = hinted /\ runs' = runs
  BY DEF DropMigration
<1>2. TypeOK'
  BY <1>1 DEF ScaffoldInv, TypeOK
<1>3. ListsInv'
  BY <1>1 DEF ScaffoldInv, ListsInv, Numbered, IsMigration
<1>4. RunInv'
  BY <1>1, IdleRun
<1>5. PlainStays
  BY <1>1 DEF PlainStays, IsMigration
<1>6. RestIsWhole' /\ HintInv'
  BY <1>1, <1>5, DoneStays DEF ScaffoldInv
<1> QED
  BY <1>2, <1>3, <1>4, <1>6 DEF ScaffoldInv

\* The directories a service starts from.
LEMMA ScaffoldStarts ==
  ASSUME Init
  PROVE  ScaffoldInv
<1>1. running = Idle /\ todo = <<>> /\ last = Idle /\ hinted = {} /\ runs = 0 /\ edited = files
  BY DEF Init
<1>2. files \subseteq {GoMod, <<"root", "none", "README.md">>}
  BY DEF Init
<1>3. TypeOK
  <2>1. 0 \in 0..MaxRuns
    BY ScaffoldAssumption, SMT
  <2> QED
    BY <1>1, <2>1 DEF TypeOK
<1>4. GoMod \in FileSet /\ <<"root", "none", "README.md">> \in FileSet
  BY DEF GoMod, FileSet, Areas, Packages, Names
<1>5. Range(todo) = {} /\ todo \in Seq(FileSet)
  BY <1>1, RangeOfLists, ListsOf
<1>6. Numbered
  <2>1. GoMod[1] = "root" /\ <<"root", "none", "README.md">>[1] = "root"
    BY SMT DEF GoMod
  <2>2. \A f \in files \cup Range(todo) : ~IsMigration(f)
    BY <1>2, <1>5, <2>1 DEF IsMigration
  <2>3. 0 \in Nat
    BY SMT
  <2> QED
    BY <2>2, <2>3 DEF Numbered
<1>7. ListsInv
  BY <1>1, <1>2, <1>4, <1>5, <1>6 DEF ListsInv
<1>8. RunInv /\ RestIsWhole /\ HintInv
  BY <1>1, IdleIs DEF RunInv, RestIsWhole, HintInv
<1> QED
  BY <1>3, <1>7, <1>8 DEF ScaffoldInv

\* The invariant holds in every reachable directory.
LEMMA ScaffoldHolds ==
  Spec => []ScaffoldInv
<1>1. Init => ScaffoldInv
  BY ScaffoldStarts
<1>2. ScaffoldInv /\ [Next]_scaffoldVars => ScaffoldInv'
  <2> SUFFICES ASSUME ScaffoldInv, [Next]_scaffoldVars PROVE ScaffoldInv'
    OBVIOUS
  <2>1. ASSUME NEW c \in Commands, Start(c) PROVE ScaffoldInv'
    BY <2>1, StartKeeps
  <2>2. CASE WriteIfAbsent
    BY <2>2, WriteKeeps
  <2>3. CASE Finish
    BY <2>3, FinishKeeps
  <2>4. CASE Interrupt
    BY <2>4, InterruptKeeps
  <2>5. ASSUME NEW f \in files, Edit(f) PROVE ScaffoldInv'
    <3>1. /\ edited' = edited \cup {f} /\ runs' = runs
          /\ UNCHANGED <<files, running, todo, last, hinted>>
      BY <2>5 DEF Edit
    <3>2. edited \subseteq files /\ runs \in 0..MaxRuns
      BY DEF ScaffoldInv, TypeOK
    <3> QED
      BY <3>1, <3>2, SameRun
  <2>6. ASSUME NEW f \in files, DropMigration(f) PROVE ScaffoldInv'
    BY <2>6, DropKeeps
  <2>7. CASE UNCHANGED scaffoldVars
    <3>1. edited' = edited /\ runs' = runs /\ UNCHANGED <<files, running, todo, last, hinted>>
      BY <2>7 DEF scaffoldVars
    <3>2. edited \subseteq files /\ runs \in 0..MaxRuns
      BY DEF ScaffoldInv, TypeOK
    <3> QED
      BY <3>1, <3>2, SameRun
  <2> QED
    BY <2>1, <2>2, <2>3, <2>4, <2>5, <2>6, <2>7 DEF Next
<1> QED
  BY <1>1, <1>2, PTL DEF Spec

\* A command that ran to its end left everything its templates refer to, whatever
\* was interrupted before, and every command that the next steps of add rest and
\* add grpc named would be accepted now: for any packages, commands and runs.
THEOREM ScaffoldSafe ==
  Spec => []ScaffoldSafety
<1>1. ScaffoldInv => ScaffoldSafety
  <2> SUFFICES ASSUME ScaffoldInv, NEW c \in hinted PROVE Accepts(c)
    BY DEF ScaffoldInv, ScaffoldSafety, HintsAreRunnable
  <2>1. /\ GoMod \in files /\ c.pkg \notin EntityNames
        /\ \/ c.cmd = "rest-test" /\ {CoreGo(c.pkg), ApiGo(c.pkg)} \subseteq files
           \/ c.cmd = "grpc-test" /\ GrpcGo(c.pkg) \in files
    BY DEF ScaffoldInv, HintInv
  <2>2. NameOK(c) /\ ModuleOK(c) /\ FlagsOK(c)
    BY <2>1 DEF NameOK, ModuleOK, FlagsOK
  <2>3. \A a, p, n : <<a, p, n>>[1] = a /\ <<a, p, n>>[2] = p
    BY SMT
  <2>4. c.cmd = "rest-test" => HasCore(c.pkg) /\ HasDir("api", c.pkg)
    BY <2>1, <2>3 DEF CoreGo, ApiGo, HasCore, HasDir
  <2>5. c.cmd = "grpc-test" => HasDir("grpc", c.pkg)
    BY <2>1, <2>3 DEF GrpcGo, HasDir
  <2>6. MustBeAbsent(c) = {}
    BY <2>1, SMT DEF MustBeAbsent
  <2> QED
    BY <2>2, <2>4, <2>5, <2>6 DEF Accepts, DirsOK
<1> QED
  BY <1>1, ScaffoldHolds, PTL

\* No run takes a file away or changes what the developer edited, and a migration
\* that add migration writes is numbered past every one that is there.
THEOREM ScaffoldKeeps ==
  Spec => [][NeverClobbers /\ MigrationsOrdered]_scaffoldVars
<1>1. ScaffoldInv /\ [Next]_scaffoldVars => [NeverClobbers /\ MigrationsOrdered]_scaffoldVars
  <2> SUFFICES ASSUME ScaffoldInv, Next PROVE NeverClobbers /\ MigrationsOrdered
    OBVIOUS
  <2>1. NeverClobbers
    BY DEF Next, Start, WriteIfAbsent, Finish, Interrupt, Edit, DropMigration, NeverClobbers
  <2>2. MigrationsOrdered
    <3>1. CASE WriteIfAbsent
      <4> SUFFICES ASSUME NEW f \in files' \ files, NEW g \in files, running.cmd = "migration",
                          g[1] = "migrations"
                   PROVE  f[3] > g[3]
        BY DEF MigrationsOrdered
      <4>1. f = Head(todo) /\ todo # <<>>
        BY <3>1 DEF WriteIfAbsent
      <4> QED
        BY <4>1 DEF ScaffoldInv, RunInv, IsMigration
    <3>2. CASE ~WriteIfAbsent
      <4>1. files' \subseteq files
        BY <3>2 DEF Next, Start, Finish, Interrupt, Edit, DropMigration
      <4> QED
        BY <4>1 DEF MigrationsOrdered
    <3> QED
      BY <3>1, <3>2
  <2> QED
    BY <2>1, <2>2
<1> QED
  BY <1>1, ScaffoldHolds, PTL DEF Spec
=============================================================================
