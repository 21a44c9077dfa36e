---------------------------- MODULE Translation ----------------------------
(***************************************************************************)
(* translation.Translator over its two stores: translationpg, which clears *)
(* the row of an empty value, and translationtest, which keeps it.  Both   *)
(* get the same calls.  A response holds models that refer to each other   *)
(* through slices; translationrest translates it in place, in the language *)
(* the request asks for.                                                   *)
(*                                                                         *)
(* The models have a required column title, an optional one (omitcheck),   *)
(* poster, and label, in a nested struct that counts as absent when empty. *)
(***************************************************************************)
EXTENDS Naturals, Sequences, SequencesExt, FiniteSets

CONSTANTS Key,       \* model instances, each of a model name of its own
          Lang,      \* supported languages; Default is one of them
          Default

Column == {"title", "poster", "label"}
Optional == {"poster"}
Nested == {"label"}
Instance == [Column -> {"", "text"}]
NoRow == "no row"

VARIABLES pg, mem,    \* what each store has for (key, language, column)
          children,   \* the models in the slice fields of each model
          response    \* the request under way, or the last response: did translating
                      \* it fail, did it change a model

translationVars == <<pg, mem, children, response>>

Empty == [k \in Key |-> [l \in Lang |-> [c \in Column |-> NoRow]]]
\* Models as the handlers return them, in the default language.
Original == [k \in Key |-> [c \in Column |-> "default"]]
NoResponse == [phase |-> "served", lang |-> Default, x |-> "", only |-> "",
               err |-> FALSE, changed |-> FALSE]

Init ==
  /\ pg = Empty /\ mem = Empty
  /\ children \in [Key -> SUBSET Key]
  /\ response = NoResponse

-----------------------------------------------------------------------------
(* parser.go: the translatable fields of an instance *)

\* parseTranslateTags: the walk of the tags, less the leaf of an absent struct.
Fields(m) == {c \in Column : c \in Nested => m[c] # ""}

\* collectNested: depth first over the slices, a visited model is left.
RECURSIVE CollectAborts(_, _)
CollectAborts(todo, visited) ==
  IF todo = <<>> \/ Head(todo) \in visited THEN visited
  ELSE CollectAborts(SetToSeq(children[Head(todo)]) \o Tail(todo), visited \cup {Head(todo)})

RECURSIVE CollectNested(_, _)
CollectNested(todo, visited) ==
  IF todo = <<>> THEN visited
  ELSE LET k == Head(todo) IN
       IF k \in visited THEN CollectNested(Tail(todo), visited)
       ELSE CollectNested(SetToSeq(children[k]) \o Tail(todo), visited \cup {k})

-----------------------------------------------------------------------------
(* The stores *)

\* translationpg.SaveTranslation: upsert, or delete for an empty value.
PGSave(row, m, cols) ==
  [c \in Column |-> IF c \in cols THEN (IF m[c] = "" THEN NoRow ELSE m[c]) ELSE row[c]]
\* translationtest.SaveTranslation
MemSave(row, m, cols) == [c \in Column |-> IF c \in cols THEN m[c] ELSE row[c]]

Stored(row) == \E c \in Column : row[c] # NoRow

\* CheckTranslationsExist of the Translator and of each store.
Missing(store, k, m) ==
  {cl \in (Fields(m) \ Optional) \X (Lang \ {Default}) : store[k][cl[2]][cl[1]] \in {NoRow, ""}}

-----------------------------------------------------------------------------
(* Translator *)

\* Save: an empty optional field leaves its column alone.
Saved(m) == {c \in Fields(m) : ~(c \in Optional /\ m[c] = "")}

Save(k, l, m) ==
  /\ Saved(m) # {}
  /\ pg' = [pg EXCEPT ![k][l] = PGSave(@, m, Saved(m))]
  /\ mem' = [mem EXCEPT ![k][l] = MemSave(@, m, Saved(m))]
  /\ UNCHANGED <<children, response>>

\* Delete; without rows it returns ErrTranslationNotFound.
Delete(k, l) ==
  /\ Stored(mem[k][l])
  /\ pg' = [pg EXCEPT ![k][l] = Empty[k][l]]
  /\ mem' = [mem EXCEPT ![k][l] = Empty[k][l]]
  /\ UNCHANGED <<children, response>>

\* applyTranslations, as Get and translateMany use it.
Apply(m, row) ==
  [c \in Column |-> IF c \in Fields(m) /\ row[c] # NoRow /\ ~(c \in Optional /\ row[c] = "")
                    THEN row[c] ELSE m[c]]

\* translateMany of the models of a response; the groups in done were translated
\* before the store failed.
Translated(store, models, l, done) ==
  [k \in Key |-> IF k \in done THEN Apply(models[k], store[k][l]) ELSE models[k]]

-----------------------------------------------------------------------------
(* The language of a request: X-Language and Accept-Language, the latter a   *)
(* list of tags matched on their base code.  A code may have a region.      *)

Code == Lang \cup {"other"}
NoTag == [base |-> "", region |-> FALSE]
Request == [x : [base : Code, region : BOOLEAN] \cup {NoTag},
            accept : {<<>>} \cup {<<c>> : c \in Code} \cup (Code \X Code)]

\* Translator.Match and findLanguage
Match(code) == IF code \in Lang THEN code ELSE Default

FirstSupported(tags) ==
  LET is == {i \in 1..Len(tags) : tags[i] \in Lang}
  IN IF is = {} THEN Default ELSE tags[CHOOSE i \in is : \A j \in is : i <= j]

\* LanguageFrom: X-Language exactly, then Accept-Language on the base subtag.
LanguageFrom(r) ==
  IF r.x.base \in Lang /\ ~r.x.region THEN r.x.base ELSE FirstSupported(r.accept)

\* i18n.RequestLang: the base code of X-Language, or of the first tag.
RequestLang(r) ==
  IF r.x # NoTag THEN r.x.base ELSE IF r.accept # <<>> THEN r.accept[1] ELSE ""

\* Middleware resolves the headers itself, MiddlewareWithLang takes RequestLang.
Resolved(r, mid) == IF mid = "headers" THEN LanguageFrom(r) ELSE Match(RequestLang(r))

-----------------------------------------------------------------------------
(* translationrest.middleware over a response with the models reachable from *)
(* root, in the resolved language l.  The store may fail for a group: the    *)
(* error is logged, the groups translated before it stay translated.         *)
Serve(root) ==
  LET l == response.lang
      all == CollectNested(<<root>>, {})
  IN /\ response.phase = "asked"
     /\ \E done \in SUBSET all :
          response' = [NoResponse EXCEPT
                         !.err = l # Default /\ done # all,
                         !.changed = l # Default /\ Translated(pg, Original, l, done) # Original]
     /\ UNCHANGED <<pg, mem, children>>

\* A request arrives and its language is resolved.
Ask(r, mid) ==
  /\ response.phase = "served"
  /\ response' = [NoResponse EXCEPT !.phase = "asked", !.lang = Resolved(r, mid),
                     !.x = IF r.x.region THEN "" ELSE r.x.base,
                     !.only = IF r.x = NoTag /\ Len(r.accept) = 1 THEN r.accept[1] ELSE ""]
  /\ UNCHANGED <<pg, mem, children>>

Next ==
  \/ \E k \in Key, l \in Lang \ {Default}, m \in Instance : Save(k, l, m)
  \/ \E k \in Key, l \in Lang \ {Default} : Delete(k, l)
  \/ \E r \in Request, mid \in {"headers", "context"} : Ask(r, mid)
  \/ \E k \in Key : Serve(k)

Spec == Init /\ [][Next]_translationVars

-----------------------------------------------------------------------------
\* Both stores hold a value or no row for every key, language and column.
TypeOK ==
  /\ {pg, mem} \subseteq [Key -> [Lang -> [Column -> {NoRow, "", "text"}]]]
  /\ children \in [Key -> SUBSET Key]
  /\ response.phase \in {"asked", "served"}
  /\ response.err \in BOOLEAN /\ response.changed \in BOOLEAN

Reachable(root) ==
  {k \in Key : \A S \in SUBSET Key :
     root \in S /\ (\A j \in S : children[j] \subseteq S) => k \in S}

\* collectNested finds every model of a response, however they refer to each
\* other, cycles included.
CollectsAll == \A k \in Key : CollectNested(<<k>>, {}) = Reachable(k)

\* CheckTranslationsExist promises what Translate shows: with nothing missing,
\* no required column of the model is left in the default language or empty.
CheckedIsServed ==
  \A store \in {pg, mem}, k \in Key, l \in Lang \ {Default} :
    Missing(store, k, Original[k]) = {} =>
      \A c \in Column \ Optional : Apply(Original[k], store[k][l])[c] \notin {"default", ""}

\* The in-memory store of tests answers as the Postgres store does: the same
\* columns are missing, and a model reads the same but where a required column
\* was saved empty.
StoresAgree ==
  \A k \in Key, l \in Lang :
    /\ Missing(pg, k, Original[k]) = Missing(mem, k, Original[k])
    /\ \A c \in Column : mem[k][l][c] # "" \/ c \in Optional =>
         Apply(Original[k], pg[k][l])[c] = Apply(Original[k], mem[k][l])[c]

\* A translation of an optional column goes only with a Delete: a Save by a
\* caller that does not carry the column leaves it.
PartialSaveKeeps ==
  \A k \in Key, l \in Lang, c \in Optional :
    pg[k][l][c] # NoRow /\ pg'[k][l][c] = NoRow => ~Stored(pg'[k][l])

\* A supported language named by X-Language is the one served, whatever
\* Accept-Language says and whichever middleware resolves it; every request gets
\* a supported language, the one of Accept-Language when it names just one.
LanguageResolves ==
  /\ response.lang \in Lang
  /\ response.x \in Lang => response.lang = response.x
  /\ response.only \in Lang => response.lang = response.only

\* What a translated response and its checks rest on.
TranslationSafety ==
  TypeOK /\ CollectsAll /\ CheckedIsServed /\ StoresAgree /\ LanguageResolves
=============================================================================
