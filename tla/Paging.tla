------------------------------- MODULE Paging -------------------------------
(***************************************************************************)
(* A client walks a list page by page: page.Parse or page.New, Page.Offset *)
(* and the total_pages of rest.NewPagination. Integers are the int of the  *)
(* code at a width of MaxInt. The store is external: its query returns the *)
(* rows after the offset, in key order.                                    *)
(***************************************************************************)
EXTENDS Integers, Sequences, FiniteSets

CONSTANTS MaxInt,              \* math.MaxInt
          MaxRowsPerPage,      \* the cap on the page size
          DefaultRowsPerPage,  \* the size when none is asked for
          Rows,                \* row keys the table starts with
          Late                 \* row keys inserted during the walk

\* The defaults are page sizes, and an int counts the rows of the table and a
\* page more.
ASSUME PagingAssumption ==
  /\ MaxInt \in Nat /\ MaxRowsPerPage \in Nat /\ DefaultRowsPerPage \in 1..MaxRowsPerPage
  /\ Rows \cup Late \subseteq Int /\ IsFiniteSet(Rows \cup Late)
  /\ Cardinality(Rows \cup Late) + MaxRowsPerPage <= MaxInt

VARIABLES pgTable,   \* keys of the rows of the table
          pgWalk,    \* the walk of the client
          pgSeen     \* keys of the rows it got, in order

pgVars == <<pgTable, pgWalk, pgSeen>>

DefaultPageNumber == 1

\* An int that does not fit wraps around.
Wrap(i) == ((i + MaxInt + 1) % (2 * MaxInt + 2)) - MaxInt - 1

Numbers == (-1)..MaxInt

\* A query parameter: empty, not a number, or a number.
Param == {[text |-> "empty", n |-> 0], [text |-> "bad", n |-> 0]} \cup [text : {"number"}, n : Numbers]

NoPage == [number |-> 0, rows |-> 0]

InReason(number, rows) == number > 0 /\ rows > 0 /\ rows <= MaxRowsPerPage

FitsNot(number, rows) == TRUE

\* The guard of Parse against an Offset over MaxInt.
Fits(number, rows) == number - 1 <= MaxInt \div rows

\* NoPage is the error of Parse.
Parse(page, rowsPerPage) ==
  LET number == IF page.text = "empty" THEN DefaultPageNumber ELSE page.n
      rows   == IF rowsPerPage.text = "empty" THEN DefaultRowsPerPage ELSE rowsPerPage.n
  IN IF page.text # "bad" /\ rowsPerPage.text # "bad" /\ InReason(number, rows) /\ Fits(number, rows)
     THEN [number |-> number, rows |-> rows] ELSE NoPage

\* The page size of New.
Clamp(rows) ==
  IF rows <= 0 THEN DefaultRowsPerPage ELSE IF rows > MaxRowsPerPage THEN MaxRowsPerPage ELSE rows

New(number, rows) == [number |-> IF number < 1 THEN DefaultPageNumber ELSE number, rows |-> Clamp(rows)]

Offset(p) == Wrap((p.number - 1) * p.rows)

numPages(total, rows) == IF total <= 0 THEN 0 ELSE Wrap(total + rows - 1) \div rows

\* The last page and the page of the list envelope.
NewPagination(total, p) ==
  LET pages == numPages(total, p.rows)
  IN [pages |-> pages, current |-> IF pages = 0 THEN 0 ELSE p.number]

-----------------------------------------------------------------------------
(* The walk *)

Start == [by |-> "none", page |-> NoPage, first |-> 0, late |-> FALSE]

PagingInit == pgTable = Rows /\ pgWalk = Start /\ pgSeen = <<>>

\* The client asks for its first page, by query parameters.
AskParsed ==
  \E page, rows \in Param :
    LET p == Parse(page, rows)
    IN /\ pgWalk = Start
       /\ pgWalk' = [Start EXCEPT !.by = IF p = NoPage THEN "refused" ELSE "offset",
                                 !.page = p, !.first = p.number]
       /\ UNCHANGED <<pgTable, pgSeen>>

\* The client asks by numbers, such as gRPC fields: they are narrower than int.
AskNumbers ==
  \E number \in (-1)..(MaxInt \div MaxRowsPerPage), rows \in Numbers :
    LET p == New(number, rows)
    IN /\ pgWalk = Start
       /\ pgWalk' = [Start EXCEPT !.by = "offset", !.page = p, !.first = p.number]
       /\ UNCHANGED <<pgTable, pgSeen>>

InOrder(keys) ==
  [i \in 1..Cardinality(keys) |-> CHOOSE k \in keys : Cardinality({j \in keys : j < k}) = i - 1]

\* The rows of a query with an offset and a limit.
Selected(offset, limit) ==
  LET all == InOrder(pgTable)
  IN IF offset < 0 THEN <<>> ELSE SubSeq(all, offset + 1, IF offset + limit > Len(all) THEN Len(all) ELSE offset + limit)

\* A page by offset; the client goes on while the envelope has a later page.
FetchOffset ==
  /\ pgWalk.by = "offset"
  /\ pgSeen' = pgSeen \o Selected(Offset(pgWalk.page), pgWalk.page.rows)
  /\ LET at == NewPagination(Cardinality(pgTable), pgWalk.page)
     IN pgWalk' = IF at.current < at.pages THEN [pgWalk EXCEPT !.page.number = @ + 1]
                  ELSE [pgWalk EXCEPT !.by = "done"]
  /\ UNCHANGED pgTable

\* Another client adds a row.
Insert ==
  /\ pgWalk.by = "offset"
  /\ \E k \in Late \ pgTable : pgTable' = pgTable \cup {k}
  /\ pgWalk' = [pgWalk EXCEPT !.late = TRUE]
  /\ UNCHANGED pgSeen

PagingNext == AskParsed \/ AskNumbers \/ FetchOffset \/ Insert

PagingSpec == PagingInit /\ [][PagingNext]_pgVars

-----------------------------------------------------------------------------
(* Properties *)

\* Types of the variables.
PagingTypeOK ==
  /\ pgTable \subseteq Rows \cup Late /\ pgSeen \in Seq(Rows \cup Late)
  /\ pgWalk.by \in {"none", "refused", "offset", "done"}
  /\ pgWalk.late \in BOOLEAN /\ pgWalk.first \in 0..MaxInt
  /\ pgWalk.page \in [number : 0..(MaxInt + 1), rows : 0..MaxRowsPerPage]

\* The offset of every page a client reaches is the exact product, never one
\* that wrapped around to a negative number: the guard of Parse holds for the
\* page it returns, and the walk never leaves the pages of the total.
OffsetIsExact ==
  pgWalk.by = "offset" => Offset(pgWalk.page) = (pgWalk.page.number - 1) * pgWalk.page.rows

\* The rows the walk started from, each of them exactly once.
Once(keys) == \A k \in keys : Cardinality({i \in DOMAIN pgSeen : pgSeen[i] = k}) = 1

\* A walk by offset from page one to the total_pages of the envelope returns
\* every row once when nothing is inserted meanwhile.
OffsetWalkIsWhole ==
  (pgWalk.by = "done" /\ pgWalk.first = 1 /\ ~pgWalk.late) => Once(Rows)

\* Pages are exact, up to the largest integers.
PagingSafety == PagingTypeOK /\ OffsetIsExact /\ OffsetWalkIsWhole
=============================================================================
