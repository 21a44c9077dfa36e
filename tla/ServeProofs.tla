---------------------------- MODULE ServeProofs -----------------------------
(* What serves requests: the interceptors of a gRPC server and the paging of  *)
(* lists, for any number of RPCs and rows and any width of integers.          *)
EXTENDS Rpc, Paging, FiniteSetTheorems, TLAPS

\* Most leaves are first-order; the ones with arithmetic cite SMT.
USE Zenon

-----------------------------------------------------------------------------
(* Paging                                                                  *)

\* An int that fits is left alone.
LEMMA WrapFits ==
  ASSUME NEW i \in 0..MaxInt
  PROVE  Wrap(i) = i
<1>1. MaxInt \in Nat
  BY PagingAssumption
<1> DEFINE m == 2 * MaxInt + 2
<1>2. i + MaxInt + 1 \in 0..(m - 1) /\ m \in Nat \ {0}
  BY <1>1, SMT
<1>3. \A a \in Nat, b \in Nat \ {0} : a < b => a % b = a
  BY SMT
<1>4. (i + MaxInt + 1) % m = i + MaxInt + 1
  BY <1>2, <1>3, SMT
<1> QED
  BY <1>1, <1>4, SMT DEF Wrap

\* A page number that passes the guard of Parse has a product that fits.
LEMMA QuotientBounds ==
  ASSUME NEW a \in Nat, NEW r \in Nat \ {0}
  PROVE  /\ a \div r \in Nat
         /\ (a \div r) * r <= a
         /\ a < (a \div r) * r + r
  BY SMT

\* Products of page numbers and page sizes.
LEMMA TimesMonotone ==
  ASSUME NEW a \in Nat, NEW b \in Nat, NEW r \in Nat, a <= b
  PROVE  a * r <= b * r /\ a * r \in Nat /\ (a + 1) * r = a * r + r
  BY SMT

Below(S, k) == {j \in S : j < k}
Rank(S, k) == Cardinality(Below(S, k))

\* The rows below a key are fewer than the rows, and the more the larger the key.
LEMMA RankBounds ==
  ASSUME NEW S, IsFiniteSet(S), S \subseteq Int, NEW k \in S
  PROVE  /\ Cardinality(S) \in Nat /\ Rank(S, k) \in Nat
         /\ Rank(S, k) < Cardinality(S)
         /\ \A l \in S : k < l => Rank(S, k) < Rank(S, l)
<1>1. \A T \in SUBSET S :
        IsFiniteSet(T) /\ Cardinality(T) <= Cardinality(S) /\ (Cardinality(S) = Cardinality(T) => S = T)
  BY FS_Subset
<1>2. \A T \in SUBSET S : Cardinality(T) \in Nat
  BY <1>1, FS_CardinalityType
<1>3. Below(S, k) \in SUBSET S /\ S \in SUBSET S /\ k \notin Below(S, k)
  BY SMT DEF Below
<1>4. Rank(S, k) < Cardinality(S)
  BY <1>1, <1>2, <1>3, SMT DEF Rank
<1>5. ASSUME NEW l \in S, k < l PROVE Rank(S, k) < Rank(S, l)
  <2>0. \A j \in S : j < k => j < l
    <3>1. \A j \in S : j \in Int
      OBVIOUS
    <3>2. \A j \in Int : j < k => j < l
      BY <1>5, <3>1, SMT
    <3> QED
      BY <3>1, <3>2
  <2>1. Below(S, l) \in SUBSET S /\ Below(S, k) \in SUBSET Below(S, l) /\ k \in Below(S, l)
    BY <1>5, <2>0 DEF Below
  <2>2. IsFiniteSet(Below(S, l))
    BY <1>1, <2>1
  <2>3. /\ Cardinality(Below(S, k)) <= Cardinality(Below(S, l))
        /\ Cardinality(Below(S, l)) = Cardinality(Below(S, k)) => Below(S, l) = Below(S, k)
    BY <2>1, <2>2, FS_Subset
  <2>4. Cardinality(Below(S, l)) # Cardinality(Below(S, k))
    BY <1>3, <2>1, <2>3
  <2> QED
    BY <1>2, <1>3, <2>1, <2>3, <2>4, SMT DEF Rank
<1> QED
  BY <1>2, <1>3, <1>4, <1>5 DEF Rank

\* Every position has exactly one key.
LEMMA RankOnto ==
  ASSUME NEW S, IsFiniteSet(S), S \subseteq Int
  PROVE  /\ Cardinality(S) \in Nat
         /\ \A k, l \in S : Rank(S, k) = Rank(S, l) => k = l
         /\ \A i \in 1..Cardinality(S) : \E k \in S : Rank(S, k) = i - 1
<1> DEFINE n == Cardinality(S)
           T == 0..(n - 1)
           f == [k \in S |-> Rank(S, k)]
<1>1. n \in Nat
  BY FS_CardinalityType
<1>2. IsFiniteSet(T) /\ Cardinality(T) = n
  <2>1. 0 \in Int /\ n - 1 \in Int
    BY <1>1, SMT
  <2> DEFINE size == IF 0 > n - 1 THEN 0 ELSE (n - 1) - 0 + 1
  <2>2. IsFiniteSet(T) /\ Cardinality(T) = size
    BY <2>1, FS_Interval
  <2>3. size = n
    BY <1>1, SMT
  <2> HIDE DEF size
  <2> QED
    BY <2>2, <2>3
<1>3. \A k \in S : Rank(S, k) \in T
  <2>1. \A k \in S : Rank(S, k) \in Nat /\ Rank(S, k) < n
    BY RankBounds, Zenon
  <2> QED
    BY <1>1, <2>1, SMT
<1>4. \A k, l \in S : Rank(S, k) = Rank(S, l) => k = l
  <2> SUFFICES ASSUME NEW k \in S, NEW l \in S, Rank(S, k) = Rank(S, l) PROVE k = l
    OBVIOUS
  <2>1. k \in Int /\ l \in Int /\ Rank(S, k) \in Nat /\ Rank(S, l) \in Nat
    BY RankBounds
  <2>2. (k < l => Rank(S, k) < Rank(S, l)) /\ (l < k => Rank(S, l) < Rank(S, k))
    BY RankBounds
  <2> QED
    BY <2>1, <2>2, SMT
<1>5. f \in Injection(S, T)
  BY <1>3, <1>4 DEF Injection, IsInjective
<1>6. f \in Surjection(S, T)
  <2> HIDE DEF f, T
  <2> QED
    BY <1>2, <1>5, FS_Injection
<1>7. \A t \in T : \E k \in S : f[k] = t
  BY <1>6 DEF Surjection
<1>8. \A i \in 1..n : i - 1 \in T
  BY <1>1, SMT
<1> QED
  BY <1>1, <1>4, <1>7, <1>8

\* The keys in order: a sequence of the keys, each at its rank.
LEMMA InOrderIsRanked ==
  ASSUME NEW S, IsFiniteSet(S), S \subseteq Int
  PROVE  /\ InOrder(S) \in Seq(S) /\ Len(InOrder(S)) = Cardinality(S)
         /\ \A i \in 1..Cardinality(S) : InOrder(S)[i] \in S /\ Rank(S, InOrder(S)[i]) = i - 1
<1> DEFINE n == Cardinality(S)
           c(i) == CHOOSE k \in S : Cardinality({j \in S : j < k}) = i - 1
<1>1. n \in Nat
  BY FS_CardinalityType
<1>2. \A i \in 1..n : c(i) \in S /\ Rank(S, c(i)) = i - 1
  <2> TAKE i \in 1..n
  <2>1. \E k \in S : Cardinality({j \in S : j < k}) = i - 1
    BY RankOnto DEF Rank, Below
  <2> QED
    BY <2>1 DEF Rank, Below
<1>3. InOrder(S) = [i \in 1..n |-> c(i)]
  BY DEF InOrder
<1> HIDE DEF c
<1>4. InOrder(S) \in [1..n -> S]
  BY <1>2, <1>3
<1>5. InOrder(S) \in Seq(S) /\ Len(InOrder(S)) = n
  BY <1>1, <1>4, SMT
<1> QED
  BY <1>2, <1>3, <1>5

\* A walk that saw the keys in order saw each of them once.
LEMMA InOrderOnce ==
  ASSUME NEW S, IsFiniteSet(S), S \subseteq Int, pgSeen = InOrder(S)
  PROVE  Once(S)
<1> SUFFICES ASSUME NEW k \in S PROVE Cardinality({i \in DOMAIN pgSeen : pgSeen[i] = k}) = 1
  BY DEF Once
<1> DEFINE n == Cardinality(S)
           at == Rank(S, k) + 1
<1>0. n \in Nat /\ Rank(S, k) \in Nat /\ Rank(S, k) < n
  BY RankBounds, Zenon
<1>1. n \in Nat /\ at \in 1..n
  BY <1>0, SMT
<1>2. DOMAIN pgSeen = 1..n
  BY DEF InOrder
<1>3. \A i \in 1..n : pgSeen[i] \in S /\ Rank(S, pgSeen[i]) = i - 1
  BY InOrderIsRanked
<1>4. ASSUME NEW i \in 1..n PROVE pgSeen[i] = k <=> i = at
  <2>1. pgSeen[i] = k => i = at
    BY <1>0, <1>3, <1>4, SMT
  <2>2. i = at => Rank(S, pgSeen[i]) = Rank(S, k)
    BY <1>0, <1>3, SMT
  <2> QED
    BY <1>3, <2>1, <2>2, RankOnto
<1> HIDE DEF at
<1>5. {i \in DOMAIN pgSeen : pgSeen[i] = k} = {at}
  BY <1>1, <1>2, <1>4
<1> QED
  BY <1>5, FS_Singleton

Pages == [number : 0..(MaxInt + 1), rows : 0..MaxRowsPerPage]

PagingTypes ==
  /\ pgTable \subseteq Rows \cup Late /\ pgSeen \in Seq(Rows \cup Late)
  /\ pgWalk \in [by : {"none", "refused", "offset", "done"}, page : Pages, first : 0..MaxInt, late : BOOLEAN]

\* The rows before a page.
Before(p) == (p.number - 1) * p.rows

\* A page in reach has an offset that fits, and a quiet walk from page one saw
\* the rows before its page.
WalkInv ==
  /\ ~pgWalk.late => pgTable = Rows
  /\ pgWalk.by = "none" => pgSeen = <<>>
  /\ pgWalk.by = "offset" =>
       pgWalk.page.number >= 1 /\ pgWalk.page.rows >= 1 /\ Before(pgWalk.page) <= MaxInt
  /\ pgWalk.first = 1 /\ ~pgWalk.late =>
       /\ pgWalk.by = "offset" =>
            /\ Before(pgWalk.page) <= Cardinality(Rows)
            /\ pgSeen = SubSeq(InOrder(Rows), 1, Before(pgWalk.page))
       /\ pgWalk.by = "done" => pgSeen = InOrder(Rows)

PagingInv == PagingTypes /\ WalkInv

\* Tables are finite and an int counts their rows and a page more.
LEMMA TableFits ==
  ASSUME NEW S \in SUBSET (Rows \cup Late)
  PROVE  /\ IsFiniteSet(S) /\ S \subseteq Int /\ Cardinality(S) \in Nat
         /\ Cardinality(S) + MaxRowsPerPage <= MaxInt
<1>1. IsFiniteSet(S) /\ Cardinality(S) <= Cardinality(Rows \cup Late)
  BY PagingAssumption, FS_Subset
<1>2. Cardinality(S) \in Nat /\ Cardinality(Rows \cup Late) \in Nat
  BY <1>1, PagingAssumption, FS_CardinalityType
<1>3. MaxInt \in Nat /\ MaxRowsPerPage \in Nat /\ Cardinality(Rows \cup Late) + MaxRowsPerPage <= MaxInt
  BY PagingAssumption
<1>4. Cardinality(S) + MaxRowsPerPage <= MaxInt
  BY <1>1, <1>2, <1>3, SMT
<1> QED
  BY <1>1, <1>2, <1>4, PagingAssumption

\* total_pages is the number of pages that hold the rows.
LEMMA PagesHold ==
  ASSUME NEW n \in Nat, NEW r \in Nat \ {0}, NEW number \in Nat \ {0}, n + r - 1 <= MaxInt
  PROVE  LET at == NewPagination(n, [number |-> number, rows |-> r])
         IN /\ at.current < at.pages => number * r < n
            /\ ~(at.current < at.pages) => number * r >= n
<1> DEFINE q == (n + r - 1) \div r
           at == NewPagination(n, [number |-> number, rows |-> r])
<1>1. n + r - 1 \in Nat /\ n + r - 1 \in 0..MaxInt
  BY PagingAssumption, SMT
<1>2. q \in Nat /\ q * r <= n + r - 1 /\ n + r - 1 < q * r + r
  BY <1>1, QuotientBounds
<1>3. CASE n = 0
  <2>1. at.current = 0 /\ at.pages = 0
    BY <1>3, SMT DEF NewPagination, numPages
  <2>2. number * r \in Nat
    BY TimesMonotone, SMT
  <2>3. ~(at.current < at.pages) /\ number * r >= n
    BY <1>3, <2>1, <2>2, SMT
  <2> QED
    BY <2>3
<1>4. CASE n # 0
  <2>1. at.pages = q
    BY <1>1, <1>4, WrapFits, SMT DEF NewPagination, numPages
  <2>2. q # 0
    BY <1>2, <1>4, SMT
  <2>3. at.current = number
    BY <2>1, <2>2 DEF NewPagination
  <2> HIDE DEF at, q
  <2>4. ASSUME number < q PROVE number * r < n
    <3>1. (number + 1) * r <= q * r /\ (number + 1) * r = number * r + r
      BY <1>2, <2>4, TimesMonotone, SMT
    <3>2. number * r \in Nat /\ q * r \in Nat
      BY <1>2, TimesMonotone, SMT
    <3> QED
      BY <1>2, <3>1, <3>2, SMT
  <2>5. ASSUME ~(number < q) PROVE number * r >= n
    <3>1. q * r <= number * r /\ q * r \in Nat /\ number * r \in Nat
      BY <1>2, <2>5, TimesMonotone, SMT
    <3> QED
      BY <1>2, <3>1, SMT
  <2> QED
    BY <2>1, <2>3, <2>4, <2>5 DEF at
<1> QED
  BY <1>3, <1>4

\* The table has its rows and the client asked nothing in the beginning.
LEMMA PagingInitially == PagingInit => PagingInv
BY PagingAssumption, SMT DEF PagingInit, PagingInv, PagingTypes, WalkInv, Start, NoPage, Pages

\* The client starts at a page whose offset fits.
LEMMA AskKeeps ==
  ASSUME PagingInv, pgWalk = Start, UNCHANGED <<pgTable, pgSeen>>, NEW by \in {"refused", "offset"},
         NEW number \in 0..MaxInt, NEW r \in 0..MaxRowsPerPage,
         pgWalk' = [by |-> by, page |-> [number |-> number, rows |-> r], first |-> number, late |-> FALSE],
         by = "offset" => number >= 1 /\ r >= 1 /\ (number - 1) * r <= MaxInt
  PROVE  PagingInv'
<1>1. MaxInt \in Nat /\ MaxRowsPerPage \in Nat
  BY PagingAssumption
<1>2. PagingTypes'
  BY <1>1, SMT DEF PagingInv, PagingTypes, Pages
<1>3. pgSeen = <<>> /\ pgTable = Rows
  BY DEF PagingInv, WalkInv, Start
<1>4. Rows \in SUBSET (Rows \cup Late)
  OBVIOUS
<1>5. IsFiniteSet(Rows) /\ Rows \subseteq Int /\ Cardinality(Rows) \in Nat
  BY <1>4, TableFits
<1>6. InOrder(Rows) \in Seq(Rows)
  BY <1>5, InOrderIsRanked
<1>7. SubSeq(InOrder(Rows), 1, 0) = <<>>
  BY <1>6, SMT
<1>8. number = 1 => (number - 1) * r = 0
  BY <1>1, SMT
<1> QED
  BY <1>2, <1>3, <1>5, <1>7, <1>8, SMT DEF PagingInv, WalkInv, Before

\* Parse refuses a page whose offset would overflow.
LEMMA AskParsedKeeps == PagingInv /\ AskParsed => PagingInv'
<1> SUFFICES ASSUME PagingInv, AskParsed PROVE PagingInv'
  OBVIOUS
<1>1. PICK page \in Param, rows \in Param :
        LET p == Parse(page, rows)
        IN /\ pgWalk = Start
           /\ pgWalk' = [Start EXCEPT !.by = IF p = NoPage THEN "refused" ELSE "offset",
                                      !.page = p, !.first = p.number]
           /\ UNCHANGED <<pgTable, pgSeen>>
  BY DEF AskParsed
<1> DEFINE p == Parse(page, rows)
           by == IF p = NoPage THEN "refused" ELSE "offset"
<1>2. pgWalk' = [by |-> by, page |-> p, first |-> p.number, late |-> FALSE]
  BY <1>1 DEF Start
<1>3. MaxInt \in Nat /\ MaxRowsPerPage \in Nat /\ DefaultRowsPerPage \in 1..MaxRowsPerPage
      /\ DefaultRowsPerPage <= MaxInt
  BY PagingAssumption, FS_CardinalityType, SMT
<1>4. CASE p = NoPage
  <2>1. /\ pgWalk' = [by |-> "refused", page |-> [number |-> 0, rows |-> 0], first |-> 0, late |-> FALSE]
        /\ 0 \in 0..MaxInt /\ 0 \in 0..MaxRowsPerPage
    BY <1>2, <1>3, <1>4, SMT DEF NoPage
  <2> QED
    BY <1>1, <2>1, AskKeeps
<1>5. CASE p # NoPage
  <2> DEFINE number == IF page.text = "empty" THEN DefaultPageNumber ELSE page.n
             r == IF rows.text = "empty" THEN DefaultRowsPerPage ELSE rows.n
  <2>1. p = [number |-> number, rows |-> r] /\ InReason(number, r) /\ Fits(number, r)
    BY <1>5 DEF Parse
  <2>2. page.n \in Int /\ rows.n \in Int /\ page.n <= MaxInt /\ rows.n <= MaxInt
    <3>1. 0 \in Numbers /\ \A i \in Numbers : i \in Int /\ i <= MaxInt
      BY <1>3, SMT DEF Numbers
    <3>2. ASSUME NEW x \in Param PROVE x.n \in Numbers
      <4>1. \/ x = [text |-> "empty", n |-> 0] \/ x = [text |-> "bad", n |-> 0]
            \/ x \in [text : {"number"}, n : Numbers]
        BY Zenon DEF Param
      <4>2. x = [text |-> "empty", n |-> 0] => x.n = 0
        BY SMT
      <4>3. x = [text |-> "bad", n |-> 0] => x.n = 0
        BY SMT
      <4>4. x \in [text : {"number"}, n : Numbers] => x.n \in Numbers
        OBVIOUS
      <4> QED
        BY <3>1, <4>1, <4>2, <4>3, <4>4, Zenon
    <3> QED
      BY <3>1, <3>2
  <2>3. number \in 1..MaxInt /\ r \in 1..MaxRowsPerPage
    <3>1. number \in {1, page.n} /\ r \in {DefaultRowsPerPage, rows.n}
      BY DEF DefaultPageNumber
    <3>2. number > 0 /\ r > 0 /\ r <= MaxRowsPerPage
      BY <2>1 DEF InReason
    <3> HIDE DEF number, r
    <3> QED
      BY <1>3, <2>2, <3>1, <3>2, SMT
  <2> HIDE DEF number, r
  <2>4. (number - 1) * r <= MaxInt
    <3>1. number - 1 <= MaxInt \div r
      BY <2>1 DEF Fits
    <3>2. MaxInt \div r \in Nat /\ (MaxInt \div r) * r <= MaxInt
      BY <1>3, <2>3, QuotientBounds, SMT
    <3>3. (number - 1) * r <= (MaxInt \div r) * r /\ (number - 1) * r \in Nat
      BY <2>3, <3>1, <3>2, TimesMonotone, SMT
    <3>4. (MaxInt \div r) * r \in Nat
      BY <2>3, <3>2, TimesMonotone, SMT
    <3> QED
      BY <1>3, <3>2, <3>3, <3>4, SMT
  <2>5. pgWalk' = [by |-> "offset", page |-> [number |-> number, rows |-> r], first |-> number, late |-> FALSE]
    <3>1. by = "offset"
      BY <1>5
    <3>2. p.number = number
      BY <2>1, SMT
    <3> HIDE DEF p, by
    <3> QED
      BY <1>2, <2>1, <3>1, <3>2
  <2>6. number \in 0..MaxInt /\ r \in 0..MaxRowsPerPage /\ number >= 1 /\ r >= 1
    BY <2>3, SMT
  <2> QED
    BY <1>1, <2>4, <2>5, <2>6, AskKeeps
<1> QED
  BY <1>4, <1>5

\* New clamps the page and its size, and the caller's numbers are narrow.
LEMMA AskNumbersKeeps == PagingInv /\ AskNumbers => PagingInv'
<1> SUFFICES ASSUME PagingInv, AskNumbers PROVE PagingInv'
  OBVIOUS
<1>1. MaxInt \in Nat /\ MaxRowsPerPage \in Nat \ {0} /\ DefaultRowsPerPage \in 1..MaxRowsPerPage
      /\ MaxRowsPerPage <= MaxInt
  BY PagingAssumption, FS_CardinalityType, SMT
<1> DEFINE top == MaxInt \div MaxRowsPerPage
<1>2. top \in Nat /\ top * MaxRowsPerPage <= MaxInt
  BY <1>1, QuotientBounds
<1>3. top <= MaxInt
  <2>1. top * 1 <= top * MaxRowsPerPage
    BY <1>1, <1>2, SMT
  <2>2. top * MaxRowsPerPage \in Nat
    BY <1>1, <1>2, SMT
  <2> QED
    BY <1>1, <1>2, <2>1, <2>2, SMT
<1>4. PICK asked \in (-1)..top, wanted \in Numbers :
        LET p == New(asked, wanted)
        IN /\ pgWalk = Start
           /\ pgWalk' = [Start EXCEPT !.by = "offset", !.page = p, !.first = p.number]
           /\ UNCHANGED <<pgTable, pgSeen>>
  BY DEF AskNumbers
<1> HIDE DEF top
<1> DEFINE number == IF asked < 1 THEN DefaultPageNumber ELSE asked
           r == Clamp(wanted)
<1>5. pgWalk' = [by |-> "offset", page |-> [number |-> number, rows |-> r], first |-> number, late |-> FALSE]
  BY <1>4 DEF Start, New
<1>6. r \in 1..MaxRowsPerPage
  BY <1>1, SMT DEF Clamp, Numbers
<1>7. number \in 1..MaxInt /\ number - 1 <= top
  BY <1>1, <1>2, <1>3, SMT DEF DefaultPageNumber
<1> HIDE DEF number, r
<1>8. (number - 1) * r <= MaxInt
  <2>1. (number - 1) * r <= top * r
    BY <1>2, <1>6, <1>7, TimesMonotone, SMT
  <2>2. r * top <= MaxRowsPerPage * top
    BY <1>1, <1>2, <1>6, TimesMonotone, SMT
  <2>3. (number - 1) * r \in Int /\ top * r \in Int /\ r * top = top * r
        /\ MaxRowsPerPage * top = top * MaxRowsPerPage /\ top * MaxRowsPerPage \in Int
    BY <1>1, <1>2, <1>6, <1>7, SMT
  <2> QED
    BY <1>1, <1>2, <2>1, <2>2, <2>3, SMT
<1>9. number \in 0..MaxInt /\ r \in 0..MaxRowsPerPage /\ number >= 1 /\ r >= 1
  BY <1>6, <1>7, SMT
<1> QED
  BY <1>4, <1>5, <1>8, <1>9, AskKeeps

\* A row that is inserted ends the claim about a quiet walk.
LEMMA InsertKeeps == PagingInv /\ Insert => PagingInv'
<1> SUFFICES ASSUME PagingInv, Insert PROVE PagingInv'
  OBVIOUS
<1>1. /\ pgWalk.by = "offset" /\ pgTable' \subseteq Rows \cup Late /\ pgSeen' = pgSeen
      /\ pgWalk' = [pgWalk EXCEPT !.late = TRUE]
  BY DEF Insert, PagingInv, PagingTypes
<1>2. pgWalk'.late /\ pgWalk'.by = pgWalk.by /\ pgWalk'.page = pgWalk.page
  BY <1>1 DEF PagingInv, PagingTypes
<1>3. PagingTypes'
  BY <1>1 DEF PagingInv, PagingTypes, Pages
<1> QED
  BY <1>1, <1>2, <1>3 DEF PagingInv, WalkInv, Before

\* Pages of the table: what is selected, and that it follows what came before.
LEMMA SelectedFollows ==
  ASSUME NEW S, NEW all \in Seq(S), NEW o \in Nat, NEW r \in Nat, o <= Len(all)
  PROVE  LET top == IF o + r > Len(all) THEN Len(all) ELSE o + r
         IN SubSeq(all, 1, o) \o SubSeq(all, o + 1, top) = SubSeq(all, 1, top)
<1> DEFINE top == IF o + r > Len(all) THEN Len(all) ELSE o + r
           a == SubSeq(all, 1, o)
           b == SubSeq(all, o + 1, top)
           c == SubSeq(all, 1, top)
<1>1. top \in Nat /\ o <= top /\ top <= Len(all)
  BY SMT
<1> HIDE DEF top
<1>2. /\ a \in Seq(S) /\ Len(a) = o /\ \A i \in 1..o : a[i] = all[i]
      /\ c \in Seq(S) /\ Len(c) = top /\ \A i \in 1..top : c[i] = all[i]
  BY <1>1, SMT
<1>3. b \in Seq(S) /\ Len(b) = top - o
  BY <1>1, SMT
<1>4. \A i \in 1..(top - o) : b[i] = all[o + i]
  BY <1>1, <1>3, SMT
<1> HIDE DEF a, b, c
<1>5. a \o b \in Seq(S) /\ Len(a \o b) = top
  <2>1. \A x, y \in Seq(S) : x \o y \in Seq(S) /\ Len(x \o y) = Len(x) + Len(y)
    BY SMT
  <2>2. a \o b \in Seq(S) /\ Len(a \o b) = o + (top - o)
    BY <1>2, <1>3, <2>1
  <2>3. o + (top - o) = top
    BY <1>1, SMT
  <2> QED
    BY <2>2, <2>3
<1>6. ASSUME NEW i \in 1..top PROVE (a \o b)[i] = c[i]
  <2>1. CASE i <= o
    BY <1>1, <1>2, <1>3, <2>1, SMT
  <2>2. CASE i > o
    <3>1. i - o \in 1..(top - o)
      BY <1>1, <2>2, SMT
    <3>2. (a \o b)[i] = b[i - o]
      BY <1>1, <1>2, <1>3, <2>2, SMT
    <3>3. b[i - o] = all[o + (i - o)]
      BY <1>4, <3>1
    <3> QED
      BY <1>1, <1>2, <3>2, <3>3, SMT
  <2>3. i <= o \/ i > o
    BY <1>1, SMT
  <2> QED
    BY <2>1, <2>2, <2>3, Zenon
<1>7. \A z \in Seq(S) : z = [i \in 1..Len(z) |-> z[i]]
  BY SMT
<1>8. a \o b = [i \in 1..top |-> (a \o b)[i]] /\ c = [i \in 1..top |-> c[i]]
  BY <1>2, <1>5, <1>7, Zenon
<1>9. a \o b = c
  BY <1>6, <1>8, Zenon
<1> QED
  BY <1>9 DEF a, b, c, top

\* A page continues the rows seen so far, and the last one ends them.
LEMMA FetchKeeps == PagingInv /\ FetchOffset => PagingInv'
<1> SUFFICES ASSUME PagingInv, FetchOffset PROVE PagingInv'
  OBVIOUS
<1> DEFINE number == pgWalk.page.number
           r == pgWalk.page.rows
           all == InOrder(pgTable)
           n == Cardinality(pgTable)
           o == (number - 1) * r
           top == IF o + r > n THEN n ELSE o + r
           at == NewPagination(n, pgWalk.page)
<1>1. /\ pgWalk.by = "offset" /\ UNCHANGED pgTable
      /\ pgSeen' = pgSeen \o Selected(Offset(pgWalk.page), r)
      /\ pgWalk' = IF at.current < at.pages THEN [pgWalk EXCEPT !.page.number = @ + 1]
                   ELSE [pgWalk EXCEPT !.by = "done"]
  BY DEF FetchOffset
<1>2. MaxInt \in Nat /\ MaxRowsPerPage \in Nat
  BY PagingAssumption
<1>3. /\ number \in 1..(MaxInt + 1) /\ r \in 1..MaxRowsPerPage /\ o <= MaxInt
      /\ pgWalk.page = [number |-> number, rows |-> r]
      /\ pgWalk.page \in Pages
  BY <1>1, <1>2, SMT DEF PagingInv, PagingTypes, WalkInv, Pages, Before
<1>4. /\ IsFiniteSet(pgTable) /\ pgTable \subseteq Int /\ n \in Nat /\ n + MaxRowsPerPage <= MaxInt
      /\ pgTable \subseteq Rows \cup Late
  BY TableFits DEF PagingInv, PagingTypes
<1>5. all \in Seq(pgTable) /\ Len(all) = n
  BY <1>4, InOrderIsRanked
<1>6. number - 1 \in Nat /\ number \in Nat \ {0} /\ r \in Nat \ {0}
  BY <1>2, <1>3, SMT
<1>7. o \in Nat /\ number * r = o + r
  BY <1>6, TimesMonotone, SMT
<1>8. Offset(pgWalk.page) = o
  <2>1. o \in 0..MaxInt
    BY <1>2, <1>3, <1>7, SMT
  <2> QED
    BY <2>1, WrapFits DEF Offset
<1>9. Selected(Offset(pgWalk.page), r) = SubSeq(all, o + 1, top)
  <2>1. ~(o < 0)
    BY <1>7, SMT
  <2>2. Selected(o, r) = SubSeq(all, o + 1, IF o + r > Len(all) THEN Len(all) ELSE o + r)
    BY <2>1, Zenon DEF Selected
  <2> QED
    BY <1>5, <1>8, <2>2, Zenon
<1>10. /\ at.current < at.pages => o + r < n
       /\ ~(at.current < at.pages) => o + r >= n
  <2>1. n + r - 1 <= MaxInt
    BY <1>2, <1>3, <1>4, SMT
  <2>2. at = NewPagination(n, [number |-> number, rows |-> r])
    BY <1>3
  <2>3. /\ at.current < at.pages => number * r < n
        /\ ~(at.current < at.pages) => number * r >= n
    <3> HIDE DEF number, r, n, o, at
    <3> QED
      BY <1>4, <1>6, <2>1, <2>2, PagesHold
  <2> QED
    BY <1>7, <2>3
<1> HIDE DEF number, r, all, n, o, at
<1>11. SubSeq(all, o + 1, top) \in Seq(pgTable)
  BY <1>4, <1>5, <1>6, <1>7, SMT
<1>12. pgSeen' \in Seq(Rows \cup Late)
  <2>1. Seq(pgTable) \subseteq Seq(Rows \cup Late)
    <3>1. \A S, T : S \subseteq T => Seq(S) \subseteq Seq(T)
      BY SMT
    <3> QED
      BY <1>4, <3>1, Zenon
  <2>2. \A a, b \in Seq(Rows \cup Late) : a \o b \in Seq(Rows \cup Late)
    BY SMT
  <2>3. pgSeen \in Seq(Rows \cup Late)
    BY DEF PagingInv, PagingTypes
  <2> QED
    BY <1>1, <1>9, <1>11, <2>1, <2>2, <2>3, Zenon
<1>13. pgWalk'.first = pgWalk.first /\ pgWalk'.late = pgWalk.late
  BY <1>1 DEF PagingInv, PagingTypes
<1>14. ASSUME pgWalk.first = 1, ~pgWalk.late
       PROVE  /\ pgTable = Rows /\ o <= n
              /\ pgSeen' = SubSeq(all, 1, top)
  <2>1. pgTable = Rows /\ o <= n /\ pgSeen = SubSeq(all, 1, o)
    BY <1>1, <1>14 DEF PagingInv, WalkInv, Before, o, n, all, number, r
  <2>2. SubSeq(all, 1, o) \o SubSeq(all, o + 1, top) = SubSeq(all, 1, top)
    BY <1>5, <1>6, <1>7, <2>1, SelectedFollows
  <2> QED
    BY <1>1, <1>9, <2>1, <2>2
<1>15. CASE at.current < at.pages
  <2>1. pgWalk' = [pgWalk EXCEPT !.page.number = @ + 1]
    BY <1>1, <1>15
  <2>2. pgWalk'.page = [number |-> number + 1, rows |-> r] /\ pgWalk'.by = "offset"
    BY <1>1, <1>3, <2>1 DEF PagingInv, PagingTypes, Pages, number, r
  <2>3. Before(pgWalk'.page) = o + r /\ o + r <= n /\ top = o + r
    <3>1. ((number + 1) - 1) * r = number * r
      BY <1>6, SMT
    <3> QED
      BY <1>4, <1>6, <1>7, <1>10, <1>15, <2>2, <3>1, SMT DEF Before
  <2>4. number + 1 <= MaxInt + 1
    <3>1. number <= number * r
      BY <1>6, SMT
    <3> QED
      BY <1>2, <1>4, <1>6, <1>7, <1>10, <1>15, <3>1, SMT
  <2>5. pgWalk'.page \in Pages
    BY <1>2, <1>3, <1>6, <2>2, <2>4, SMT DEF Pages
  <2>6. PagingTypes'
    <3>1. pgWalk' = [by |-> "offset", page |-> pgWalk'.page, first |-> pgWalk.first, late |-> pgWalk.late]
      BY <1>13, <2>1, <2>2 DEF PagingInv, PagingTypes
    <3> QED
      BY <1>1, <1>12, <2>5, <3>1 DEF PagingInv, PagingTypes, Pages
  <2>7. WalkInv'
    <3>1. pgWalk'.page.number >= 1 /\ pgWalk'.page.rows >= 1 /\ Before(pgWalk'.page) <= MaxInt
      BY <1>2, <1>4, <1>6, <1>7, <2>2, <2>3, SMT
    <3>2. pgWalk'.first = 1 /\ ~pgWalk'.late =>
            Before(pgWalk'.page) <= Cardinality(Rows) /\ pgSeen' = SubSeq(InOrder(Rows), 1, Before(pgWalk'.page))
      BY <1>13, <1>14, <2>3 DEF all, n
    <3>3. ~pgWalk'.late => pgTable' = Rows
      BY <1>1, <1>13 DEF PagingInv, WalkInv
    <3> QED
      BY <2>2, <3>1, <3>2, <3>3 DEF WalkInv, Before
  <2> QED
    BY <2>6, <2>7 DEF PagingInv
<1>16. CASE ~(at.current < at.pages)
  <2>1. pgWalk' = [pgWalk EXCEPT !.by = "done"]
    BY <1>1, <1>16
  <2>2. pgWalk'.by = "done" /\ PagingTypes'
    BY <1>1, <1>12, <2>1 DEF PagingInv, PagingTypes, Pages
  <2>3. pgWalk'.first = 1 /\ ~pgWalk'.late => pgSeen' = InOrder(Rows)
    <3> SUFFICES ASSUME pgWalk'.first = 1, ~pgWalk'.late PROVE pgSeen' = InOrder(Rows)
      OBVIOUS
    <3>1. pgTable = Rows /\ pgSeen' = SubSeq(all, 1, top)
      BY <1>13, <1>14
    <3>2. top = n
      BY <1>4, <1>6, <1>7, <1>10, <1>16, SMT
    <3>3. SubSeq(all, 1, n) = all
      BY <1>4, <1>5, SMT
    <3> QED
      BY <3>1, <3>2, <3>3 DEF all
  <2>4. ~pgWalk'.late => pgTable' = Rows
    BY <1>1, <1>13 DEF PagingInv, WalkInv
  <2>5. WalkInv'
    BY <2>2, <2>3, <2>4 DEF WalkInv
  <2> QED
    BY <2>2, <2>5 DEF PagingInv
<1> QED
  BY <1>15, <1>16

\* For any table and any width of int that counts its rows and a page more: no
\* page of a walk has an offset that wrapped around, and a walk from page one to
\* total_pages returns every row exactly once while nothing is inserted.
THEOREM PagingHolds == PagingSpec => []PagingSafety
<1>1. PagingInv => PagingSafety
  <2> SUFFICES ASSUME PagingInv PROVE PagingSafety
    OBVIOUS
  <2>1. PagingTypeOK
    BY DEF PagingInv, PagingTypes, PagingTypeOK, Pages
  <2>2. OffsetIsExact
    <3> SUFFICES ASSUME pgWalk.by = "offset"
                 PROVE  Offset(pgWalk.page) = (pgWalk.page.number - 1) * pgWalk.page.rows
      BY DEF OffsetIsExact
    <3>1. /\ MaxInt \in Nat /\ MaxRowsPerPage \in Nat
          /\ pgWalk.page.number \in 1..(MaxInt + 1) /\ pgWalk.page.rows \in 1..MaxRowsPerPage
          /\ (pgWalk.page.number - 1) * pgWalk.page.rows <= MaxInt
      BY PagingAssumption, SMT DEF PagingInv, PagingTypes, WalkInv, Pages, Before
    <3>2. (pgWalk.page.number - 1) * pgWalk.page.rows \in 0..MaxInt
      <4>1. pgWalk.page.number - 1 \in Nat /\ pgWalk.page.rows \in Nat
        BY <3>1, SMT
      <4>2. \A a, b \in Nat : a * b \in Nat
        BY SMT
      <4>3. (pgWalk.page.number - 1) * pgWalk.page.rows \in Nat
        BY <4>1, <4>2, Zenon
      <4> QED
        BY <3>1, <4>3, SMT
    <3> QED
      BY <3>2, WrapFits DEF Offset
  <2>3. OffsetWalkIsWhole
    <3>1. Rows \in SUBSET (Rows \cup Late)
      OBVIOUS
    <3>2. IsFiniteSet(Rows) /\ Rows \subseteq Int
      BY <3>1, TableFits
    <3>3. pgSeen = InOrder(Rows) => Once(Rows)
      BY <3>2, InOrderOnce
    <3> QED
      BY <3>3 DEF OffsetWalkIsWhole, PagingInv, WalkInv
  <2> QED
    BY <2>1, <2>2, <2>3 DEF PagingSafety
<1>2. PagingInv /\ [PagingNext]_pgVars => PagingInv'
  <2> SUFFICES ASSUME PagingInv, [PagingNext]_pgVars PROVE PagingInv'
    OBVIOUS
  <2>1. CASE UNCHANGED pgVars
    BY <2>1 DEF pgVars, PagingInv, PagingTypes, WalkInv, Pages, Before
  <2> QED
    BY <2>1, AskParsedKeeps, AskNumbersKeeps, FetchKeeps, InsertKeeps DEF PagingNext
<1> QED
  BY <1>1, <1>2, PagingInitially, PTL DEF PagingSpec

-----------------------------------------------------------------------------
(* gRPC interceptors                                                       *)

RpcAts == {"idle", "app", "handler", "chain", "metrics", "done"}
RpcOuts == Outcomes \cup {NoOutcome}
RpcMethods == Method \cup {"none"}
RpcCalls ==
  [at : RpcAts, stream : BOOLEAN, method : RpcMethods, valid : BOOLEAN, out : RpcOuts]

RpcTypes ==
  /\ rpServed \in {{}, load}
  /\ rpCalls \in [Rpc -> RpcCalls]
  /\ rpInFlight \in Nat
  /\ rpHandled \in [Rpc -> SUBSET Codes]
  /\ rpLogged \in [Rpc -> SUBSET Codes]
  /\ rpStatus \in [Rpc -> Codes \cup {"none"}]

\* Served RPCs whose gauge is up.
Counted == {c \in Rpc : rpCalls[c].at \notin {"idle", "done"} /\ rpCalls[c].method \in load}

\* What is known of an RPC at each layer: nothing is recorded before the chain
\* unwinds, and at the metrics the outcome is a status whose code was logged
\* unless the RPC panicked.
AtLayer(c) ==
  /\ rpCalls[c].at # "idle" => rpServed = load
  /\ rpCalls[c].at \in {"idle", "app", "handler", "chain"} => rpLogged[c] = {}
  /\ rpCalls[c].at # "done" => rpHandled[c] = {}
  /\ rpCalls[c].at = "chain" => rpCalls[c].out \in Outcomes
  /\ rpCalls[c].at = "metrics" =>
       /\ rpCalls[c].out.kind \in {"ok", "status"}
       /\ rpLogged[c] \subseteq {rpCalls[c].out.code}
       /\ rpLogged[c] = {} => rpCalls[c].out.code = "INTERNAL"
  /\ rpCalls[c].at = "done" =>
       /\ rpHandled[c] = IF rpCalls[c].method \in load THEN {rpStatus[c]} ELSE {}
       /\ rpLogged[c] \subseteq {rpStatus[c]}
       /\ rpLogged[c] = {} => rpStatus[c] = "INTERNAL"

RpcInv == RpcTypes /\ rpInFlight = Cardinality(Counted) /\ \A c \in Rpc : AtLayer(c)

\* Whatever the handler ended with, the chain leaves a status whose code is the
\* one logged, and logs nothing only for a panic, which it maps to INTERNAL.
LEMMA ChainEnds ==
  ASSUME NEW out \in Outcomes
  PROVE  LET s == Chain([out |-> out, logged |-> {}])
         IN /\ s.out \in Outcomes /\ s.out.kind \in {"ok", "status"}
            /\ s.logged \subseteq {s.out.code}
            /\ s.logged = {} => s.out.code = "INTERNAL"
<1> DEFINE in == [out |-> out, logged |-> {}]
           mapped == ErrorMap(in)
           logged == Logging(mapped)
<1>1. /\ out.kind \in {"ok", "errs", "status", "plain", "panic"} /\ out.code \in Codes
      /\ out.kind = "ok" => out.code = "OK"
      /\ out.kind \in {"errs", "status"} => out.code # "OK"
      /\ out = [kind |-> out.kind, code |-> out.code]
  BY DEF Outcomes, Codes
<1>2. CASE out.kind = "panic"
  <2>1. mapped = in /\ logged = in
    BY <1>2 DEF ErrorMap, Logging
  <2>2. Chain(in) = [in EXCEPT !.out = Status("INTERNAL")]
    BY <1>2, <2>1, SMT DEF Chain, Recovery
  <2> QED
    BY <2>2, SMT DEF Status, Outcomes, Codes
<1>3. CASE out.kind # "panic"
  <2> DEFINE st == toStatus(out)
  <2>1. st \in Outcomes /\ st.kind \in {"ok", "status"} /\ st.code \in Codes
    BY <1>1, <1>3 DEF toStatus, Status, Outcomes, Codes
  <2>2. mapped = [out |-> st, logged |-> {}]
    BY <1>3 DEF ErrorMap
  <2> HIDE DEF st, mapped
  <2>3. logged = [out |-> st, logged |-> {st.code}]
    BY <2>1, <2>2 DEF Logging, codeOf
  <2>4. Chain(in) = logged
    BY <2>1, <2>3, SMT DEF Chain, Recovery, mapped
  <2>5. Chain(in) = [out |-> st, logged |-> {st.code}]
    BY <2>3, <2>4
  <2> QED
    BY <2>1, <2>5, SMT
<1> QED
  BY <1>2, <1>3

\* No RPC is in flight in the beginning.
LEMMA RpcInitially == RpcInit => RpcInv
<1> SUFFICES ASSUME RpcInit PROVE RpcInv
  OBVIOUS
<1>1. RpcTypes
  BY DEF RpcInit, RpcTypes, RpcCalls, RpcAts, RpcOuts, RpcMethods
<1>2. Counted = {}
  BY DEF RpcInit, Counted
<1>3. \A c \in Rpc : AtLayer(c)
  BY DEF RpcInit, AtLayer
<1> QED
  BY <1>1, <1>2, <1>3, FS_EmptySet DEF RpcInv, RpcInit

\* A step of one RPC keeps the invariant when it keeps the types, what is known
\* of that RPC and the gauge.
LEMMA RpcOneMoves ==
  ASSUME RpcInv, NEW c \in Rpc, RpcTypes', rpServed' = rpServed, AtLayer(c)',
         rpInFlight' = Cardinality(Counted'),
         \A d \in Rpc \ {c} : /\ rpCalls'[d] = rpCalls[d] /\ rpHandled'[d] = rpHandled[d]
                              /\ rpLogged'[d] = rpLogged[d] /\ rpStatus'[d] = rpStatus[d]
  PROVE  RpcInv'
<1>1. ASSUME NEW d \in Rpc PROVE AtLayer(d)'
  <2>1. CASE d = c
    BY <2>1
  <2>2. CASE d # c
    <3>1. /\ rpCalls'[d] = rpCalls[d] /\ rpHandled'[d] = rpHandled[d]
          /\ rpLogged'[d] = rpLogged[d] /\ rpStatus'[d] = rpStatus[d] /\ AtLayer(d)
      BY <2>2 DEF RpcInv
    <3> QED
      BY <3>1 DEF AtLayer, load
  <2> QED
    BY <2>1, <2>2
<1> QED
  BY <1>1 DEF RpcInv

\* Each interceptor leaves what is known at the layer it returns to.
LEMMA RpcStep == RpcInv /\ [RpcNext]_rpVars => RpcInv'
<1> SUFFICES ASSUME RpcInv, [RpcNext]_rpVars PROVE RpcInv'
  OBVIOUS
<1> USE DEF RpcInv
<1>0. /\ {"app", "handler", "chain", "metrics", "done"} \subseteq RpcAts
      /\ Outcomes \subseteq RpcOuts /\ Method \subseteq RpcMethods
  BY DEF RpcAts, RpcOuts, RpcMethods
<1>1. CASE Serve
  <2>1. RpcTypes'
    BY <1>1 DEF Serve, RpcTypes, load
  <2>2. Counted' = Counted
    BY <1>1 DEF Serve, Counted, load
  <2>3. \A c \in Rpc : AtLayer(c)'
    BY <1>1 DEF Serve, AtLayer, load
  <2> QED
    BY <1>1, <2>1, <2>2, <2>3 DEF Serve
<1>2. ASSUME NEW c \in Rpc, Enter(c) PROVE RpcInv'
  <2>1. PICK m \in Method, stream \in BOOLEAN, valid \in BOOLEAN :
          /\ rpCalls' = [rpCalls EXCEPT ![c] = [at |-> "app", stream |-> stream, method |-> m,
                                                valid |-> valid, out |-> NoOutcome]]
          /\ rpInFlight' = IF has(m) THEN rpInFlight + 1 ELSE rpInFlight
    BY <1>2 DEF Enter
  <2>3. /\ rpCalls' \in [Rpc -> RpcCalls] /\ rpCalls'[c].at = "app" /\ rpCalls'[c].method = m
        /\ \A d \in Rpc \ {c} : rpCalls'[d] = rpCalls[d]
    <3>1. "app" \in RpcAts /\ m \in RpcMethods
      BY <1>0
    <3> QED
      BY <2>1, <3>1 DEF RpcTypes, RpcCalls, RpcOuts
  <2>2. RpcTypes'
    BY <1>2, <2>1, <2>3, SMT DEF Enter, RpcTypes, RpcCalls, RpcMethods, RpcOuts, load
  <2>4. rpServed = load /\ rpCalls[c].at = "idle"
    BY <1>2 DEF Enter, RpcTypes
  <2>5. AtLayer(c)'
    BY <1>2, <2>3, <2>4 DEF Enter, AtLayer, load
  <2>6. rpInFlight' = Cardinality(Counted')
    <3>1. CASE m \in load
      <4>1. Counted' = Counted \cup {c} /\ c \notin Counted
        BY <2>3, <2>4, <3>1 DEF Counted, load
      <4>2. IsFiniteSet(Counted)
        BY FS_Subset, RpcAssumption DEF Counted
      <4> QED
        BY <2>1, <2>4, <3>1, <4>1, <4>2, FS_AddElement DEF has
    <3>2. CASE m \notin load
      <4>1. Counted' = Counted
        BY <2>3, <2>4, <3>2 DEF Counted, load
      <4> QED
        BY <2>1, <2>4, <3>2, <4>1 DEF has
    <3> QED
      BY <3>1, <3>2
  <2> QED
    BY <1>2, <2>2, <2>3, <2>5, <2>6, RpcOneMoves DEF Enter
<1>3. ASSUME NEW c \in Rpc, validateUnary(c) \/ RpcHandle(c) PROVE RpcInv'
  <2>1. /\ rpCalls[c].at \in {"app", "handler"}
        /\ UNCHANGED <<rpServed, rpInFlight, rpHandled, rpLogged, rpStatus>>
    BY <1>3 DEF validateUnary, RpcHandle
  <2>2. /\ rpCalls' \in [Rpc -> RpcCalls]
        /\ rpCalls'[c].at \in {"handler", "chain"} /\ rpCalls'[c].method = rpCalls[c].method
        /\ rpCalls'[c].at = "chain" => rpCalls'[c].out \in Outcomes
        /\ \A d \in Rpc \ {c} : rpCalls'[d] = rpCalls[d]
    <3>1. CASE validateUnary(c)
      <4> DEFINE e == [kind |-> "errs", code |-> "INVALID_ARGUMENT"]
      <4>1. e \in Outcomes
        BY DEF Outcomes, Codes
      <4>2. CASE rpCalls[c].valid
        <5>1. rpCalls' = [rpCalls EXCEPT ![c].at = "handler", ![c].out = @]
          BY <3>1, <4>2 DEF validateUnary
        <5> QED
          BY <1>0, <5>1 DEF RpcTypes, RpcCalls
      <4>3. CASE ~rpCalls[c].valid
        <5>1. rpCalls' = [rpCalls EXCEPT ![c].at = "chain", ![c].out = e]
          BY <3>1, <4>3 DEF validateUnary
        <5> HIDE DEF e
        <5> QED
          BY <1>0, <4>1, <5>1 DEF RpcTypes, RpcCalls
      <4> QED
        BY <4>2, <4>3
    <3>2. CASE RpcHandle(c)
      <4>1. PICK out \in Outcomes : rpCalls' = [rpCalls EXCEPT ![c].at = "chain", ![c].out = out]
        BY <3>2 DEF RpcHandle
      <4> QED
        BY <1>0, <4>1 DEF RpcTypes, RpcCalls
    <3> QED
      BY <1>3, <3>1, <3>2
  <2>3. RpcTypes'
    BY <2>1, <2>2 DEF RpcTypes, load, RpcCalls, RpcMethods, RpcOuts
  <2>4. AtLayer(c)'
    BY <2>1, <2>2 DEF AtLayer, load
  <2>5. Counted' = Counted
    BY <2>1, <2>2 DEF Counted, load
  <2> QED
    BY <2>1, <2>2, <2>3, <2>4, <2>5, RpcOneMoves
<1>4. ASSUME NEW c \in Rpc, Unwinds(c) PROVE RpcInv'
  <2> DEFINE s == Chain([out |-> rpCalls[c].out, logged |-> rpLogged[c]])
  <2>1. /\ rpCalls[c].at = "chain"
        /\ rpCalls' = [rpCalls EXCEPT ![c].at = "metrics", ![c].out = s.out]
        /\ rpLogged' = [rpLogged EXCEPT ![c] = s.logged]
        /\ UNCHANGED <<rpServed, rpInFlight, rpHandled, rpStatus>>
    BY <1>4 DEF Unwinds
  <2>2. rpCalls[c].out \in Outcomes /\ rpLogged[c] = {}
    BY <2>1 DEF AtLayer
  <2>3. /\ s.out \in Outcomes /\ s.out.kind \in {"ok", "status"}
        /\ s.logged \subseteq {s.out.code}
        /\ s.logged = {} => s.out.code = "INTERNAL"
    BY <2>2, ChainEnds
  <2> HIDE DEF s
  <2>4. s.out.code \in Codes
    BY <2>3 DEF Outcomes, Codes
  <2>6. /\ rpCalls' \in [Rpc -> RpcCalls] /\ rpCalls'[c].at = "metrics" /\ rpCalls'[c].method = rpCalls[c].method
        /\ rpCalls'[c].out = s.out /\ rpLogged'[c] = s.logged
        /\ \A d \in Rpc \ {c} : rpCalls'[d] = rpCalls[d] /\ rpLogged'[d] = rpLogged[d]
    BY <1>0, <2>1, <2>3 DEF RpcTypes, RpcCalls
  <2>5. RpcTypes'
    <3>1. s.logged \subseteq Codes
      BY <2>3, <2>4
    <3>2. rpLogged' \in [Rpc -> SUBSET Codes]
      BY <2>1, <3>1 DEF RpcTypes
    <3> QED
      BY <2>1, <2>6, <3>2 DEF RpcTypes, load
  <2>7. AtLayer(c)'
    BY <2>1, <2>3, <2>6 DEF AtLayer, load
  <2>8. Counted' = Counted
    BY <2>1, <2>6 DEF Counted, load
  <2> QED
    BY <2>1, <2>5, <2>6, <2>7, <2>8, RpcOneMoves
<1>5. ASSUME NEW c \in Rpc, Record(c) PROVE RpcInv'
  <2> DEFINE out == rpCalls[c].out
  <2>1. /\ rpCalls[c].at = "metrics" /\ rpServed = load
        /\ rpCalls' = [rpCalls EXCEPT ![c].at = "done"]
        /\ rpInFlight' = IF rpCalls[c].method \in load THEN rpInFlight - 1 ELSE rpInFlight
        /\ rpHandled' = IF rpCalls[c].method \in load
                        THEN [rpHandled EXCEPT ![c] = @ \cup {out.code}] ELSE rpHandled
        /\ rpStatus' = [rpStatus EXCEPT ![c] = out.code]
        /\ UNCHANGED <<rpServed, rpLogged>>
    BY <1>5 DEF Record, has, AtLayer
  <2>2. out.code \in Codes
    BY SMT DEF RpcTypes, RpcCalls, RpcOuts, Outcomes, NoOutcome, Codes
  <2>3. /\ rpCalls' \in [Rpc -> RpcCalls]
        /\ rpCalls'[c].at = "done" /\ rpCalls'[c].method = rpCalls[c].method
        /\ \A d \in Rpc \ {c} : rpCalls'[d] = rpCalls[d]
    BY <1>0, <2>1 DEF RpcTypes, RpcCalls
  <2>4. /\ rpHandled' \in [Rpc -> SUBSET Codes]
        /\ rpHandled'[c] = IF rpCalls[c].method \in load THEN {out.code} ELSE {}
        /\ \A d \in Rpc \ {c} : rpHandled'[d] = rpHandled[d]
    BY <2>1, <2>2 DEF RpcTypes, AtLayer
  <2>5. /\ rpStatus' \in [Rpc -> Codes \cup {"none"}] /\ rpStatus'[c] = out.code
        /\ \A d \in Rpc \ {c} : rpStatus'[d] = rpStatus[d]
    BY <2>1, <2>2 DEF RpcTypes
  <2>6. IsFiniteSet(Counted)
    BY FS_Subset, RpcAssumption DEF Counted
  <2>7. rpInFlight' = Cardinality(Counted')
    <3>1. CASE rpCalls[c].method \in load
      <4>1. Counted' = Counted \ {c} /\ c \in Counted
        BY <2>1, <2>3, <3>1 DEF Counted, load
      <4> QED
        BY <2>1, <2>6, <3>1, <4>1, FS_RemoveElement
    <3>2. CASE rpCalls[c].method \notin load
      <4>1. Counted' = Counted
        BY <2>1, <2>3, <3>2 DEF Counted, load
      <4> QED
        BY <2>1, <3>2, <4>1
    <3> QED
      BY <3>1, <3>2
  <2>8. RpcTypes'
    <3>1. IsFiniteSet(Counted')
      BY FS_Subset, RpcAssumption DEF Counted
    <3>2. rpInFlight' \in Nat
      BY <2>7, <3>1, FS_CardinalityType
    <3> QED
      BY <2>1, <2>3, <2>4, <2>5, <3>2 DEF RpcTypes, RpcCalls, RpcMethods, RpcOuts, load
  <2>9. AtLayer(c)'
    BY <2>1, <2>3, <2>4, <2>5 DEF AtLayer, load
  <2> QED
    BY <2>1, <2>3, <2>4, <2>5, <2>7, <2>8, <2>9, RpcOneMoves
<1>6. CASE UNCHANGED rpVars
  BY <1>6 DEF rpVars, RpcTypes, RpcCalls, RpcMethods, RpcOuts, Counted, AtLayer, load
<1> QED
  BY <1>1, <1>2, <1>3, <1>4, <1>5, <1>6 DEF RpcNext, UnaryReturns, StreamReturns

\* For any number of concurrent RPCs, unary or streaming, and any methods, the
\* interceptors log and count the status the client gets, exactly once, also
\* when the handler panics, and the gauge counts the RPCs in flight.
THEOREM RpcRecordsWhatItReturns == RpcSpec => []RpcSafety
<1>1. RpcInv => RpcSafety
  <2> SUFFICES ASSUME RpcInv PROVE RpcSafety
    OBVIOUS
  <2>1. rpInFlight \in 0 .. Cardinality(Rpc)
    BY FS_Subset, FS_CardinalityType, RpcAssumption, SMT DEF RpcInv, Counted, RpcTypes
  <2>2. RpcTypeOK
    BY <2>1 DEF RpcInv, RpcTypes, RpcTypeOK, RpcCalls, RpcAts, RpcOuts, load
  <2>3. GaugeIsInFlight
    BY DEF RpcInv, Counted, GaugeIsInFlight
  <2>4. RecordedIsReturned
    BY DEF RpcInv, AtLayer, RecordedIsReturned
  <2> QED
    BY <2>2, <2>3, <2>4 DEF RpcSafety
<1> QED
  BY <1>1, RpcInitially, RpcStep, PTL DEF RpcSpec
=============================================================================
