------------------------------ MODULE FeedProofs ------------------------------
(* Proofs about Feed: its types, that no row is returned twice, and that none  *)
(* is skipped but within the millisecond of a cursor.                          *)
EXTENDS Feed, FiniteSetTheorems, WellFoundedInduction, TLAPS

\* A cursor is cut off downwards.
LEMMA CutOff == \A t \in Nat : Milliseconds(t) \in Nat /\ Milliseconds(t) <= t
<1> SUFFICES ASSUME NEW t \in Nat PROVE Milliseconds(t) \in Nat /\ Milliseconds(t) <= t
  OBVIOUS
<1>1. PerMilli \in Nat \ {0}
  BY ConstantsAssumption
<1>2. PerMilli * (t \div PerMilli) <= t
  BY <1>1, Z3
<1>3. t \div PerMilli \in Nat
  BY <1>1
<1>4. PerMilli * (t \div PerMilli) \in Nat
  BY <1>1, <1>3
<1> QED
  BY <1>2, <1>4 DEF Milliseconds

LEMMA CursorType == ASSUME TypeOK, NEW e \in Ids PROVE EncodeCursor(e) \in Cursor
BY CutOff DEF EncodeCursor, Cursor, TypeOK, Row

LEMMA CursorIsNotNone == None \notin Cursor
BY ConstantsAssumption DEF Cursor

\* What a page does to the reader: its rows are fetched rows, and if there are
\* more, its cursor is that of a row which all its other rows precede.
LEMMA PageRead ==
  ASSUME NEW S, NEW limit, BuildPage(Fetch(S, limit), limit)
  PROVE  /\ page' \subseteq S
         /\ \/ pc' = "done" /\ cursor' = None /\ ends' = ends
            \/ \E e \in page' : /\ \A j \in page' \ {e} : Before(j, e)
                                /\ pc' = "more" /\ cursor' = EncodeCursor(e)
                                /\ ends' = ends \cup {e}
BY DEF BuildPage, Fetch, First, NoMorePages, MorePages

-----------------------------------------------------------------------------
(* Types.                                                                   *)

LEMMA ReadType ==
  ASSUME TypeOK, NEW limit, NEW S \in SUBSET Ids, BuildPage(Fetch(S, limit), limit),
         got' \in {{}, got \cup page}, pc = "idle" => page = {} /\ got = {},
         got' = {} => ends = {},
         stayed' \subseteq Listed, UNCHANGED <<feed, now, row>>
  PROVE  TypeOK'
<1>1. page' \subseteq Ids /\ got' \subseteq Ids
  BY PageRead DEF TypeOK
<1>2. /\ cursor' \in Cursor \cup {None}
      /\ (pc' = "more") = (cursor' # None)
      /\ pc' \in {"idle", "more", "done"}
      /\ ends' \subseteq ends \cup page'
  BY <1>1, PageRead, CursorType, CursorIsNotNone
<1>3. ends' \subseteq page' \cup got'
  BY <1>2 DEF TypeOK
<1>4. stayed' \subseteq Listed'
  BY DEF Listed
<1> QED
  BY <1>1, <1>2, <1>3, <1>4 DEF TypeOK

\* Nothing has been read before the first page.
IdleInv == pc = "idle" => page = {} /\ got = {} /\ ends = {}

\* What changes the table leaves the reader alone.
LEMMA TableType ==
  ASSUME TypeOK, NEW i \in Ids,
         \/ BeginInsert(i) \/ \E state \in {"listed", "other"} : CommitInsert(i, state)
         \/ Update(i) \/ Remove(i) \/ MarkRead(i)
  PROVE  TypeOK' /\ UNCHANGED reader
<1>1. UNCHANGED <<feed, now>> /\ UNCHANGED reader
  BY DEF BeginInsert, CommitInsert, Update, Remove, MarkRead, SetState
<1>2. row' \in [Ids -> Row]
  <2>1. CASE BeginInsert(i)
    BY <2>1 DEF BeginInsert, TypeOK, Row
  <2>2. ASSUME NEW state \in {"listed", "other"}, CommitInsert(i, state)
        PROVE  row' \in [Ids -> Row]
    BY <2>2 DEF CommitInsert, TypeOK, Row
  <2>3. CASE Update(i) \/ Remove(i) \/ MarkRead(i)
    BY <2>3 DEF Update, Remove, MarkRead, SetState, TypeOK, Row
  <2> QED
    BY <2>1, <2>2, <2>3
<1>3. stayed' \subseteq Listed'
  <2>1. stayed \subseteq Listed
    BY DEF TypeOK
  <2>2. CASE BeginInsert(i)
    BY <2>1, <2>2 DEF BeginInsert, Listed, TypeOK
  <2>3. ASSUME NEW state \in {"listed", "other"}, CommitInsert(i, state)
        PROVE  stayed' \subseteq Listed'
    BY <2>1, <2>3 DEF CommitInsert, Listed, TypeOK
  <2>4. CASE Update(i) \/ Remove(i) \/ MarkRead(i)
    BY <2>1, <2>4 DEF Update, Remove, MarkRead, SetState, Listed, TypeOK
  <2> QED
    BY <2>2, <2>3, <2>4
<1> QED
  BY <1>1, <1>2, <1>3 DEF TypeOK, reader

LEMMA MarkAllReadType ==
  ASSUME TypeOK, MarkAllRead
  PROVE  TypeOK' /\ UNCHANGED reader
<1>1. row' \in [Ids -> Row]
  BY DEF MarkAllRead, TypeOK, Row
<1> QED
  BY <1>1 DEF MarkAllRead, TypeOK, reader

LEMMA TypeStep == TypeOK /\ IdleInv /\ [Next]_vars => TypeOK' /\ IdleInv'
<1> SUFFICES ASSUME TypeOK, IdleInv, [Next]_vars PROVE TypeOK' /\ IdleInv'
  OBVIOUS
<1>1. ASSUME NEW limit \in Limits, FirstPage(limit)
      PROVE  TypeOK' /\ IdleInv'
  <2>1. Listed \in SUBSET Ids /\ BuildPage(Fetch(Listed, limit), limit)
    BY <1>1 DEF FirstPage, Listed
  <2>2. TypeOK'
    BY <1>1, <2>1, ReadType DEF FirstPage, IdleInv
  <2> QED
    BY <2>1, <2>2, PageRead DEF IdleInv
<1>2. ASSUME NEW limit \in Limits, NextPage(limit)
      PROVE  TypeOK' /\ IdleInv'
  <2> DEFINE S == {i \in Listed : Beyond(i)}
  <2>1. S \in SUBSET Ids /\ BuildPage(Fetch(S, limit), limit)
    BY <1>2 DEF NextPage, Listed
  <2>2. got' = got \cup page /\ stayed' \subseteq Listed /\ UNCHANGED <<feed, now, row>>
    BY <1>2 DEF NextPage, TypeOK
  <2>3. got' = {} => ends = {}
    BY <2>2 DEF TypeOK
  <2>4. TypeOK'
    BY <2>1, <2>2, <2>3, ReadType DEF IdleInv
  <2> QED
    BY <2>1, <2>4, PageRead DEF IdleInv
<1>3. CASE Tick
  BY <1>3 DEF Tick, TypeOK, IdleInv, reader, Listed
<1>4. ASSUME NEW i \in Ids,
             \/ BeginInsert(i) \/ \E state \in {"listed", "other"} : CommitInsert(i, state)
             \/ Update(i) \/ Remove(i) \/ MarkRead(i)
      PROVE  TypeOK' /\ IdleInv'
  BY <1>4, TableType DEF IdleInv, reader
<1>5. CASE MarkAllRead
  BY <1>5, MarkAllReadType DEF IdleInv, reader
<1>6. CASE UNCHANGED vars
  BY <1>6 DEF vars, TypeOK, IdleInv, Listed
<1> QED
  BY <1>1, <1>2, <1>3, <1>4, <1>5, <1>6 DEF Next, Read

LEMMA InitTypeOK == Init => TypeOK /\ IdleInv
BY ConstantsAssumption DEF Init, TypeOK, IdleInv, Row

\* The table, the reader and what it has been returned keep their shape, for
\* any number of rows, page sizes and changes between the pages.
THEOREM TypeCorrect == Spec => []TypeOK
<1>1. Spec => [](TypeOK /\ IdleInv)
  BY InitTypeOK, TypeStep, PTL DEF Spec
<1> QED
  BY <1>1, PTL

-----------------------------------------------------------------------------
(* No row twice.                                                            *)

\* Row j is not beyond the cursor.
Passed(j) == row[j].at > cursor.at \/ (row[j].at = cursor.at /\ j >= cursor.id)

\* What was returned is not beyond the cursor, and keeps its created_at.
PassedInv ==
  /\ \A j \in page \cup got : row[j].state \notin {"none", "open"}
  /\ pc = "more" => \A j \in page \cup got : Passed(j)

DescendInv == PagesDescend /\ PassedInv

\* A page below all that was returned before keeps the invariant.
LEMMA ReadStep ==
  ASSUME TypeOK, TypeOK', NEW limit, NEW S \in SUBSET Listed,
         BuildPage(Fetch(S, limit), limit), UNCHANGED row,
         \A j \in got' : row[j].state \notin {"none", "open"},
         \A i \in S, j \in got' : Before(j, i)
  PROVE  DescendInv'
<1>1. page' \subseteq S
  BY PageRead
<1>2. PagesDescend'
  BY <1>1 DEF PagesDescend, Before
<1>3. \A j \in page' \cup got' : row'[j].state \notin {"none", "open"}
  BY <1>1 DEF Listed
<1>4. ASSUME pc' = "more", NEW j \in page' \cup got'
      PROVE  Passed(j)'
  <2>1. PICK e \in page' : (\A k \in page' \ {e} : Before(k, e)) /\ cursor' = EncodeCursor(e)
    BY <1>4, PageRead
  <2>2. e \in Ids /\ j \in Ids /\ row[e].at \in Nat /\ row[j].at \in Nat
    BY <2>1 DEF TypeOK, Row
  <2>3. j = e \/ Before(j, e)
    BY <1>1, <1>4, <2>1
  <2>4. cursor'.at = Milliseconds(row[e].at) /\ cursor'.id = e
    BY <2>1 DEF EncodeCursor
  <2>5. Milliseconds(row[e].at) \in Nat /\ Milliseconds(row[e].at) <= row[e].at
    BY <2>2, CutOff
  <2>6. e \in Nat /\ j \in Nat
    BY <2>2, ConstantsAssumption
  <2> QED
    BY <2>2, <2>3, <2>4, <2>5, <2>6 DEF Passed, Before
<1> QED
  BY <1>2, <1>3, <1>4 DEF DescendInv, PassedInv

\* So does what happens to the table: created_at of a row never changes.
LEMMA TableStep ==
  ASSUME TypeOK, DescendInv, UNCHANGED reader,
         \A j \in Ids : row[j].state \notin {"none", "open"} =>
           row'[j].at = row[j].at /\ row'[j].state \notin {"none", "open"}
  PROVE  DescendInv'
<1>1. page \subseteq Ids /\ got \subseteq Ids
  BY DEF TypeOK
<1>2. \A j \in page \cup got :
        row'[j].at = row[j].at /\ row'[j].state \notin {"none", "open"}
  BY <1>1 DEF DescendInv, PassedInv
<1> QED
  BY <1>2 DEF DescendInv, PassedInv, PagesDescend, Passed, Before, reader

LEMMA DescendStep ==
  TypeOK /\ TypeOK' /\ IdleInv /\ DescendInv /\ [Next]_vars => DescendInv'
<1> SUFFICES ASSUME TypeOK, TypeOK', IdleInv, DescendInv, [Next]_vars PROVE DescendInv'
  OBVIOUS
<1>1. ASSUME NEW limit \in Limits, FirstPage(limit)
      PROVE  DescendInv'
  BY <1>1, ReadStep DEF FirstPage
<1>2. ASSUME NEW limit \in Limits, NextPage(limit)
      PROVE  DescendInv'
  <2> DEFINE S == {i \in Listed : Beyond(i)}
  <2>1. /\ S \in SUBSET Listed /\ BuildPage(Fetch(S, limit), limit)
        /\ UNCHANGED row /\ got' = got \cup page /\ pc = "more"
    BY <1>2 DEF NextPage
  <2>2. ASSUME NEW i \in S, NEW j \in got'
        PROVE  Before(j, i)
    <3>1. Beyond(i) /\ Passed(j)
      BY <2>1 DEF DescendInv, PassedInv
    <3>2. i \in Ids /\ j \in Ids /\ row[i].at \in Nat /\ row[j].at \in Nat
      BY <2>1 DEF TypeOK, Row, Listed
    <3>3. cursor.at \in Nat /\ cursor.id \in Nat /\ i \in Nat /\ j \in Nat
      BY <2>1, <3>2, ConstantsAssumption DEF TypeOK, Cursor
    <3> QED
      BY <3>1, <3>2, <3>3 DEF Beyond, Passed, Before
  <2>3. \A j \in got' : row[j].state \notin {"none", "open"}
    BY <2>1 DEF DescendInv, PassedInv
  <2> QED
    BY <2>1, <2>2, <2>3, ReadStep
<1>3. CASE Tick
  BY <1>3, TableStep DEF Tick
<1>4. ASSUME NEW i \in Ids,
             \/ BeginInsert(i) \/ \E state \in {"listed", "other"} : CommitInsert(i, state)
             \/ Update(i) \/ Remove(i) \/ MarkRead(i)
      PROVE  DescendInv'
  <2>1. UNCHANGED reader
    BY <1>4, TableType
  <2>2. ASSUME NEW j \in Ids, row[j].state \notin {"none", "open"}
        PROVE  row'[j].at = row[j].at /\ row'[j].state \notin {"none", "open"}
    <3>1. CASE BeginInsert(i)
      BY <2>2, <3>1 DEF BeginInsert, TypeOK
    <3>2. ASSUME NEW state \in {"listed", "other"}, CommitInsert(i, state)
          PROVE  row'[j].at = row[j].at /\ row'[j].state \notin {"none", "open"}
      BY <2>2, <3>2 DEF CommitInsert, TypeOK, Row
    <3>3. CASE Update(i) \/ Remove(i) \/ MarkRead(i)
      BY <2>2, <3>3 DEF Update, Remove, MarkRead, SetState, TypeOK, Row
    <3> QED
      BY <1>4, <3>1, <3>2, <3>3
  <2> QED
    BY <2>1, <2>2, TableStep
<1>5. CASE MarkAllRead
  <2>1. ASSUME NEW j \in Ids, row[j].state \notin {"none", "open"}
        PROVE  row'[j].at = row[j].at /\ row'[j].state \notin {"none", "open"}
    BY <1>5, <2>1 DEF MarkAllRead, TypeOK, Row
  <2> QED
    BY <1>5, <2>1, TableStep DEF MarkAllRead
<1>6. CASE UNCHANGED vars
  BY <1>6, TableStep DEF vars, reader
<1> QED
  BY <1>1, <1>2, <1>3, <1>4, <1>5, <1>6 DEF Next, Read

\* Whatever is inserted, removed or changed between the pages, and whatever
\* the page sizes: the pages of a list go on downwards, so that no row is
\* returned twice (the row comparison of the lists, encodeCursor, buildPage).
THEOREM PagesDescendCorrect == Spec => []PagesDescend
<1>1. Init => DescendInv
  BY DEF Init, DescendInv, PassedInv, PagesDescend
<1>2. Spec => [](TypeOK /\ IdleInv)
  BY InitTypeOK, TypeStep, PTL DEF Spec
<1>3. Spec => []DescendInv
  BY <1>1, <1>2, DescendStep, PTL DEF Spec
<1> QED
  BY <1>3, PTL DEF DescendInv

-----------------------------------------------------------------------------
(* No row is passed over but within a millisecond.                          *)

\* A cursor that is cut off below s and at or above it comes from one
\* millisecond with s.
LEMMA SameMillisecond ==
  ASSUME NEW s \in Nat, NEW t \in Nat, Milliseconds(t) <= s, s <= t
  PROVE  Milliseconds(s) = Milliseconds(t)
<1> DEFINE q == t \div PerMilli
           p == s \div PerMilli
<1>1. PerMilli \in Nat \ {0}
  BY ConstantsAssumption
<1>2. p \in Nat /\ q \in Nat
  BY <1>1
<1>3. PerMilli * p <= s /\ s < PerMilli * p + PerMilli
  BY <1>1, Z3
<1>4. PerMilli * q <= t /\ t < PerMilli * q + PerMilli
  BY <1>1, Z3
<1>5. PerMilli * q <= s
  BY DEF Milliseconds
<1> HIDE DEF p, q
<1>6. PerMilli * q < PerMilli * p + PerMilli /\ PerMilli * p < PerMilli * q + PerMilli
      /\ PerMilli * p \in Nat /\ PerMilli * q \in Nat
  BY <1>1, <1>2, <1>3, <1>4, <1>5
<1>7. ~(p < q) /\ ~(q < p)
  <2>1. ASSUME p < q PROVE FALSE
    <3>1. PerMilli * (p + 1) <= PerMilli * q
      BY <1>1, <1>2, <2>1, Z3
    <3>2. PerMilli * (p + 1) = PerMilli * p + PerMilli
      BY <1>1, <1>2, Z3
    <3> QED
      BY <1>1, <1>6, <3>1, <3>2
  <2>2. ASSUME q < p PROVE FALSE
    <3>1. PerMilli * (q + 1) <= PerMilli * p
      BY <1>1, <1>2, <2>2, Z3
    <3>2. PerMilli * (q + 1) = PerMilli * q + PerMilli
      BY <1>1, <1>2, Z3
    <3> QED
      BY <1>1, <1>6, <3>1, <3>2
  <2> QED
    BY <2>1, <2>2
<1> QED
  BY <1>2, <1>7 DEF Milliseconds, p, q

\* Rows are ordered, in total.
LEMMA BeforeOrder ==
  ASSUME TypeOK, NEW i \in Ids, NEW j \in Ids, NEW k \in Ids
  PROVE  /\ i = j \/ Before(i, j) \/ Before(j, i)
         /\ ~Before(i, i)
         /\ Before(i, j) /\ Before(j, k) => Before(i, k)
<1>1. i \in Nat /\ j \in Nat /\ k \in Nat
  BY ConstantsAssumption
<1>2. row[i].at \in Nat /\ row[j].at \in Nat /\ row[k].at \in Nat
  BY DEF TypeOK, Row
<1> QED
  BY <1>1, <1>2 DEF Before

Above(S, i) == {j \in S : Before(j, i)}

LEMMA AboveFinite ==
  ASSUME NEW S \in SUBSET Ids, NEW i
  PROVE  IsFiniteSet(S) /\ IsFiniteSet(Above(S, i)) /\ Cardinality(Above(S, i)) \in Nat
<1>1. IsFiniteSet(Ids)
  BY ConstantsAssumption
<1>2. IsFiniteSet(S)
  BY <1>1, FS_Subset
<1>3. Above(S, i) \in SUBSET S
  BY DEF Above
<1> QED
  BY <1>2, <1>3, FS_Subset, FS_CardinalityType

\* The rows before a row are fewer the earlier it is.
LEMMA AboveGrows ==
  ASSUME TypeOK, NEW S \in SUBSET Ids, NEW i \in S, NEW j \in S, Before(j, i)
  PROVE  /\ Above(S, j) \in SUBSET Above(S, i) /\ Above(S, j) # Above(S, i)
         /\ Cardinality(Above(S, j)) < Cardinality(Above(S, i))
<1>1. Above(S, j) \in SUBSET Above(S, i)
  BY BeforeOrder DEF Above
<1>2. j \in Above(S, i) /\ j \notin Above(S, j)
  BY BeforeOrder DEF Above
<1>3. Cardinality(Above(S, j)) <= Cardinality(Above(S, i))
      /\ Cardinality(Above(S, j)) # Cardinality(Above(S, i))
  BY <1>1, <1>2, AboveFinite, FS_Subset
<1> QED
  BY <1>1, <1>2, <1>3, AboveFinite

\* LIMIT n returns the first rows of the order, and n of them where it leaves
\* one out.
LEMMA FirstIsPrefix ==
  ASSUME TypeOK, NEW S \in SUBSET Ids, NEW n \in Nat,
         NEW e \in First(n, S), NEW i \in S, Before(i, e)
  PROVE  i \in First(n, S)
<1>1. e \in S /\ Cardinality(Above(S, e)) < n
  BY DEF First, Above
<1>2. Cardinality(Above(S, i)) < Cardinality(Above(S, e))
  BY <1>1, AboveGrows
<1>3. Cardinality(Above(S, i)) < n
  BY <1>1, <1>2, AboveFinite
<1> QED
  BY <1>3 DEF First, Above

LEMMA FirstIsFull ==
  ASSUME TypeOK, NEW S \in SUBSET Ids, NEW n \in Nat, First(n, S) # S
  PROVE  Cardinality(First(n, S)) >= n
<1> DEFINE D == S \ First(n, S)
           C == {Above(S, i) : i \in D}
<1>1. D # {} /\ D \subseteq Ids /\ D \subseteq S
  BY DEF First
<1>2. C \subseteq SUBSET S /\ C # {}
  BY <1>1 DEF Above
<1> HIDE DEF C
<1>3. PICK m \in C : \A k \in C : <<k, m>> \notin StrictSubsetOrdering(S)
  <2>1. FiniteSubsetsOf(S) = SUBSET S
    BY AboveFinite, FS_FiniteSubsetsOfFinite
  <2>2. IsWellFoundedOn(StrictSubsetOrdering(S), SUBSET S)
    BY <2>1, FS_StrictSubsetOrderingWellFounded
  <2> QED
    BY <1>2, <2>2, WFMin
<1>4. PICK i \in D : m = Above(S, i)
  BY <1>3 DEF C
<1>5. Cardinality(Above(S, i)) \in Nat /\ ~(Cardinality(Above(S, i)) < n)
  BY <1>1, <1>4, AboveFinite DEF First, Above
<1>6. ASSUME NEW j \in Above(S, i) PROVE j \in First(n, S)
  <2>1. j \in S /\ Before(j, i)
    BY <1>6 DEF Above
  <2>2. Above(S, j) \in SUBSET Above(S, i) /\ Above(S, j) # Above(S, i)
    BY <1>1, <2>1, AboveGrows
  <2>3. CASE j \in D
    <3>1. Above(S, j) \in C
      BY <2>3 DEF C
    <3>2. <<Above(S, j), Above(S, i)>> \in StrictSubsetOrdering(S)
      BY <1>2, <1>4, <2>2, <3>1 DEF StrictSubsetOrdering
    <3> QED
      BY <1>3, <1>4, <3>1, <3>2
  <2> QED
    BY <2>1, <2>3
<1>7. Above(S, i) \in SUBSET First(n, S) /\ IsFiniteSet(First(n, S))
      /\ Cardinality(First(n, S)) \in Nat
  <2>1. First(n, S) \in SUBSET S
    BY DEF First
  <2> QED
    BY <1>6, <2>1, AboveFinite, FS_Subset, FS_CardinalityType
<1>8. Cardinality(Above(S, i)) <= Cardinality(First(n, S))
  BY <1>7, FS_Subset
<1> QED
  BY <1>5, <1>7, <1>8

\* Where there are no more pages, the page has all rows fetched for, and else
\* every row that is left out comes after all of the page.
LEMMA PageIsPrefix ==
  ASSUME TypeOK, NEW S \in SUBSET Ids, NEW limit \in Nat \ {0},
         BuildPage(Fetch(S, limit), limit), NEW i \in S \ page'
  PROVE  pc' = "more" /\ \A e \in page' : Before(e, i)
<1> DEFINE F == First(limit + 1, S)
<1>1. F \subseteq S /\ F \in SUBSET Ids
  BY DEF First
<1>2. CASE Cardinality(F) > limit
  <2>1. page' = First(limit, F) /\ pc' = "more"
    BY <1>2 DEF BuildPage, Fetch, MorePages
  <2>2. ASSUME NEW e \in page' PROVE Before(e, i)
    <3>1. e \in F /\ e \in Ids /\ i \in Ids
      BY <1>1, <2>1 DEF First
    <3>2. ~Before(i, e)
      <4> SUFFICES ASSUME Before(i, e) PROVE FALSE
        OBVIOUS
      <4>1. i \in F
        BY <3>1, FirstIsPrefix
      <4>2. i \in First(limit, F)
        BY <1>1, <2>1, <4>1, FirstIsPrefix
      <4> QED
        BY <2>1, <4>2
    <3> QED
      BY <3>1, <3>2, BeforeOrder
  <2> QED
    BY <2>1, <2>2
<1>3. CASE ~(Cardinality(F) > limit)
  <2>1. page' = F
    BY <1>3 DEF BuildPage, Fetch
  <2>2. Cardinality(F) >= limit + 1
    BY <2>1, FirstIsFull
  <2>3. IsFiniteSet(F) /\ Cardinality(F) \in Nat
    BY <1>1, AboveFinite, FS_CardinalityType
  <2> QED
    BY <1>3, <2>2, <2>3
<1> QED
  BY <1>2, <1>3

\* A row that matches ever since the first page is returned, ahead of the
\* cursor, or of the millisecond in which some page ended.
SkipOK(i) ==
  \/ pc = "more" /\ Beyond(i)
  \/ \E e \in ends : /\ Milliseconds(row[e].at) = Milliseconds(row[i].at)
                     /\ Milliseconds(row[e].at) # row[e].at
                     /\ Before(e, i)

\* What a page leaves out is ahead of its cursor or of its last millisecond.
LEMMA LeftOut ==
  ASSUME TypeOK, NEW S \in SUBSET Ids, NEW limit \in Nat \ {0},
         BuildPage(Fetch(S, limit), limit), UNCHANGED row, NEW i \in S \ page'
  PROVE  SkipOK(i)'
<1>1. pc' = "more" /\ \A e \in page' : Before(e, i)
  BY PageIsPrefix
<1>2. PICK e \in page' : cursor' = EncodeCursor(e) /\ ends' = ends \cup {e}
  BY <1>1, PageRead
<1>3. e \in Ids /\ i \in Ids /\ e \in Nat /\ i \in Nat
  BY PageRead, ConstantsAssumption
<1>4. row[e].at \in Nat /\ row[i].at \in Nat
  BY <1>3 DEF TypeOK, Row
<1> DEFINE m == Milliseconds(row[e].at)
<1>5. cursor'.at = m /\ cursor'.id = e /\ m \in Nat /\ m <= row[e].at
  BY <1>2, <1>4, CutOff DEF EncodeCursor
<1>6. Before(e, i)
  BY <1>1
<1>7. CASE row[i].at < m \/ (row[i].at = m /\ i < e)
  BY <1>1, <1>5, <1>7 DEF SkipOK, Beyond
<1>8. CASE ~(row[i].at < m \/ (row[i].at = m /\ i < e))
  <2>1. m <= row[i].at /\ row[i].at <= row[e].at /\ m # row[e].at
    BY <1>3, <1>4, <1>5, <1>6, <1>8 DEF Before
  <2>2. Milliseconds(row[i].at) = Milliseconds(row[e].at)
    BY <1>4, <2>1, SameMillisecond
  <2>3. e \in ends' /\ Before(e, i)'
    BY <1>2, <1>6 DEF Before
  <2> QED
    BY <2>1, <2>2, <2>3 DEF SkipOK
<1> QED
  BY <1>7, <1>8

\* Rows that keep their created_at stay where they are to the reader.
LEMMA SkipStays ==
  ASSUME ends \subseteq ends', NEW i, row'[i].at = row[i].at,
         \A e \in ends : row'[e].at = row[e].at,
         SkipOK(i), pc = "more" /\ Beyond(i) => pc' = "more" /\ cursor' = cursor
  PROVE  SkipOK(i)'
  BY DEF SkipOK, Beyond, Before

\* What happens to the table: created_at of a row that was listed never changes,
\* and a row that does not match any more need not be returned.
LEMMA SkipTable ==
  ASSUME TypeOK, PassedInv, SkipsOnlyWithinMillisecond, UNCHANGED reader, stayed' \subseteq stayed,
         \A j \in Ids : row[j].state \notin {"none", "open"} => row'[j].at = row[j].at
  PROVE  SkipsOnlyWithinMillisecond'
<1> SUFFICES ASSUME pc # "idle", NEW i \in stayed' \ (page \cup got)
             PROVE  SkipOK(i)'
  BY DEF SkipsOnlyWithinMillisecond, SkipOK, reader
<1>1. SkipOK(i)
  BY DEF SkipsOnlyWithinMillisecond, SkipOK
<1>2. row'[i].at = row[i].at
  BY DEF TypeOK, Listed
<1>3. \A e \in ends : row'[e].at = row[e].at
  BY DEF TypeOK, PassedInv
<1>4. ends' = ends /\ pc' = pc /\ cursor' = cursor
  BY DEF reader
<1> QED
  BY <1>1, <1>2, <1>3, <1>4, SkipStays

LEMMA SkipStep ==
  TypeOK /\ DescendInv /\ SkipsOnlyWithinMillisecond /\ [Next]_vars => SkipsOnlyWithinMillisecond'
<1> SUFFICES ASSUME TypeOK, DescendInv, SkipsOnlyWithinMillisecond, [Next]_vars
             PROVE  SkipsOnlyWithinMillisecond'
  OBVIOUS
<1>0. PassedInv
  BY DEF DescendInv
<1>1. ASSUME NEW limit \in Limits, FirstPage(limit)
      PROVE  SkipsOnlyWithinMillisecond'
  <2>1. limit \in Nat \ {0} /\ Listed \in SUBSET Ids
    BY ConstantsAssumption DEF Listed
  <2>2. \A i \in Listed \ page' : SkipOK(i)'
    BY <1>1, <2>1, LeftOut DEF FirstPage
  <2> QED
    BY <1>1, <2>2 DEF FirstPage, SkipsOnlyWithinMillisecond, SkipOK
<1>2. ASSUME NEW limit \in Limits, NextPage(limit)
      PROVE  SkipsOnlyWithinMillisecond'
  <2> DEFINE S == {i \in Listed : Beyond(i)}
  <2>1. limit \in Nat \ {0} /\ S \in SUBSET Ids
    BY ConstantsAssumption DEF Listed
  <2>2. /\ pc = "more" /\ BuildPage(Fetch(S, limit), limit)
        /\ got' = got \cup page /\ UNCHANGED <<row, stayed>>
    BY <1>2 DEF NextPage
  <2>3. ASSUME NEW i \in stayed \ (page' \cup got')
        PROVE  SkipOK(i)'
    <3>1. SkipOK(i)
      BY <2>2 DEF SkipsOnlyWithinMillisecond, SkipOK
    <3>2. CASE Beyond(i)
      <4>1. i \in S \ page'
        BY <3>2 DEF TypeOK
      <4> QED
        BY <2>1, <2>2, <4>1, LeftOut
    <3>3. CASE ~Beyond(i)
      <4>1. ends \subseteq ends'
        BY <2>2, PageRead
      <4> QED
        BY <2>2, <3>1, <3>3, <4>1, SkipStays
    <3> QED
      BY <3>2, <3>3
  <2> QED
    BY <2>2, <2>3 DEF SkipsOnlyWithinMillisecond, SkipOK
<1>3. CASE Tick
  BY <1>0, <1>3, SkipTable DEF Tick
<1>4. ASSUME NEW i \in Ids,
             \/ BeginInsert(i) \/ \E state \in {"listed", "other"} : CommitInsert(i, state)
             \/ Update(i) \/ Remove(i) \/ MarkRead(i)
      PROVE  SkipsOnlyWithinMillisecond'
  <2>1. UNCHANGED reader /\ stayed' \subseteq stayed
    BY <1>4, TableType DEF BeginInsert, CommitInsert, Update, Remove, MarkRead, SetState
  <2>2. ASSUME NEW j \in Ids, row[j].state \notin {"none", "open"}
        PROVE  row'[j].at = row[j].at
    <3>1. CASE BeginInsert(i)
      BY <2>2, <3>1 DEF BeginInsert, TypeOK
    <3>2. ASSUME NEW state \in {"listed", "other"}, CommitInsert(i, state)
          PROVE  row'[j].at = row[j].at
      BY <2>2, <3>2 DEF CommitInsert, TypeOK, Row
    <3>3. CASE Update(i) \/ Remove(i) \/ MarkRead(i)
      BY <2>2, <3>3 DEF Update, Remove, MarkRead, SetState, TypeOK, Row
    <3> QED
      BY <1>4, <3>1, <3>2, <3>3
  <2> QED
    BY <1>0, <2>1, <2>2, SkipTable
<1>5. CASE MarkAllRead
  <2>1. \A j \in Ids : row'[j].at = row[j].at
    BY <1>5 DEF MarkAllRead, TypeOK, Row
  <2> QED
    BY <1>0, <1>5, <2>1, SkipTable, MarkAllReadType DEF MarkAllRead
<1>6. CASE UNCHANGED vars
  BY <1>0, <1>6, SkipTable DEF vars, reader
<1> QED
  BY <1>1, <1>2, <1>3, <1>4, <1>5, <1>6 DEF Next, Read

\* A row that matches from the first page on is returned or still ahead, and
\* returned when there are no more pages, unless it shares the millisecond of
\* the last row of a page, for every page size and resolution of the clock
\* (encodeCursor, buildPage, hasMore).
THEOREM SkipsOnlyWithinMillisecondCorrect == Spec => []SkipsOnlyWithinMillisecond
<1>1. Init => DescendInv /\ SkipsOnlyWithinMillisecond
  BY DEF Init, DescendInv, PassedInv, PagesDescend, SkipsOnlyWithinMillisecond
<1>2. Spec => [](TypeOK /\ IdleInv)
  BY InitTypeOK, TypeStep, PTL DEF Spec
<1>3. Spec => [](DescendInv /\ SkipsOnlyWithinMillisecond)
  BY <1>1, <1>2, DescendStep, SkipStep, PTL DEF Spec
<1> QED
  BY <1>3, PTL
===============================================================================
