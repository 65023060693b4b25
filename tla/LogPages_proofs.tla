--------------------------- MODULE LogPages_proofs ---------------------------
(***************************************************************************)
(* What TLAPS proves of the readers of the stored log lines, for any page  *)
(* size and any number of rows with any times, stored at any moment.       *)
(***************************************************************************)
EXTENDS LogPages, TLAPS, FiniteSetTheorems

-----------------------------------------------------------------------------
LEMMA SeqFacts ==
  ASSUME NEW R, NEW s \in Seq(R)
  PROVE  /\ Len(s) \in Nat /\ DOMAIN s = 1 .. Len(s)
         /\ \A i \in 1 .. Len(s) : s[i] \in R
OBVIOUS

LEMMA SeqGrows ==
  ASSUME NEW R, NEW S, R \subseteq S, NEW s \in Seq(R)
  PROVE  s \in Seq(S)
OBVIOUS

\* The order of the rows: times, and ids among equal times.
RowsOK == Instants \subseteq Nat /\ table \in Seq([at : Instants, match : BOOLEAN])

LEMMA AboveOrder ==
  ASSUME RowsOK, NEW i \in Ids, NEW j \in Ids, NEW k \in Ids
  PROVE  /\ Above(i, j) => ~Above(j, i) /\ i # j
         /\ Above(i, j) /\ Above(j, k) => Above(i, k)
<1>1. /\ i \in Nat /\ j \in Nat /\ k \in Nat
      /\ table[i].at \in Nat /\ table[j].at \in Nat /\ table[k].at \in Nat
  <2>1. DOMAIN table = 1 .. Len(table) /\ Len(table) \in Nat
        /\ \A r \in 1 .. Len(table) : table[r] \in [at : Instants, match : BOOLEAN]
    BY SeqFacts DEF RowsOK
  <2>2. \A r \in Ids : r \in Nat /\ table[r].at \in Instants
    BY <2>1 DEF Ids
  <2> QED BY <2>2 DEF RowsOK
<1> QED BY <1>1 DEF Above

LEMMA IdsFinite ==
  ASSUME RowsOK
  PROVE  \A S \in SUBSET Ids : IsFiniteSet(S) /\ Cardinality(S) \in Nat
<1>1. Ids = 1 .. Len(table) /\ Len(table) \in Nat
  BY DEF RowsOK, Ids
<1>2. IsFiniteSet(Ids)
  BY <1>1, FS_Interval
<1> QED BY <1>2, FS_Subset, FS_CardinalityType

\* A row of S and the rows of S above it.
AboveIn(S, i) == {j \in S : Above(j, i)}

\* A row among the first n has fewer than n above it.
LEMMA HeadRank ==
  ASSUME RowsOK, NEW S \in SUBSET Ids, NEW n \in Nat, NEW head, IsHead(head, S, n), NEW i \in head
  PROVE  Cardinality(AboveIn(S, i)) < n
<1>1. head \in SUBSET S /\ i \in Ids
  BY DEF IsHead
<1>2. AboveIn(S, i) \in SUBSET (head \ {i})
  BY <1>1, AboveOrder DEF AboveIn, IsHead
<1>3. IsFiniteSet(head) /\ IsFiniteSet(S) /\ Cardinality(head) \in Nat /\ Cardinality(S) \in Nat
  BY <1>1, IdsFinite
<1>4. IsFiniteSet(head \ {i}) /\ Cardinality(head \ {i}) = Cardinality(head) - 1
  BY <1>3, FS_RemoveElement
<1>5. Cardinality(AboveIn(S, i)) <= Cardinality(head) - 1
  BY <1>2, <1>4, FS_Subset
<1>6. Cardinality(AboveIn(S, i)) \in Nat
  BY IdsFinite DEF AboveIn
<1>7. Cardinality(head) <= n
  BY <1>3 DEF IsHead
<1> QED BY <1>3, <1>5, <1>6, <1>7

\* A head that leaves a row out is full.
LEMMA HeadFull ==
  ASSUME RowsOK, NEW S \in SUBSET Ids, NEW n \in Nat, NEW head, IsHead(head, S, n), NEW i \in S \ head
  PROVE  Cardinality(head) = n
<1>1. head \in SUBSET S
  BY DEF IsHead
<1>2. IsFiniteSet(S) /\ Cardinality(S) \in Nat
  BY IdsFinite
<1>3. Cardinality(head) # Cardinality(S)
  BY <1>1, <1>2, FS_Subset
<1> QED BY <1>3 DEF IsHead

\* A row behind the skipped ones and behind the batch has all of them above it.
LEMMA PassedRank ==
  ASSUME RowsOK, NEW S \in SUBSET Ids, NEW n \in Nat, NEW m \in Nat, NEW skip, NEW batch,
         IsHead(skip, S, n), IsHead(batch, S \ skip, m), NEW i \in (S \ skip) \ batch
  PROVE  n + m <= Cardinality(AboveIn(S, i))
<1>1. skip \in SUBSET Ids /\ batch \in SUBSET Ids /\ skip \cap batch = {}
  BY DEF IsHead
<1>2. Cardinality(skip) = n /\ Cardinality(batch) = m
  BY HeadFull
<1>3. Cardinality(skip \cup batch) = n + m
  <2>1. Cardinality(skip \cup batch) = Cardinality(skip) + Cardinality(batch) - Cardinality(skip \cap batch)
    BY <1>1, IdsFinite, FS_Union
  <2> QED BY <1>1, <1>2, <2>1, FS_EmptySet
<1>4. skip \cup batch \in SUBSET AboveIn(S, i)
  BY DEF IsHead, AboveIn
<1>5. IsFiniteSet(AboveIn(S, i))
  BY IdsFinite DEF AboveIn
<1>6. Cardinality(skip \cup batch) <= Cardinality(AboveIn(S, i))
  BY <1>4, <1>5, FS_Subset
<1> QED BY <1>3, <1>6

-----------------------------------------------------------------------------
\* What a query selects that the reader has not got past.
Unread(i) == Behind(i) /\ offset <= Cardinality(AboveIn(Selected, i))

\* Where the reader is: a download's cursor is the last row of what it gave out.
PlaceOK ==
  /\ step = "first" => cursor = 0 /\ offset = 0
  /\ mode = "cursor" =>
       /\ offset = 0
       /\ \A i \in Given : cursor # 0 /\ ~Above(cursor, i) /\ (i = cursor \/ Above(i, cursor))
  /\ mode = "offset" => cursor = 0

NoneLeft ==
  \A i \in 1 .. before : table[i].match => i \in Given \/ (step # "done" /\ Unread(i))

PagesInv == TypeOK /\ PlaceOK /\ Descending /\ NoneLeft

LEMMA Facts ==
  ASSUME TypeOK
  PROVE  /\ RowsOK /\ Len(table) \in Nat /\ Ids = 1 .. Len(table)
         /\ \A i \in Ids : i \in Nat /\ table[i].at \in Nat /\ table[i].match \in BOOLEAN
         /\ Selected \in SUBSET Ids /\ Given \in SUBSET Ids
         /\ Limit \in Nat \ {0} /\ offset \in Nat
<1>1. DOMAIN table = 1 .. Len(table) /\ Len(table) \in Nat /\ RowsOK
      /\ \A r \in 1 .. Len(table) : table[r] \in [at : Instants, match : BOOLEAN]
  BY PagesAssumption, SeqFacts DEF TypeOK, RowsOK
<1>2. \A i \in Ids : i \in Nat /\ table[i].at \in Nat /\ table[i].match \in BOOLEAN
  <2>1. \A i \in Ids : i \in Nat /\ table[i].at \in Instants /\ table[i].match \in BOOLEAN
    BY <1>1 DEF Ids
  <2> QED BY <2>1, PagesAssumption
<1>3. Given \in SUBSET Ids
  BY DEF TypeOK, Given
<1> QED BY <1>1, <1>2, <1>3, PagesAssumption DEF Ids, Selected, TypeOK

LEMMA StoreKeepsPages ==
  ASSUME PagesInv, NEW at \in Instants, NEW match \in BOOLEAN, Store(at, match)
  PROVE  PagesInv'
<1> USE DEF PagesInv
<1>1. /\ table' \in Seq([at : Instants, match : BOOLEAN]) /\ Len(table') = Len(table) + 1
      /\ DOMAIN table' = 1 .. Len(table) + 1
      /\ \A i \in 1 .. Len(table) : table'[i] = table[i]
  BY DEF Store, TypeOK
<1>2. UNCHANGED readerVars /\ Given' = Given
  BY DEF Store, readerVars, Given
<1>3. Ids \subseteq Ids'
  BY <1>1, Facts DEF Ids
<1>4. \A i, j \in Ids : Above(i, j)' <=> Above(i, j)
  BY <1>1, Facts DEF Above
<1>5. TypeOK'
  <2>1. pages \in Seq((SUBSET Ids') \ {{}})
    BY <1>3, SeqGrows DEF TypeOK
  <2>2. before \in 0 .. Len(table')
    BY <1>1, Facts DEF TypeOK
  <2> QED BY <1>1, <1>2, <1>3, <2>1, <2>2 DEF TypeOK, readerVars
<1>6. PlaceOK'
  BY <1>2, <1>4, Facts DEF PlaceOK, TypeOK, readerVars
<1>7. Descending'
  BY <1>2, <1>4 DEF Descending, TypeOK, readerVars
<1>8. NoneLeft'
  <2> SUFFICES ASSUME NEW i \in 1 .. before, table'[i].match, i \notin Given
               PROVE  step # "done" /\ Unread(i)'
    BY <1>2 DEF NoneLeft, readerVars
  <2>1. i \in Ids /\ step # "done" /\ Unread(i)
    <3>1. i \in Ids
      BY Facts DEF TypeOK
    <3> QED BY <1>1, <3>1, Facts DEF NoneLeft
  <2>2. \A j \in Ids : Behind(j)' <=> Behind(j)
    BY <1>2, <1>4 DEF Behind, TypeOK, readerVars
  <2>3. Selected \subseteq Selected'
    BY <1>1, <1>3, <2>2, Facts DEF Selected
  <2>4. AboveIn(Selected, i) \in SUBSET AboveIn(Selected, i)'
    BY <1>4, <2>1, <2>3, Facts DEF AboveIn
  <2>5. IsFiniteSet(AboveIn(Selected, i)') /\ Cardinality(AboveIn(Selected, i)') \in Nat
    <3>1. AboveIn(Selected, i)' \in SUBSET Ids'
      BY DEF AboveIn, Selected
    <3>2. IsFiniteSet(Ids')
      <4>1. Ids' = 1 .. Len(table) + 1
        BY <1>1 DEF Ids
      <4> QED BY <4>1, FS_Interval, Facts
    <3> QED BY <3>1, <3>2, FS_Subset, FS_CardinalityType
  <2>6. Cardinality(AboveIn(Selected, i)) <= Cardinality(AboveIn(Selected, i)')
    BY <2>4, <2>5, FS_Subset
  <2>7. Cardinality(AboveIn(Selected, i)) \in Nat
    BY Facts, IdsFinite DEF AboveIn, Selected
  <2> QED BY <1>2, <2>1, <2>2, <2>5, <2>6, <2>7, Facts DEF Unread, readerVars
<1> QED BY <1>5, <1>6, <1>7, <1>8

\* When a query is made, what was there at the beginning is given out or still unread.
LEMMA AtQuery ==
  ASSUME PagesInv, step # "done", Begin
  PROVE  \A i \in 1 .. before' : i \in Ids /\ (table[i].match => i \in Given \/ Unread(i))
<1> USE DEF PagesInv
<1> SUFFICES ASSUME NEW i \in 1 .. before' PROVE i \in Ids /\ (table[i].match => i \in Given \/ Unread(i))
  OBVIOUS
<1>1. i \in Ids
  BY Facts DEF Begin, TypeOK
<1>2. Cardinality(AboveIn(Selected, i)) \in Nat
  BY Facts, IdsFinite DEF AboveIn, Selected
<1>3. CASE step = "first"
  BY <1>1, <1>2, <1>3 DEF PlaceOK, Unread, Behind
<1>4. CASE step # "first"
  BY <1>1, <1>4 DEF Begin, NoneLeft
<1> QED BY <1>3, <1>4

LEMMA BatchKeepsPages ==
  ASSUME PagesInv, NEW batch \in SUBSET Selected, Batch(batch)
  PROVE  PagesInv'
<1> USE DEF PagesInv
<1>1. /\ table' = table /\ mode' = mode /\ step # "done" /\ step' = "more" /\ IsBatch(batch) /\ Begin
      /\ batch \in SUBSET Ids /\ batch # {} /\ pages' = Append(pages, batch) /\ Ids' = Ids
  BY Facts DEF Batch, Ids
<1>2. /\ Len(pages) \in Nat /\ DOMAIN pages = 1 .. Len(pages) /\ DOMAIN pages' = 1 .. Len(pages) + 1
      /\ \A p \in 1 .. Len(pages) : pages'[p] = pages[p] /\ pages[p] \subseteq Given
      /\ pages'[Len(pages) + 1] = batch
      /\ pages' \in Seq((SUBSET Ids') \ {{}})
  <2>1. pages \in Seq((SUBSET Ids) \ {{}}) /\ batch \in (SUBSET Ids) \ {{}}
    BY <1>1 DEF TypeOK
  <2>2. /\ Append(pages, batch) \in Seq((SUBSET Ids) \ {{}}) /\ Len(pages) \in Nat
        /\ DOMAIN pages = 1 .. Len(pages) /\ DOMAIN Append(pages, batch) = 1 .. Len(pages) + 1
        /\ \A p \in 1 .. Len(pages) : Append(pages, batch)[p] = pages[p]
        /\ Append(pages, batch)[Len(pages) + 1] = batch
    BY <2>1
  <2>3. \A p \in 1 .. Len(pages) : pages[p] \subseteq Given
    BY <2>2 DEF Given
  <2> QED BY <1>1, <2>2, <2>3
<1>3. Given' = Given \cup batch
  BY <1>2 DEF Given
<1>4. \A i, j : Above(i, j)' <=> Above(i, j)
  BY <1>1 DEF Above
<1>5. PICK skip \in SUBSET Selected :
        IsHead(skip, Selected, offset) /\ IsHead(batch, Selected \ skip, Limit)
  BY <1>1 DEF IsBatch
<1>6. CASE mode = "cursor"
  <2>1. PICK last \in batch : (\A i \in batch \ {last} : Above(i, last)) /\ cursor' = last
    BY <1>6 DEF Batch
  <2>2. offset = 0 /\ offset' = 0
    BY <1>6 DEF Batch, PlaceOK
  <2>3. last \in Ids /\ last # 0
    BY <1>1, <2>1, Facts
  <2>4. \A i \in Given, j \in batch : cursor \in Ids /\ Above(i, j)
    <3> SUFFICES ASSUME NEW i \in Given, NEW j \in batch PROVE cursor \in Ids /\ Above(i, j)
      OBVIOUS
    <3>1. cursor \in Ids /\ (i = cursor \/ Above(i, cursor)) /\ Above(cursor, j)
      BY <1>6 DEF PlaceOK, Selected, Behind, TypeOK
    <3> QED BY <3>1, <1>1, Facts, AboveOrder
  <2>5. TypeOK'
    <3>1. before' \in 0 .. Len(table)
      BY Facts DEF Begin, TypeOK, Batch
    <3> QED BY <1>1, <1>2, <2>1, <2>2, <2>3, <3>1 DEF TypeOK
  <2>6. PlaceOK'
    <3> SUFFICES ASSUME NEW i \in Given \cup batch
                 PROVE  ~Above(last, i) /\ (i = last \/ Above(i, last))
      BY <1>1, <1>3, <1>4, <1>6, <2>1, <2>2, <2>3 DEF PlaceOK
    <3>1. i = last \/ Above(i, last)
      BY <2>1, <2>4
    <3> QED BY <1>1, <2>3, <3>1, Facts, AboveOrder
  <2>7. Descending'
    <3> SUFFICES ASSUME NEW p \in 1 .. Len(pages) + 1, NEW q \in 1 .. Len(pages) + 1, p < q,
                        NEW i \in pages'[p], NEW j \in pages'[q]
                 PROVE  Above(i, j)
      BY <1>2, <1>4 DEF Descending
    <3>1. CASE q = Len(pages) + 1
      BY <1>2, <2>4, <3>1
    <3>2. CASE q # Len(pages) + 1
      BY <1>1, <1>2, <1>6, <3>2 DEF Descending
    <3> QED BY <3>1, <3>2
  <2>8. NoneLeft'
    <3> SUFFICES ASSUME NEW i \in 1 .. before', table[i].match, i \notin Given, i \notin batch
                 PROVE  Unread(i)'
      BY <1>1, <1>3 DEF NoneLeft
    <3>1. i \in Ids /\ Unread(i)
      BY <1>1, AtQuery
    <3>2. i \in Selected
      BY <3>1 DEF Unread, Selected
    <3>3. skip = {}
      <4>1. IsFiniteSet(skip) /\ Cardinality(skip) = 0
        BY <1>5, <2>2, Facts, IdsFinite DEF IsHead
      <4> QED BY <4>1, FS_EmptySet
    <3>4. Above(last, i)
      BY <1>5, <2>1, <3>2, <3>3 DEF IsHead
    <3>5. Behind(i)'
      BY <1>4, <2>1, <3>4 DEF Behind
    <3>6. Cardinality(AboveIn(Selected, i)') \in Nat
      <4>1. AboveIn(Selected, i)' \in SUBSET Ids
        BY <1>1 DEF AboveIn, Selected
      <4> QED BY <4>1, Facts, IdsFinite
    <3> QED BY <2>2, <3>5, <3>6 DEF Unread
  <2> QED BY <2>5, <2>6, <2>7, <2>8
<1>7. CASE mode = "offset"
  <2>1. offset' = offset + Limit /\ cursor' = cursor /\ cursor = 0
    BY <1>7 DEF Batch, PlaceOK
  <2>2. TypeOK'
    <3>1. before' \in 0 .. Len(table)
      BY Facts DEF Begin, TypeOK, Batch
    <3> QED BY <1>1, <1>2, <2>1, <3>1, Facts DEF TypeOK
  <2>3. PlaceOK' /\ Descending'
    BY <1>1, <1>7, <2>1 DEF PlaceOK, Descending
  <2>4. NoneLeft'
    <3> SUFFICES ASSUME NEW i \in 1 .. before', table[i].match, i \notin Given, i \notin batch
                 PROVE  Unread(i)'
      BY <1>1, <1>3 DEF NoneLeft
    <3>1. i \in Ids /\ Unread(i)
      BY <1>1, AtQuery
    <3>2. i \in Selected /\ i \notin skip
      <4>1. i \in Selected /\ offset <= Cardinality(AboveIn(Selected, i))
        BY <3>1 DEF Unread, Selected
      <4>2. Cardinality(AboveIn(Selected, i)) \in Nat
        BY Facts, IdsFinite DEF AboveIn, Selected
      <4>3. i \in skip => Cardinality(AboveIn(Selected, i)) < offset
        BY <1>5, Facts, HeadRank
      <4> QED BY <4>1, <4>2, <4>3, Facts
    <3>3. offset + Limit <= Cardinality(AboveIn(Selected, i))
      BY <1>5, <3>2, Facts, PassedRank
    <3>4. Behind(i)' /\ AboveIn(Selected, i)' = AboveIn(Selected, i)
      BY <1>1, <1>4, <2>1 DEF Behind, AboveIn, Selected
    <3> QED BY <2>1, <3>3, <3>4 DEF Unread
  <2> QED BY <2>2, <2>3, <2>4
<1> QED BY <1>6, <1>7 DEF TypeOK

LEMMA LastBatchKeepsPages ==
  ASSUME PagesInv, LastBatch
  PROVE  PagesInv'
<1> USE DEF PagesInv
<1>1. /\ UNCHANGED <<table, mode, cursor, offset, pages>> /\ step # "done" /\ step' = "done" /\ Begin
      /\ Given' = Given /\ Ids' = Ids
  BY DEF LastBatch, Given, Ids
<1>2. TypeOK'
  <2>1. before' \in 0 .. Len(table)
    BY Facts DEF Begin, TypeOK, LastBatch
  <2> QED BY <1>1, <2>1 DEF TypeOK
<1>3. PlaceOK' /\ Descending'
  BY <1>1 DEF PlaceOK, Descending, Above
<1>4. PICK skip \in SUBSET Selected : IsHead(skip, Selected, offset) /\ IsHead({}, Selected \ skip, Limit)
  BY DEF LastBatch, IsBatch
<1>5. Selected \ skip = {}
  <2>1. Selected \ skip \in SUBSET Ids
    BY Facts
  <2>2. IsFiniteSet(Selected \ skip) /\ Cardinality(Selected \ skip) \in Nat
    BY <2>1, Facts, IdsFinite
  <2>3. Cardinality(Selected \ skip) = 0
    BY <1>4, <2>2, Facts, FS_EmptySet DEF IsHead
  <2> QED BY <2>2, <2>3, FS_EmptySet
<1>6. NoneLeft'
  <2> SUFFICES ASSUME NEW i \in 1 .. before', table[i].match, i \notin Given PROVE FALSE
    BY <1>1 DEF NoneLeft
  <2>1. i \in Selected /\ offset <= Cardinality(AboveIn(Selected, i))
    BY <1>1, AtQuery DEF Unread, Selected
  <2>2. Cardinality(AboveIn(Selected, i)) \in Nat
    BY Facts, IdsFinite DEF AboveIn, Selected
  <2>3. Cardinality(AboveIn(Selected, i)) < offset
    BY <1>4, <1>5, <2>1, Facts, HeadRank
  <2> QED BY <2>1, <2>2, <2>3, Facts
<1> QED BY <1>2, <1>3, <1>6

-----------------------------------------------------------------------------
LEMMA PagesAlways == Spec => []PagesInv
<1>1. Init => PagesInv
  <2> SUFFICES ASSUME Init PROVE PagesInv
    OBVIOUS
  <2>1. Given = {} /\ Ids = {} /\ Len(table) = 0
    BY DEF Init, Given, Ids
  <2>2. TypeOK
    BY <2>1 DEF Init, TypeOK
  <2> QED BY <2>1, <2>2 DEF Init, PagesInv, PlaceOK, Descending, NoneLeft
<1>2. PagesInv /\ [Next]_vars => PagesInv'
  <2> SUFFICES ASSUME PagesInv, [Next]_vars PROVE PagesInv'
    OBVIOUS
  <2>1. CASE UNCHANGED vars
    <3>1. /\ UNCHANGED <<table, mode, step, cursor, offset, pages, before>> /\ Ids' = Ids /\ Given' = Given
          /\ \A i, j : Above(i, j)' <=> Above(i, j)
      BY <2>1 DEF vars, Ids, Given, Above
    <3>2. /\ \A i : Behind(i)' <=> Behind(i)
          /\ Selected' = Selected /\ \A i : AboveIn(Selected, i)' = AboveIn(Selected, i)
      BY <3>1 DEF Behind, Selected, AboveIn
    <3>3. TypeOK' /\ PlaceOK' /\ Descending'
      BY <3>1 DEF PagesInv, TypeOK, PlaceOK, Descending
    <3>4. NoneLeft'
      BY <3>1, <3>2 DEF PagesInv, NoneLeft, Unread
    <3> QED BY <3>3, <3>4 DEF PagesInv
  <2> QED BY <2>1, StoreKeepsPages, BatchKeepsPages, LastBatchKeepsPages DEF Next
<1> QED BY <1>1, <1>2, PTL DEF Spec

\* Every variable keeps its type: a reader is never given an empty page.
THEOREM PagesTypes == Spec => []TypeOK
<1>1. PagesInv => TypeOK
  BY DEF PagesInv
<1> QED BY <1>1, PagesAlways, PTL

\* A download is one descending list of rows, without a row twice.
THEOREM DownloadDescends == Spec => []Descending
<1>1. PagesInv => Descending
  BY DEF PagesInv
<1> QED BY <1>1, PagesAlways, PTL

\* What was stored when a download, or paging by offset, began is given out by its end.
THEOREM ReadersMissNothing == Spec => []NothingMissed
<1>1. PagesInv => NothingMissed
  BY DEF PagesInv, NoneLeft, NothingMissed
<1> QED BY <1>1, PagesAlways, PTL
=============================================================================
