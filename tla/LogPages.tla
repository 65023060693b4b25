------------------------------ MODULE LogPages -------------------------------
(***************************************************************************)
(* Reading the stored log lines page by page while lines are being stored  *)
(* (health/logs.py): the downloads, which iterate query_logs by the        *)
(* created_at and id of the last row they have given out, and a client of  *)
(* GET /logs/db that pages by offset (dashboard/routes.py).                *)
(*                                                                         *)
(* A query is one SELECT and sees one state of the table; between two      *)
(* queries anything may be stored.  Ids grow, created_at need not: a line  *)
(* streamed now has the time of its commit, an ingested one Docker's time, *)
(* which may lie before that of rows stored long ago.                      *)
(***************************************************************************)
EXTENDS Naturals, Sequences, FiniteSets

CONSTANTS
  Instants,   \* the times a row may have
  Limit,      \* rows of a page: batch_size of the downloads, limit of the route
  MaxRows     \* bound: rows ever stored

ASSUME PagesAssumption == Instants \subseteq Nat /\ Limit \in Nat \ {0} /\ MaxRows \in Nat

VARIABLES
  table,    \* the rows in the order of their ids: created_at, and whether the filters match
  mode,     \* "cursor" (a download) or "offset" (a client of the route)
  step,     \* "first" before the first query, "more", "done"
  cursor,   \* the id of the last row given out, 0 (None) before there is one
  offset,   \* the offset of the client's next query
  pages,    \* what the reader was given: sets of ids, page by page
  before    \* history: rows with an id up to this were stored when it began

vars == <<table, mode, step, cursor, offset, pages, before>>
readerVars == <<mode, step, cursor, offset, pages, before>>

Ids == DOMAIN table

Init ==
  /\ table = <<>>
  /\ mode \in {"cursor", "offset"}
  /\ step = "first"
  /\ cursor = 0 /\ offset = 0
  /\ pages = <<>>
  /\ before = 0

\* A line is stored, by store_log_line or by an ingestion.
Store(at, match) ==
  /\ Len(table) < MaxRows
  /\ table' = Append(table, [at |-> at, match |-> match])
  /\ UNCHANGED readerVars

\* ORDER BY created_at DESC, id DESC: row i comes before row j.
Above(i, j) ==
  \/ table[i].at > table[j].at
  \/ table[i].at = table[j].at /\ i > j

\* mutant: the rows up to and with the cursor
BehindWithCursor(i) == cursor = 0 \/ i = cursor \/ Above(cursor, i)

\* mutant: the rows that are older than the cursor, whatever their id
BehindByTime(i) == cursor = 0 \/ table[i].at < table[cursor].at

\* The keyset condition: the row is older than the cursor, or as old with a lower id.
Behind(i) == cursor = 0 \/ Above(cursor, i)

\* The rows the WHERE clause selects; an offset reader gives no cursor.
Selected == {i \in Ids : table[i].match /\ Behind(i)}

\* The first n rows of S, or all of S if it has fewer.
IsHead(head, S, n) ==
  /\ head \subseteq S
  /\ Cardinality(head) = IF Cardinality(S) < n THEN Cardinality(S) ELSE n
  /\ \A i \in head, j \in S \ head : Above(i, j)

\* query_logs: OFFSET rows are skipped, LIMIT rows are returned.
IsBatch(batch) ==
  \E skip \in SUBSET Selected : IsHead(skip, Selected, offset) /\ IsHead(batch, Selected \ skip, Limit)

Begin == before' = IF step = "first" THEN Len(table) ELSE before

\* mutant: an empty batch does not end the loop
BatchUnchecked(batch) ==
  /\ step # "done"
  /\ IsBatch(batch)
  /\ Begin
  /\ step' = "more"
  /\ pages' = Append(pages, batch)
  /\ \/ /\ mode = "cursor"
        /\ \E last \in batch : (\A i \in batch \ {last} : Above(i, last)) /\ cursor' = last
        /\ UNCHANGED offset
     \/ mode = "offset" /\ offset' = offset + Limit /\ UNCHANGED cursor
  /\ UNCHANGED <<table, mode>>

\* A batch that is not empty is given out; its last row is the next cursor.
Batch(batch) ==
  /\ step # "done"
  /\ IsBatch(batch) /\ batch # {}
  /\ Begin
  /\ step' = "more"
  /\ pages' = Append(pages, batch)
  /\ \/ /\ mode = "cursor"
        /\ \E last \in batch : (\A i \in batch \ {last} : Above(i, last)) /\ cursor' = last
        /\ UNCHANGED offset
     \/ mode = "offset" /\ offset' = offset + Limit /\ UNCHANGED cursor
  /\ UNCHANGED <<table, mode>>

LastBatch ==
  /\ step # "done"
  /\ IsBatch({})
  /\ Begin
  /\ step' = "done"
  /\ UNCHANGED <<table, mode, cursor, offset, pages>>

Next ==
  \/ \E at \in Instants, match \in BOOLEAN : Store(at, match)
  \/ \E batch \in SUBSET Selected : Batch(batch)
  \/ LastBatch

Spec == Init /\ [][Next]_vars

(***************************************************************************)
(* Properties.                                                             *)
(***************************************************************************)
Given == UNION {pages[p] : p \in DOMAIN pages}

\* Every variable stays within its type; the reader is never given an empty page.
TypeOK ==
  /\ table \in Seq([at : Instants, match : BOOLEAN])
  /\ mode \in {"cursor", "offset"}
  /\ step \in {"first", "more", "done"}
  /\ cursor \in Ids \cup {0}
  /\ offset \in Nat
  /\ pages \in Seq((SUBSET Ids) \ {{}})
  /\ before \in 0 .. Len(table)

\* A download is one descending list: whatever is stored meanwhile, with whatever time,
\* no row is given out twice and none after a row that it should come before.
Descending ==
  mode = "cursor" =>
    \A p, q \in DOMAIN pages : p < q => \A i \in pages[p], j \in pages[q] : Above(i, j)

\* At its end a download, and a client that pages by offset, has every matching row that
\* was there when it began: rows that are stored meanwhile push others back, never past.
NothingMissed ==
  step = "done" => \A i \in 1 .. before : table[i].match => i \in Given
=============================================================================
