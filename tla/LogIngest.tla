------------------------------ MODULE LogIngest ------------------------------
(***************************************************************************)
(* The logs of one service on their way into the LogEvent table:           *)
(* _ingest_single_service_logs (health/log_ingestor.py), an incremental    *)
(* copy of `docker logs` that a crash may cut anywhere, and the rows       *)
(* store_log_line (health/logs.py) adds while a live stream is open.       *)
(*                                                                         *)
(* Each dashboard process makes a pass when it starts, and nothing keeps   *)
(* two of them, or two workers of one, from ingesting at once.  A pass is  *)
(* one session, of which every commit is a transaction: between two of     *)
(* its steps the rows and the cursor may have been written by another.     *)
(*                                                                         *)
(* Docker stamps lines in nanoseconds, a row keeps microseconds: times     *)
(* here are in nanoseconds, Grain of them to the microsecond, 0 for none.  *)
(* Of an empty line rstrip leaves the stamp alone, without the space that  *)
(* ends it: it is stored as a message with no time of its own.             *)
(*                                                                         *)
(* From outside src/: `docker logs --since` includes lines of that very    *)
(* time and writes a line to the stream the container wrote it to; a       *)
(* container that is replaced takes its log with it.                       *)
(***************************************************************************)
EXTENDS Naturals, Sequences, FiniteSets, FiniteSetsExt

CONSTANTS
  Ingestors,        \* processes that make passes
  Messages,         \* what lines say
  Blank,            \* of these, nothing: an empty line
  Grain,            \* nanoseconds to the microsecond
  TailLines,        \* --tail of a first pass (200)
  Window,           \* newest rows compared at the boundary (500)
  BatchSize,        \* rows to a commit (1000)
  MaxTime, MaxLines, MaxErrors, MaxStreamed, MaxRows
     \* bounds: the clock, the log, its lines of stderr, streamed rows, rows when a pass begins

ASSUME IngestAssumption ==
  /\ {Grain, TailLines, Window, BatchSize, MaxTime} \subseteq Nat \ {0}
  /\ {MaxLines, MaxErrors, MaxStreamed, MaxRows} \subseteq Nat

VARIABLES
  clock,
  log,       \* every line the service wrote, in order: [ts, err, msg]
  from,      \* the first of them that is in the present container's log
  db,        \* the rows, by id: [at, msg, source]
  cursor,    \* LogCursor.last_timestamp
  step,      \* per ingestor: where its pass is, or "idle"
  since,     \* per ingestor: the cursor its session has loaded or stored, 0 without a row, or
             \* without a session
  todo,      \* per ingestor: lines printed, or left to store, as indices of log
  first,     \* history: the first line a pass without a cursor was given
  owed,      \* history: lines of Output from there on that passes were given, but for those
             \* that went with their container before the cursor passed them
  blurred    \* history: two passes were under way at once, or one did not see all rows
             \* of its cursor's time

vars == <<clock, log, from, db, cursor, step, since, todo, first, owed, blurred>>
passVars == <<step, since, todo>>
histVars == <<first, owed, blurred>>

Micro(ts) == ts \div Grain

\* The lines of stdout, and those of them that say something.
StdOut == {i \in DOMAIN log : ~log[i].err}
Output == {i \in StdOut : log[i].msg # Blank}

\* The row of an empty line has the time it is stored at.
Row(i) ==
  [at |-> Micro(IF log[i].msg = Blank THEN clock ELSE log[i].ts), msg |-> log[i].msg, source |-> "ingestor"]

Init ==
  /\ clock = 1
  /\ log = <<>> /\ from = 1
  /\ db = <<>> /\ cursor = 0
  /\ step = [p \in Ingestors |-> "idle"]
  /\ since = [p \in Ingestors |-> 0]
  /\ todo = [p \in Ingestors |-> {}]
  /\ first = 1 /\ owed = {} /\ blurred = FALSE

(***************************************************************************)
(* The container, and the live stream.                                     *)
(***************************************************************************)
Tick == clock < MaxTime /\ clock' = clock + 1 /\ UNCHANGED <<log, from, db, cursor, passVars, histVars>>

Write ==
  /\ Len(log) < MaxLines
  /\ \E m \in Messages, e \in BOOLEAN :
       /\ e => Cardinality({i \in DOMAIN log : log[i].err}) < MaxErrors
       /\ log' = Append(log, [ts |-> clock, err |-> e, msg |-> m])
  /\ UNCHANGED <<clock, from, db, cursor, passVars, histVars>>

\* start_service removes the old container.
Recreate ==
  /\ from' = Len(log) + 1
  /\ owed' = {i \in owed : log[i].ts < cursor}
  /\ UNCHANGED <<clock, log, db, cursor, passVars, first, blurred>>

\* A live line gets a row of its own, stamped with the time it is stored.
StoreLogLine ==
  /\ Cardinality({k \in DOMAIN db : db[k].source = "stream"}) < MaxStreamed
  /\ \E i \in from .. Len(log) :
       /\ log[i].ts < clock /\ log[i].msg # Blank
       /\ db' = Append(db, [at |-> Micro(clock), msg |-> log[i].msg, source |-> "stream"])
  /\ UNCHANGED <<clock, log, from, cursor, passVars, histVars>>

(***************************************************************************)
(* A pass.                                                                 *)
(***************************************************************************)
\* Where the newest TailLines of the container's log begin.
TailFrom == IF from + TailLines > Len(log) THEN from ELSE Len(log) - TailLines + 1

\* The lines of the log that `docker logs` prints, on either stream.
DockerLogs ==
  IF cursor = 0 THEN TailFrom .. Len(log) ELSE {i \in from .. Len(log) : log[i].ts >= cursor}

\* The session loads the cursor; a `docker logs` that fails leaves it at that.
Begin(p) ==
  /\ step[p] = "idle" /\ Len(db) < MaxRows
  /\ step' = [step EXCEPT ![p] = "sift"]
  /\ since' = [since EXCEPT ![p] = cursor]
  /\ todo' = [todo EXCEPT ![p] = DockerLogs]
  /\ first' = IF cursor = 0 THEN TailFrom ELSE first
  /\ owed' = (IF cursor = 0 THEN {} ELSE owed) \cup {i \in DockerLogs \cap Output : i >= first'}
  /\ blurred' = (blurred \/ \E q \in Ingestors : step[q] # "idle")
  /\ UNCHANGED <<clock, log, from, db, cursor>>

\* What a line that says something and a row are compared by.
Record(i) == <<Micro(log[i].ts), log[i].msg>>
Stored(k) == <<db[k].at, db[k].msg>>

\* The rows, and the lines of S, with record r.
Rows(r) == {k \in DOMAIN db : Stored(k) = r}
Lines(r, S) == {i \in S : Record(i) = r}

\* The place of i among the members of S.
Rank(i, S) == Cardinality({j \in S : j <= i})

\* The newest rows.
Newest == {k \in DOMAIN db : k + Window > Len(db)}

\* mutant: rows of the cursor's own time are not looked at
BoundaryAfter(p) == {k \in Newest : since[p] # 0 /\ db[k].at > Micro(since[p])}

\* boundary_records: those of the newest rows that are at the cursor's time or later.
Boundary(p) == {k \in Newest : since[p] # 0 /\ db[k].at >= Micro(since[p])}

\* The lines at the cursor's own time, by which they may have been stored: an empty one
\* has no time to compare.
AtCursor(p) == {i \in todo[p] \cap Output : Record(i)[1] = Micro(since[p])}

\* The lines to store: of equal lines at the cursor's time, as many are taken off, from
\* the first on, as there are rows of that record.
Fresh(p) ==
  LET out == todo[p] \cap StdOut
  IN  {i \in out : i \in AtCursor(p) =>
                     Rank(i, Lines(Record(i), out)) > Cardinality(Rows(Record(i)) \cap Boundary(p))}

\* What has been printed is sifted by the rows as they are now.
Sifted(p) ==
  /\ step[p] = "sift"
  /\ step' = [step EXCEPT ![p] = IF Fresh(p) = {} THEN "idle" ELSE "store"]
  /\ todo' = [todo EXCEPT ![p] = Fresh(p)]
  /\ blurred' = (blurred \/ (since[p] # 0 /\ \E i \in AtCursor(p) : ~(Rows(Record(i)) \subseteq Newest)))
  /\ since' = [since EXCEPT ![p] = IF Fresh(p) = {} THEN 0 ELSE @]
  /\ UNCHANGED <<clock, log, from, db, cursor, first, owed>>

Batch(p) == {i \in todo[p] : Rank(i, todo[p]) <= BatchSize}

\* last_source_ts at the end of the batch: an empty line leaves it.
LastTs(p) ==
  LET stamped == Batch(p) \cap Output
  IN  IF stamped = {} THEN since[p] ELSE log[Max(stamped)].ts

\* mutant: each batch moves the cursor to the last line of the pass
MovedToEnd(p) == log[Max(todo[p])].ts

\* What a commit writes to the cursor: nothing without a time, nor if the column is as the
\* pass loaded it.
Moved(p) == IF LastTs(p) = 0 \/ (step[p] = "store" /\ LastTs(p) = since[p]) THEN cursor ELSE LastTs(p)

\* A commit inserts the cursor's row, if its session has none.
Conflict(p) == since[p] = 0 /\ LastTs(p) # 0 /\ cursor # 0

\* The members of S as the loop comes to them.
InOrder(S) == {s \in [1 .. Cardinality(S) -> S] : \A k, l \in DOMAIN s : k < l => s[k] < s[l]}

\* One transaction: a batch of rows, and the cursor at its last line.
Commit(p) ==
  /\ step[p] \in {"store", "more"} /\ ~Conflict(p)
  /\ \E s \in InOrder(Batch(p)) : db' = db \o [k \in DOMAIN s |-> Row(s[k])]
  /\ cursor' = Moved(p)
  /\ since' = [since EXCEPT ![p] = IF todo[p] = Batch(p) THEN 0 ELSE LastTs(p)]
  /\ todo' = [todo EXCEPT ![p] = @ \ Batch(p)]
  /\ step' = [step EXCEPT ![p] = IF todo[p] = Batch(p) THEN "idle" ELSE "more"]
  /\ UNCHANGED <<clock, log, from, histVars>>

\* The process dies, or a commit raises: the batch under way is rolled back.
Abort(p) ==
  /\ step[p] # "idle"
  /\ step' = [step EXCEPT ![p] = "idle"]
  /\ todo' = [todo EXCEPT ![p] = {}]
  /\ since' = [since EXCEPT ![p] = 0]
  /\ UNCHANGED <<clock, log, from, db, cursor, histVars>>

Pass(p) == Begin(p) \/ Sifted(p) \/ Commit(p) \/ Abort(p)

Next == Tick \/ Write \/ Recreate \/ StoreLogLine \/ \E p \in Ingestors : Pass(p)

Spec == Init /\ [][Next]_vars

(***************************************************************************)
(* Properties.                                                             *)
(***************************************************************************)
\* Lines of stdout that say the same in one microsecond were written at one time, so
\* that the microseconds of a record tell on which side of the cursor its line is.
TimesTell == \A i, j \in Output : Record(i) = Record(j) => log[i].ts = log[j].ts

\* "This prevents skipped logs during ingestion failures": a line of stdout that a pass
\* was given and the cursor has left behind has its row, wherever passes were cut short,
\* and whichever others were storing the same lines and moving the same cursor.
NoneSkipped ==
  TimesTell =>
    \A i \in owed : log[i].ts < cursor =>
      Cardinality(Lines(Record(i), owed)) <= Cardinality(Rows(Record(i)))

Ingested(r) == {k \in Rows(r) : db[k].source = "ingestor"}

\* "Boundary deduplication": a line that says something gets one row, however many passes
\* read it, however many rows the stream adds, and however far empty lines let the cursor
\* fall back, as long as no two passes are under way at once and none misses a row of its
\* boundary among the newest.
NoDuplicates ==
  ~blurred =>
    \A k \in DOMAIN db : db[k].msg # Blank =>
      Cardinality(Ingested(Stored(k))) <= Cardinality(Lines(Stored(k), Output))
=============================================================================
