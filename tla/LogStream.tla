------------------------------ MODULE LogStream ------------------------------
(***************************************************************************)
(* Live logs of one container: stream_container_logs (core/logs.py), the   *)
(* generator behind the dashboard's SSE endpoint.                          *)
(*                                                                         *)
(* Each attempt runs `docker logs -f` as a child.  Two reader threads pass *)
(* its lines, by call_soon_threadsafe, to callbacks of the event loop,     *)
(* which push them on a bounded queue; the consumer, a coroutine on that   *)
(* loop, takes them.  Callbacks run in order, while the consumer awaits.   *)
(* Its `finally` has a worker thread close the pipes and kill the child,   *)
(* and waits for it and for the readers; a cancelled task, which the web   *)
(* framework cancels again at every await, does not wait.                  *)
(*                                                                         *)
(* From outside src/: a thread in readline holds the lock of its buffer    *)
(* until the call returns, and close waits for that lock.                  *)
(***************************************************************************)
EXTENDS Naturals, Sequences, FiniteSets, SequencesExt

CONSTANTS
  Cap,          \* maxsize of the queue (1000)
  Lines,        \* bound: [Streams -> lines it passes on, all attempts together]
  MaxRetries    \* attempts (20)

Streams == {"stdout", "stderr"}

ASSUME StreamAssumption ==
  Cap \in Nat /\ Cap >= 3 /\ Lines \in [Streams -> Nat] /\ MaxRetries \in Nat \ {0}

VARIABLES
  child,        \* the process: "none", "running" or "exited"
  code,         \* how it exited: "ok", "refused" (no daemon) or "failed"
  reader,       \* [Streams -> where its reader thread is]
  closed,       \* the pipes cleanup has closed
  stop,         \* stop_readers
  ready,        \* the callbacks waiting for the event loop
  queue,        \* the asyncio queue
  ended,        \* the readers whose future the loop knows to be done
  pc,           \* where the consumer is
  cleaner,      \* where the thread that runs cleanup() is
  active,       \* active_streams
  retry,        \* the attempt ended in a way that is retried
  attempt,
  gone,         \* the client has disconnected
  passed,       \* history: [Streams -> lines passed on by its reader]
  delivered,    \* history: [Streams -> Seq(line)]: yielded to the client
  failed        \* history: streams of this attempt whose reader reported an error

vars == <<child, code, reader, closed, stop, ready, queue, ended, pc, cleaner, active, retry,
          attempt, gone, passed, delivered, failed>>

childVars == <<child, code>>
pipeVars == <<reader, closed>>
queueVars == <<ready, queue, ended>>
historyVars == <<passed, failed>>
consumerVars == <<pc, cleaner, active, retry, attempt, stop, delivered>>

Line(s, n) == [kind |-> "line", stream |-> s, n |-> n]
Eof(s) == [kind |-> "eof", stream |-> s, n |-> 0]
Error(s) == [kind |-> "error", stream |-> s, n |-> 0]
Done(s) == [kind |-> "done", stream |-> s, n |-> 0]      \* the future's own callback

Items == [kind : {"line", "eof", "error"}, stream : Streams, n : Nat]
Callbacks == Items \cup {Done(s) : s \in Streams}

IsSentinel(item) == item.kind # "line"

Init ==
  /\ child = "none" /\ code = "ok"
  /\ reader = [s \in Streams |-> "none"]
  /\ closed = {} /\ stop = FALSE
  /\ ready = <<>> /\ queue = <<>> /\ ended = {}
  /\ pc = "start" /\ cleaner = "none" /\ active = 2 /\ retry = FALSE /\ attempt = 1
  /\ gone = FALSE
  /\ passed = [s \in Streams |-> 0]
  /\ delivered = [s \in Streams |-> <<>>]
  /\ failed = {}

(***************************************************************************)
(* The child, and the client.                                              *)
(***************************************************************************)
Exit ==
  /\ child = "running"
  /\ child' = "exited"
  /\ code' \in {"ok", "refused", "failed"}
  /\ UNCHANGED <<pipeVars, queueVars, consumerVars, gone, historyVars>>

Disconnect ==
  /\ ~gone /\ gone' = TRUE
  /\ pc \notin {"end", "left"}
  /\ UNCHANGED <<childVars, pipeVars, queueVars, consumerVars, historyVars>>

(***************************************************************************)
(* A reader thread.  It passes nothing on once stop_readers is set.        *)
(***************************************************************************)
Goto(s, from, to) == reader[s] = from /\ reader' = [reader EXCEPT ![s] = to]

Pass(items) == ready' = IF stop THEN ready ELSE ready \o items

ReaderLoop(s) ==
  /\ Goto(s, "loop", IF stop THEN "final" ELSE "call")
  /\ UNCHANGED <<childVars, closed, queueVars, consumerVars, gone, historyVars>>

\* A closed pipe raises, and with stop_readers set nothing is reported.
ReaderCall(s) ==
  /\ Goto(s, "call", IF s \in closed THEN "final" ELSE "readline")
  /\ UNCHANGED <<childVars, closed, queueVars, consumerVars, gone, historyVars>>

ReadLine(s) ==
  /\ child = "running" /\ (stop \/ passed[s] < Lines[s])
  /\ Goto(s, "readline", "loop")
  /\ Pass(<<Line(s, passed[s] + 1)>>)
  /\ passed' = IF stop THEN passed ELSE [passed EXCEPT ![s] = @ + 1]
  /\ UNCHANGED <<childVars, closed, queue, ended, consumerVars, gone, failed>>

\* mutant: the empty string is taken for an empty line
ReadEofContinues(s) ==
  /\ child = "exited"
  /\ Goto(s, "readline", "loop")
  /\ UNCHANGED <<childVars, closed, queueVars, consumerVars, gone, historyVars>>

ReadEof(s) ==
  /\ child = "exited"
  /\ Goto(s, "readline", "final")
  /\ UNCHANGED <<childVars, closed, queueVars, consumerVars, gone, historyVars>>

\* A read that raises, as on a byte that is no UTF-8.
ReadError(s) ==
  /\ child = "running"
  /\ Goto(s, "readline", "final")
  /\ Pass(<<Error(s)>>)
  /\ failed' = IF stop THEN failed ELSE failed \cup {s}
  /\ UNCHANGED <<childVars, closed, queue, ended, consumerVars, gone, passed>>

\* mutant: the loop knows at once that the reader is done
ReaderFinalAtOnce(s) ==
  /\ Goto(s, "final", "ended")
  /\ Pass(<<Eof(s)>>)
  /\ ended' = ended \cup {s}
  /\ UNCHANGED <<childVars, closed, queue, consumerVars, gone, historyVars>>

\* `finally`: the sentinel, then the thread's future, which comes behind it.
ReaderFinal(s) ==
  /\ Goto(s, "final", "ended")
  /\ ready' = ready \o (IF stop THEN <<>> ELSE <<Eof(s)>>) \o <<Done(s)>>
  /\ UNCHANGED <<childVars, closed, queue, ended, consumerVars, gone, historyVars>>

(***************************************************************************)
(* The event loop: _push.  A full queue gives up its oldest line, but a    *)
(* sentinel found there goes to the back, and the new line is given up.    *)
(***************************************************************************)
Full(q) == Len(q) >= Cap

Rotated(q) == Append(Tail(q), Head(q))

\* mutant: whatever is oldest makes room
PushOldest(q, item) ==
  IF Full(q) THEN Append(Tail(q), item) ELSE Append(q, item)

\* mutant: a sentinel that was put back is taken to have made room
PushTakesRoom(q, item) ==
  Append(IF ~Full(q) THEN q ELSE IF IsSentinel(Head(q)) THEN Rotated(q) ELSE Tail(q), item)

\* mutant: the popped item is put back though it is no sentinel
PushPutsBack(q, item) ==
  IF ~Full(q) THEN Append(q, item)
  ELSE IF IsSentinel(item) THEN Append(Tail(Rotated(q)), item)
  ELSE Rotated(q)

Push(q, item) ==
  LET room == IF ~Full(q) THEN q
              ELSE IF IsSentinel(Head(q)) THEN Rotated(q) ELSE Tail(q)
  IN  IF ~Full(room) THEN Append(room, item)
      ELSE IF IsSentinel(item) THEN Append(Tail(room), item)
      ELSE room

LinesIn(seq, s) == {item.n : item \in {i \in Range(seq) : i.kind = "line" /\ i.stream = s}}

\* The consumer awaits at these labels, inside its try block and in its `finally`.
InBody == {"check", "get", "gather", "exited"}
Awaiting == InBody \cup {"cleanup", "join"}

RunCallback ==
  LET item == Head(ready)
  IN  /\ pc \in Awaiting \cup {"left"} /\ ready # <<>>
      /\ ready' = Tail(ready)
      /\ IF item.kind = "done"
         THEN ended' = ended \cup {item.stream} /\ UNCHANGED queue
         ELSE /\ queue' = IF stop THEN queue ELSE Push(queue, item)
              /\ UNCHANGED ended
      /\ UNCHANGED <<childVars, pipeVars, consumerVars, gone, historyVars>>

(***************************************************************************)
(* The consumer.                                                           *)
(***************************************************************************)
Popen ==
  /\ pc = "start"
  /\ child' = "running"
  /\ reader' = [s \in Streams |-> "loop"]
  /\ closed' = {} /\ stop' = FALSE /\ ready' = <<>> /\ queue' = <<>> /\ ended' = {} /\ failed' = {}
  /\ active' = 2 /\ retry' = FALSE
  /\ pc' = "check" /\ cleaner' = "none"
  /\ UNCHANGED <<code, attempt, gone, passed, delivered>>

\* No docker binary, or no permission: told to the client, and the stream ends.
PopenFails ==
  /\ pc = "start"
  /\ pc' = "end"
  /\ UNCHANGED <<childVars, pipeVars, queueVars, cleaner, active, retry, attempt, stop, delivered, gone, historyVars>>

\* Leaving the try block: its `finally` sets stop_readers and starts cleanup().
Leave(again) ==
  /\ pc' = "cleanup" /\ cleaner' = "close_stdout"
  /\ retry' = again
  /\ stop' = TRUE

CleanUp(again) ==
  /\ Leave(again)
  /\ UNCHANGED <<childVars, pipeVars, queueVars, active, attempt, gone, historyVars>>

Advance(to) ==
  /\ pc' = to
  /\ UNCHANGED <<childVars, pipeVars, queueVars, cleaner, active, retry, attempt, stop, delivered, gone, historyVars>>

Drained == ended = Streams /\ queue = <<>>

Check ==
  /\ pc = "check"
  /\ IF active > 0 /\ gone THEN CleanUp(FALSE) /\ UNCHANGED delivered
     ELSE Advance(IF active = 0 \/ Drained THEN "gather" ELSE "get")

GetSentinel ==
  /\ pc = "get" /\ queue # <<>> /\ Head(queue).kind = "eof"
  /\ queue' = Tail(queue)
  /\ active' = active - 1
  /\ pc' = "check"
  /\ UNCHANGED <<childVars, pipeVars, ready, ended, cleaner, retry, attempt, stop, delivered, gone, historyVars>>

\* Told to the client, and the stream ends.
GetError ==
  /\ pc = "get" /\ queue # <<>> /\ Head(queue).kind = "error"
  /\ CleanUp(FALSE)
  /\ UNCHANGED delivered

\* Stored, then yielded; a client that is gone may close the generator there.
GetLine ==
  LET item == Head(queue)
  IN  /\ pc = "get" /\ queue # <<>> /\ item.kind = "line"
      /\ queue' = Tail(queue)
      /\ delivered' = [delivered EXCEPT ![item.stream] = Append(@, item.n)]
      /\ \/ pc' = "check" /\ UNCHANGED <<cleaner, retry, stop>>
         \/ gone /\ Leave(FALSE)
      /\ UNCHANGED <<childVars, pipeVars, ready, ended, active, attempt, gone, historyVars>>

GetTimesOut ==
  /\ pc = "get" /\ queue = <<>>
  /\ IF ~Drained /\ gone THEN CleanUp(FALSE) /\ UNCHANGED delivered
     ELSE Advance(IF Drained THEN "gather" ELSE "check")

Gather == pc = "gather" /\ ended = Streams /\ Advance("exited")

\* wait_proc, then the exit code: a child that lives on is killed after 5 s.
WaitProc ==
  /\ pc = "exited"
  /\ child' = "exited"
  /\ code' = IF child = "running" THEN "failed" ELSE code
  /\ Leave(code' = "refused")
  /\ UNCHANGED <<pipeVars, queueVars, active, attempt, delivered, gone, historyVars>>

(***************************************************************************)
(* cleanup(), in its thread.                                               *)
(***************************************************************************)
Close(s, from, to) ==
  /\ cleaner = from /\ reader[s] # "readline"
  /\ closed' = closed \cup {s}
  /\ cleaner' = to
  /\ UNCHANGED <<childVars, reader, queueVars, pc, active, retry, attempt, stop, delivered, gone, historyVars>>

CloseStdout == Close("stdout", "close_stdout", "close_stderr")
CloseStderr == Close("stderr", "close_stderr", "kill")

Kill ==
  /\ cleaner = "kill"
  /\ child' = "exited"
  /\ code' = IF child = "running" THEN "failed" ELSE code
  /\ cleaner' = "done"
  /\ UNCHANGED <<pipeVars, queueVars, pc, active, retry, attempt, stop, delivered, gone, historyVars>>

(***************************************************************************)
(* The consumer awaits cleanup(), then the readers.                        *)
(***************************************************************************)
Cleaned == pc = "cleanup" /\ cleaner = "done" /\ Advance("join")

\* mutant: the readers are left to themselves
JoinNobody ==
  /\ pc = "join"
  /\ IF retry /\ attempt < MaxRetries
     THEN pc' = "start" /\ attempt' = attempt + 1
     ELSE pc' = "end" /\ UNCHANGED attempt
  /\ UNCHANGED <<childVars, pipeVars, queueVars, cleaner, active, retry, stop, delivered, gone, historyVars>>

Join ==
  /\ pc = "join" /\ ended = Streams
  /\ IF retry /\ attempt < MaxRetries
     THEN pc' = "start" /\ attempt' = attempt + 1
     ELSE pc' = "end" /\ UNCHANGED attempt
  /\ UNCHANGED <<childVars, pipeVars, queueVars, cleaner, active, retry, stop, delivered, gone, historyVars>>

\* CancelledError out of an await.  Inside the try block it leads to the `finally`; there
\* no except clause catches it, and the generator leaves what it awaited to go on alone;
\* the sleep between two attempts has nothing to leave.
Cancel ==
  \/ pc \in InBody /\ CleanUp(FALSE) /\ UNCHANGED delivered
  \/ pc \in {"cleanup", "join"} /\ Advance("left")
  \/ pc = "start" /\ attempt > 1 /\ Advance("end")

Consume ==
  \/ Popen \/ PopenFails \/ Check \/ GetSentinel \/ GetError \/ GetLine \/ GetTimesOut
  \/ Gather \/ WaitProc \/ Cleaned \/ Join

Clean == CloseStdout \/ CloseStderr \/ Kill

\* The reader's own steps; a line or an error comes when the container wants.
Read(s) == ReaderLoop(s) \/ ReaderCall(s) \/ ReadEof(s) \/ ReaderFinal(s)

Next ==
  \/ Consume \/ Cancel \/ Clean \/ RunCallback \/ Exit \/ Disconnect
  \/ \E s \in Streams : Read(s) \/ ReadLine(s) \/ ReadError(s)

Spec == Init /\ [][Next]_vars

\* Threads and the loop run; strong, for a loop that is busy with the consumer
\* still comes to its callbacks.
FairSpec ==
  /\ Spec
  /\ WF_vars(Consume) /\ WF_vars(Clean) /\ SF_vars(RunCallback)
  /\ \A s \in Streams : WF_vars(Read(s))

(***************************************************************************)
(* Properties.                                                             *)
(***************************************************************************)
Cleaning == {"close_stdout", "close_stderr", "kill"}

ReaderOver(s) == reader[s] \in {"none", "ended"}

\* Every variable stays within its type.
TypeOK ==
  /\ child \in {"none", "running", "exited"} /\ code \in {"ok", "refused", "failed"}
  /\ reader \in [Streams -> {"none", "loop", "call", "readline", "final", "ended"}]
  /\ closed \in SUBSET Streams /\ stop \in BOOLEAN
  /\ ready \in Seq(Callbacks)
  /\ queue \in Seq(Items) /\ Len(queue) <= Cap
  /\ ended \in SUBSET Streams
  /\ pc \in Awaiting \cup {"start", "end", "left"}
  /\ cleaner \in Cleaning \cup {"none", "done"}
  /\ active \in 0 .. 2 /\ retry \in BOOLEAN /\ attempt \in 1 .. MaxRetries /\ gone \in BOOLEAN
  /\ passed \in [Streams -> Nat] /\ delivered \in [Streams -> Seq(Nat)]
  /\ \A s \in Streams : passed[s] <= Lines[s] /\ delivered[s] \in Seq(1 .. passed[s])
  /\ failed \in SUBSET Streams

\* The lines of a stream come out in the order they went in, each at most once.
InOrder == \A s \in Streams : \A i, j \in DOMAIN delivered[s] : i < j => delivered[s][i] < delivered[s][j]

\* When the loop decides that both streams have ended, every line of the attempts so
\* far was delivered or given up for a full queue: none is still on its way.
NothingLeftBehind ==
  pc \in {"gather", "exited"} =>
    \A s \in Streams : LinesIn(ready \o queue, s) = {}

\* A reader's error is told to the client, and not taken for a normal end, however full
\* the queue was, unless many lines came: an end put back behind an error leaves the
\* error first, and the last end then takes its place; that is at 2 * Cap - 3 lines.
ErrorsSurface ==
  pc \in {"gather", "exited"} /\ failed # {} => passed["stdout"] + passed["stderr"] >= 2 * Cap - 3

\* A generator that has ended leaves neither child nor readers; one that was cancelled in
\* its `finally` leaves the child only to a cleanup() at work, and no reader in a read
\* whose pipe is not still to be closed.
ResourcesReleased ==
  /\ pc \in {"start", "end"} => child # "running" /\ \A s \in Streams : ReaderOver(s)
  /\ pc = "left" =>
       /\ child = "running" => cleaner \in Cleaning
       /\ \A s \in Streams : reader[s] = "readline" => cleaner \in Cleaning /\ s \notin closed

\* Once the child has exited, the attempt, its readers and its cleanup() end, cancelled
\* or not.
StreamEnds ==
  child = "exited" ~>
    /\ pc \in {"start", "end", "left"} /\ cleaner \notin Cleaning
    /\ \A s \in Streams : ReaderOver(s)

\* "When a client disconnects from the SSE stream, docker logs process is
\* terminated", and the generator with it.
DisconnectEnds == gone ~> pc \in {"end", "left"} /\ child # "running"
=============================================================================
