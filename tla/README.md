# DockFleet in TLA+

Specifications of DockFleet (the Python package under `src/dockfleet`): what its
concurrent and failing parts do, the properties TLC checks on small instances,
and the theorems TLAPS proves for every instance. The modules are translated
from the code. Where the code and a docstring, a guide or a test disagree, a run
shows it ("Findings").

Check a run with `tlc -config <cfg> <module>`, a proof with `tlapm <module>.tla`.
`PROJECT.json` lists the runs, the lines each definition stands for, the
mutants (changes to the model a plausible bug would make, each of which breaks
the property it is listed for), the findings, the hazards and the theorems.

## The system

DockFleet starts the services of a YAML file as Docker containers, checks their
health, restarts the failing ones, and shows them on a dashboard with live logs.
Two kinds of process run it: a CLI command (`up`, `down`, `restart`, and the
detached `self-heal` that `up` spawns) and the dashboard (FastAPI). They share
the Docker daemon, an SQLite database, and two files of the health scheduler.

| Component | State | Operations | Talks to | What is hard | What makes it correct |
|---|---|---|---|---|---|
| Service rows (`health/models.py`, `health/status.py`) | `status`, `health_status`, `consecutive_failures`, `restart_count` of each service; `RestartEvent` rows | mark running/stopped/restarting/failed/successful, count, record events | scheduler, orchestrator, dashboard | each function is a session of its own: a read, then a commit of the columns changed | counters are exact; RESTARTING is transient; the row agrees with the container |
| Self-healing (`health/scheduler.py`, `core/orchestrator.py`, `dashboard/routes.py`) | `_active_restarts`, `_restart_attempts`, results of a pass | the pass, `restart_service`, `stop_service`, the requests | Docker, rows | threads of one process and several processes act on one service; any docker command or session may fail; kills | one restart at a time; limits; a dead service comes back |
| Poll loop (`health/scheduler.py`) | thread, `_stopped`, `_next_check_at` | `start`, `stop`, `_poll` | scheduler lock | timed join, passes longer than it, deadlines | the lock outlives the thread; checks on time, not early; a stop ends |
| Scheduler lock (`health/scheduler_lock.py`, `cli/main.py`) | `.scheduler.lock`, `.scheduler.pid`, flocks | `acquire`, stale recovery, `release`, `stop_background_scheduler` | OS | a name and its inode part; PIDs go stale between read and use | one scheduler; somebody gets to run |
| Live logs (`core/logs.py`) | child, reader threads, loop callbacks, bounded queue | `stream_container_logs` | Docker, SSE client, LogEvent | three threads and a loop; full queue; disconnects; retries | order; no loss of errors; termination; nothing leaks |
| Log ingestion (`health/log_ingestor.py`, `health/logs.py`) | LogEvent rows, LogCursor | `_ingest_single_service_logs`, `store_log_line` | Docker | a pass cut between batches; two processes on one cursor; inclusive `--since`; time granularity | no line skipped, each stored once |
| Log queries, downloads (`health/logs.py`, `dashboard/routes.py`) | - (a cursor per reader) | `query_logs`, `iter_logs_as_text`, `iter_logs_as_csv`, GET `/logs/db` | LogEvent rows | pages are cut while rows are stored, with times that may lie in the past | nothing missed, nothing twice in a download |
| Service order (`core/orchestrator.py`, `cli/config.py`) | - | `_resolve_service_order`, `validate_depends_on` | `up`, `down` | circles | dependencies first; circles refused |
| Fleet commands (`cli/main.py`, `Orchestrator.up/down/restart`, `dashboard/api.py`) | position in the order, `failed` | `up`, `down`, `restart`, startup, shutdown, and the schedulers they spawn, signal and stop | all the above | partial failure; commands and schedulers on the same containers; a PID file read and used in two steps | exit status tells the truth; rows agree with containers; a scheduler is left |
| Configuration, seeding (`cli/config.py`, `health/seed.py`, `health/services.py`) | configuration columns | validate, seed | rows | preserving runtime state | reseeding keeps counters |
| Checks, Docker wrapper, ports, dashboard reads, engine | - | I/O and queries | - | - | - |

## Modules

| Module | Models |
|---|---|
| `ServiceRow` | the row, what each session computes from it, and the column-wise commit `Flush` |
| `SelfHealing` (EXTENDS `ServiceRow`) | the pass, `restart_service`, `stop_service` and the requests, interleaved over rows, containers and guards |
| `HealthPoll` | the poll thread in discrete time |
| `SchedulerMutex`, `SchedulerLock` | what the lock promises; the files, flocks and starters that implement it |
| `LogStream` | one live stream, with its threads, callbacks and queue |
| `LogIngest` | the incremental copy of `docker logs` into rows, by several processes |
| `LogPages` | readers that page through the rows while rows are stored |
| `Fleet` | the commands on all services, and the life of the schedulers they start |
| `ServiceOrder` | the depth-first search |
| `MC...` | constants for TLC |
| `..._proofs` | the theorems |

### SelfHealing and ServiceRow

A thread (the scheduler's, or one per HTTP request) is at a label `pc[t]` about
a service `svc[t]`; labels are named after what the code does next. A label in
`Sessions` is one database session, which takes two steps: `Load` reads the row
into `view[t]`, `Commit` writes. SQLAlchemy emits an UPDATE of the changed
columns only and SQLite's deferred transaction begins at the UPDATE, so `Flush`
writes into the row *then stored* the columns in which the new value differs
from the *loaded* one. This is where lost updates would come from. `Raise` is an
exception of a session; `AfterCommit` and `AfterError` are tables of the control
flow that follows, so that every `except` of the code is a line of a table. Each
docker command works or fails (`Docker`, `DockerFails`); `Crash` kills a process
with its threads and its memory. Faults happen at most `Faults[kind]` times each.

| Code | Definitions |
|---|---|
| `run_single_pass`, `_run_single_check` | `BeginPass`, `CheckPasses`, `CheckFails`, `RecordResult`, `AllRecorded`, `PassDone` |
| `_handle_post_health` | `HandleResult`, `DecideRestart`, `DecideNothing`, `DecideRaises`, `RecordEvent`, `RecordEventRaises` |
| `Orchestrator.restart_service` | `RestartRefused`, `RestartBusy`, `EnterRestart` ... `LeaveRestart` (the `finally`) |
| `Orchestrator.start_service` inside it | `StartRemove`, `StartRun`, `StartConflict`, `StartFails` |
| POST restart, POST stop, `stop_service` | `BeginRequest`, `StopContainer`, `StopRemove`, labels `mark_stopped`, `manual_stop`, `manual_restart` |

Left out: timestamps and reasons; the backoff clock (a service with a backoff
may be postponed at any decision); health checks themselves (a choice that is
only free for a running container, at the price of a "service" fault).

### HealthPoll

Clocks are relative: `due[s]` is how far `_next_check_at` is from now, `patience`
what is left of the join. Code that neither sleeps nor waits takes no time
(`Urgent`). `stop` sets the flag and joins (`Stop`, then `Joined` or
`JoinTimesOut`); `start` on a live thread returns (`StartAlive`).

### SchedulerLock

A process of `Procs` makes one start: `Open` (which creates the file if the name
is free), `Lock` (flock without blocking), `OpenPid`/`WritePid`, or
`_raise_conflict`: `ReadHolder`, `ProbeHolder`, `CleanPid`, `CleanLock`, `Reopen`,
`Relock`. `fd[p]` is an *inode*, not a name: `UnlinkLock` frees the name while
processes keep the inode, which is the whole difficulty. `stolen` remembers that
a lock file was unlinked while another process had it open. `SchedulerMutex` is
the abstract lock: at most one scheduler is active until the lock is `broken`;
`ImplementsMutex` is the refinement, with the processes that hold the lock as
`active` and `stolen` as `broken`.

### LogStream

Per stream a reader thread (`ReaderLoop` ... `ReaderFinal`), which hands its lines
to the loop as callbacks (`ready`); `RunCallback` is `_push` on the bounded queue;
the consumer's steps are those of the coroutine between two awaits. That an
executor future is done reaches the loop by a callback behind the thread's last
lines (`Done`). A thread inside readline holds its buffer's lock, so `Close` has to
wait for it.

The generator's `finally` (`Leave`) sets `stop_readers` and has a worker thread run `cleanup()` (`cleaner`: `CloseStdout`,
`CloseStderr`, `Kill`), for which the consumer waits at "cleanup" (`Cleaned`) and then, at "join", for its readers (`Join`). `Cancel` is a
CancelledError at any await. In the `try` block it leads to the `finally`; the two awaits of the `finally` are shielded, so
that `cleanup()` goes on, but `except Exception` does not catch a second cancellation, as anyio makes one at every await
of a cancelled task: the generator is then "left", with its `cleaner` and readers still at work. A thread in
`proc.wait` that a cancellation abandons is left out: it changes nothing but to reap the child.

### LogIngest

`log` is every line the service wrote, `from` where the present container's log
begins, `db` the rows in order of id. Lines are stamped in nanoseconds and rows in microseconds
(`Micro`), so a line and a row are compared by a `Record` that several lines may share. A pass is one session: `Begin` loads the cursor
(`since`) and reads `docker logs` into `todo`, a set of positions in `log`; `Sifted` compares what was printed with the rows as they
are by then, and takes off the lines at the cursor's time that rows already stand for; each
`Commit` is one transaction of a batch and the cursor; `Abort` is a death or an error between
two. The cursor is written as SQLAlchemy writes it: the first commit of a session that found
no cursor inserts its row, and fails if another session has (`Conflict`), a first commit whose
column is as loaded writes nothing (`Moved`), and every later one writes.

A line may be empty (`Blank`). `docker logs --timestamps` prints the stamp and a space, `rstrip` takes the space, and the
stamp becomes the message of a row without a time of its own: `Row` gives it the time it is stored at, `AtCursor` never
compares it, and `LastTs` does not move past it.

`owed` is what the properties speak of: the lines of stdout that passes were given and that say something. `blurred` is set by what
the code does not provide for: two passes at once, or more rows since the cursor's time than the window shows.

### LogPages

`table` is the rows in order of id with their time and whether the filters match. A reader in
mode "cursor" is a download, which asks for the rows `Behind` the last one it was given; in
mode "offset" it is a client of GET `/logs/db` that adds the page size to its offset. A query is
one SELECT and sees one state of the table (`IsBatch`); between two of them `Store` adds rows with any
time, as ingestion does.

### Fleet

A command `c` is a process in the phases of `Follow[kind[c]]`; `Svc(c)` is the service its loop is at,
in `Order` or its reverse. `Order` is constrained to what `ServiceOrder`'s theorems give.

| Code | Definitions |
|---|---|
| `cli/main.py` `up`, `down`, `restart`; `on_startup` | `Begin`, `Follow`, `Raised` |
| `bootstrap_from_path`, `seed_services` | `SeedServices` |
| `Orchestrator.up`, `down`, `start_service`, `stop_service` | `CreateNetwork`, `StartRemove` ... `StartMark`, `Stop` ... `StopMark`, `StopMarkFails`, `ServiceDone` (the loop's end and its raise) |
| the check of the PID file, `spawn_background_scheduler` | `Look`, `Spawn` |
| `stop_background_scheduler` | `Signal`, `Unlink` |
| `self_heal`, `HealthScheduler.start` in a command | `Acquire`, `Refused`, `WritePid` |
| ends of schedulers | `Kill`, `Terminate` (SIGTERM), `Shutdown` (Ctrl+C, `on_shutdown`) |
| a scheduler's restart of a service | `HealBegin` ... `HealMark`, `CheckPasses` |

The lock is reduced to who has the flock of the file that the name now stands for, and the steps of a
healing restart before its `docker run` to one removal: the protocol in detail is `SchedulerLock`, the
restart `SelfHealing`. The histories say when a claim is off: `disturbed` (somebody else acted since the
command began), `raced` (two actors were in the middle of one service), `lost` (somebody ended the
last scheduler after the command did).

`down` creates nothing. A service may be "unseeded" (the table is there, its row is not), and then `mark_service_stopped` writes
nothing and is no failure; or "untabled", and then its query raises inside the `try` of `stop_service`, which returns False, and
`down` fails (`StopMarkFails`). A restart by a scheduler may meet a container that runs and is unhealthy. `Shutdown` in the middle of
a restart is a join that timed out: no release, and the process ends.

### ServiceOrder

`path` is the stack of calls to `visit`, `left[s]` the dependencies the loop of `s`
has yet to look at. All orders of the file and of each list are behaviours.

## Runs

| Run | Instance | Shows |
|---|---|---|
| `healing` | one service, scheduler and one request in one process; one docker failure, one database error, one kill (543k states) | restarts exclude each other, are counted and recorded once, RESTARTING has an owner and is left, the service comes back |
| `healing_limit` | two processes (detached scheduler, dashboard request), two services, one with policy "never" and healing off; a limit of 1, a backoff; a death or a failed check, a docker failure (1.8M) | the limit holds across passes; counts two processes write at once are never too high |
| `lock` | three starters over stale files, one `down`, releases, a crash (121k) | exclusion until a file in use is unlinked; somebody starts; refinement |
| `poll` | intervals 5 and 7, cap 2, join 4, passes up to 5 (4k) | the six properties of the loop |
| `stream` | queue of 3, two lines on stdout, errors and ends on both streams, two attempts, cancellation at any await (991k) | order, nothing in flight at the end, errors surface (below `2*Cap-3` lines), nothing is left running but to a `cleanup()` at work, termination |
| `ingest` | two processes, three lines that say the same or nothing, three instants, two to a microsecond, a row to a batch, a window of three rows, one streamed row, one line of stderr (4.9M) | nothing skipped, whatever overlaps, where microseconds tell equal messages apart; no line that says something twice, unless passes overlapped or the window missed rows |
| `pages` | five rows of three instants, pages of two, both kinds of reader (274k) | a download is one descending list; nothing is missed |
| `fleet` | a service and its dependency, any two of the five commands, a stale PID file or none, a database without tables, without rows, or with everything running; one docker failure, one death, one kill (3.7M) | exit statuses, dependencies, rows against containers, a scheduler is left |
| `order` | every graph on three services (10k) | sorts exactly the graphs without a circle, names real circles, ends |
| `healing_stopped`, `lock_stale`, `stream_quiet` | small | one finding each |

Why the bounds are enough. `healing`: failures start at 2 of the threshold 3, so
that the first failed check decides a restart; one service, for services share
nothing but the guard set and the scheduler thread; one request suffices for the
interleavings of two restarts or of a restart and a stop, and exclusion and exact
counting are proved for any number. One fault of each kind reaches every handler,
and, with two kinds together, the handler of a handler's failure; in `healing_limit` two
processes race for one container name, which is how a `docker run` meets a conflict. `lock`: three processes are what a theft
needs (an old owner or recoverer, the victim, the beneficiary); `MaxInodes` is
never reached by the others' creations. `poll`: an interval beyond the sleep cap,
a pass beyond the join timeout. `stream`: at a queue of 3 two sentinels and a line,
or two lines and a sentinel, compete for room; order needs two lines of one
stream; the stderr reader contributes its end and its error; errors are promised below `2*Cap-3` lines, and two lines are
one less than that at a queue of 3 ("Observations"). `ingest`: equal
messages and empty lines among them, at one instant and at several, passes of up to three commits, each
with another process's steps in between; a pass begins with at most five rows (`MaxRows`; empty lines are stored at every pass, so
something must end them) and may find three of them in its window, so that rows of the boundary
are both seen and missed; the first two instants of the clock are in different microseconds, the last two in one.
`pages`: three pages, rows of equal time, rows stored above and below the cursor. `fleet`: two
commands are what a race takes, and each may leave a scheduler, so that up to four processes are at
work; two services give a first and a last position of each loop and a dependency; commands are
interchangeable (symmetry), and the theorems hold for any number of them. `order`: circles of length 1, 2 and 3 and a diamond's paths.

Deadlock is not checked where the system may stop: requests are finite, starts
are one per process, commands, a stream and a search end, and logs have a bound.

### Fairness

`SelfHealing`: threads are scheduled and each command and session ends, as the
subprocess timeouts and SQLite's busy timeout provide; a poll thread that has
died (a database error while statuses are loaded, which nothing catches) is excepted
in the properties (`LeftAlone`), as is a service recorded as stopped, which is
not checked. Requests, faults and crashes are never forced. `HealthPoll`: the thread runs, time
passes and a join ends. `LogStream`: threads, that of `cleanup()` too, and the consumer run, and callbacks
that are ready again and again are run (asyncio runs its ready queue in
order; strong fairness because they wait while the consumer does not await). A line is never forced,
which is why `DisconnectEnds` fails for a quiet container. `ServiceOrder`: the search goes on.
`LogIngest`, `LogPages` and `Fleet` state safety only: a command, a pass or a reader may stop anywhere.

## What is proved

For every value of the constants that satisfies the assumptions of the modules.

**SelfHealing** (`SelfHealing_proofs`). `TypeCorrect`: the inductive invariant adds to
`TypeOK` that a thread outside the resting labels has a service (`SvcOK`), without
which a session would write nowhere. `GuardExcludes`: `OneRestartPerProcess` is not
inductive by itself; `Guarded` adds that a thread in the section has its service
in its process's guard set, so `EnterRestart`, which asks the set, finds it.
`CountNeverOver` holds for any number of processes: `UpperInv` says that a service's count, and each count that a session
about to write has loaded, is at most the containers run less the threads still to count one, so that a session that
overwrites another's count can only lose it. `CountExact`, with all threads in one process, is from `CountInv`: each
count, plus one if a restart waits to be counted, is the number of containers run, and a session about to count has loaded
the current count. The second part is what makes `Flush` harmless, and rests on `OneRestartPerProcess`: with two processes,
two sessions may load the same count. `EventsMatch` adds `EventsInv`, which needs no such assumption: the events are the containers
run less the threads that are on their way from the `docker run` to the event. `RestartingOwned`, in one process, is from
`RepairInv`: a thread is to repair each row at "restarting", which it can as its session loaded that (`Repaired`); what makes one
fault harmless is that a restart fails, or finds its name taken, only when a fault is spent already (`FailedByFault`,
`RunsOnFreeName`; the latter because in one process nobody else runs the container), so a second session that raises is a
second fault. `LimitHolds` needs no assumption on processes, and holds with any faults: `LimitInv` says
that an attempt under way began below the limit, and that the containers the scheduler ran are at most the attempts
counted, plus one while an attempt that may have run is not yet counted. A fault that counts an attempt twice only
brings the limit nearer (`RequestsCountNothing`: no request counts one).

**SchedulerLock** (`SchedulerLock_proofs`). `LockInv`: a process has a descriptor exactly
at the labels between open and close (`OpenInv`); one that holds the lock has the
flock of its inode (`HoldInv`); and while nothing was stolen every open descriptor is of the file
the name stands for (`NameInv`), so two holders would hold one flock. `LockTypes`,
`Exclusive`, and `Implements`: each step of the protocol is a step of
`SchedulerMutex` or a stutter. `OneStarts`: somebody starts, because whoever was refused was refused
for a process that has come to the lock, and stays among those that have: the owner of a flock is one of them
(`OwnedInv`), so that none has tried in vain before one has got it (`TriedInv`).

**HealthPoll** (`HealthPoll_proofs`). `LockCovers`; `PollTypeCorrect`, whose content is the
bounds (a deadline within its interval, a sleep within the cap); `StopOutwaits`, from
`JoinInv`: what is left of a join plus what has passed covers the sleep or the pass. `ChecksAreOnTime`, from
`LateInv`: a sleep ends no later than the earliest deadline, so that only a pass makes a check late, and by no more
than its age. `NoneOverpolled`, from `SinceInv`: the time since a check and the time to the next deadline make up the interval.

**LogStream** (`LogStream_proofs`), for any queue size, lines and attempts. `StreamTypes`, `LinesInOrder`,
`NothingIsLeft`, `NothingRuns` from `StreamInv`: what is in flight is in order (`OrderInv`) and comes after what was
delivered (`ItemsInv`), nothing of a stream is behind the callback of its future (`EndedInv`), and the consumer
counts every stream that is still to end (`ActiveInv`), which is why it cannot leave a line behind. For `NothingRuns`, `RestInv` follows `cleanup()` through its steps: which pipes are closed by
then, and that a generator that is left, or waits, has it under way or behind it. It says what is true of a cancelled generator, not
that it leaves nothing. `ErrorsAreTold`, from
`ErrorInv`: an error among the callbacks has its stream's end behind it (`ToEnd`), and in the queue fewer ends stand before an
error than the consumer counts streams (`Ahead`), so the count never ends an attempt before the error is taken. An error is given up
only for the other stream's end, on a full queue that begins with its own stream's end and the error itself (`PushErrors`, `GivenUp`).
That end came first because the error was put back behind it, when `Cap - 1` lines of the other stream had
come (`CrossInv`), and the lines behind the error have no gaps (`Spaced`): the last of them is number `2 * Cap - 3` or later.
With the real queue of 1000 no error is lost, then, before line 1997.

**ServiceOrder** (`ServiceOrder_proofs`). `SearchTypes`, `SearchSorts`, `ReportedCircle` from
`SearchInv`: what a call on the path has looked at is visited or is the next call (`Looked`),
consecutive calls are dependencies (`Chained`), and what was not entered has all its
dependencies to look at (`Untouched`). `SearchDecides`: where the search has sorted everything, the service of a circle
that comes first in the order would have a dependency before it; so it sorts exactly the configurations without a circle.

**Fleet** (`Fleet_proofs`), for any number of commands, services and faults. `FleetTypes`.
`SomeSchedulerIsLeft`: `SchedInv` says that a command has no scheduler before its end, that
whoever has the flock is a scheduler that has taken the lock, and that whoever the PID file names has at least run. With that
(`UpInv`) the process an `up` relied on is the one whose death sets `lost`. `StoppedIsDown`: `RacedInv` says that while nothing has raced at
most one actor is inside a service, and `StoppedInv` what that actor has done to it at each label, which is what makes
"recorded as stopped and not running" inductive. `ReportsAreTrue` (of a `down`: no container, and no row that claims one; a service without a row may stay so) and `DependenciesAreUp` come from `ReportInv`: of the
services the loop of an undisturbed command has passed (`LoopInv`), each is up, or gone, unless the loop has noted a failure, and at each
label of the service under way what has been done to it is known (`WorkInv`); that somebody else's step disturbs the command
is what carries this past the steps of all the others.

**LogPages** (`LogPages_proofs`). `PagesTypes`, `DownloadDescends`, `ReadersMissNothing`, for any rows and page
size, from `PagesInv`: everything a download gave out is at or above its cursor (`PlaceOK`), and a
matching row stored before the reader began is given out or still to be read (`NoneLeft`, `Unread`): behind the cursor, or with
no fewer matching rows above it than the offset, a number that storing can only raise.

**LogIngest** (`LogIngest_proofs`), for any processes, log, and sizes of tail, window and batch. `NothingSkipped` comes from
`SkipInv`: a line no pass was given is later than every cursor and every line of a pass (`AheadInv`); what the cursor has passed, or went with its
container, has its rows (`PassedInv`); and a line that a pass would move the cursor past has its rows, or that pass still has it
among the lines to store (`CoverInv`). Rows and lines are counted by record, since nothing says which row is of which line.
`StoredOnce` comes from `UniqueInv`: the one pass under way goes on from the cursor (`GoesOn`), nothing ingested is later than the cursor
(`StoredBehind`), and what is ingested of a record and what is left to store of it are together no more than its lines (`Once`); sifting keeps that
because it takes off at least as many lines as there are rows (`FirstPlacesTaken`, `ByPlace`). Empty lines enter by what they do to the
cursor: it may fall behind lines that are stored (`LastFacts`), never ahead of one that is not.

Only model-checked: the liveness properties (liveness and ENABLED are beyond the
prover). `RestartCountExact`, `EventsMatchCount` and `RestartingHasOwner` are proved, as they are checked, for threads in
one process.

## Findings

1. `healing_stopped`: `stop_service` takes no guard. When it overlaps a restart, the
   restart's `docker run` may come between the stop's `docker rm` and its STOPPED, and
   a running container stays recorded as stopped, unchecked.
2. `lock_stale`: a starter that read a stale PID unlinks the file of a scheduler that
   has just locked it; the next starter locks a new file and both run.
3. `stream_quiet`: `cleanup` closes the pipes before it terminates the child. Closing
   waits for the reader in readline, so with a container that writes nothing a
   disconnected client's child and generator stay.

### Observations

Met while modelling, each a behaviour of the modules, without a run of their own.

Restarts and rows. The guard against concurrent restarts is one process's
(`core/orchestrator.py:472`): the dashboard and the detached scheduler may restart one service at
once. Two schedulers (after a lock was stolen) can undo each other's restarts for as long as they run.
A decision to restart is not looked at again after a stop commits. A stop during a
restart that fails, whose failure mark also fails, leaves a stopped row at RESTARTING
(`RestartingIsTransient` excepts stopped rows). A service that fails to start at the first `up`, or at the dashboard's
startup, keeps its seeded STOPPED and is never checked.

Commands. `up` quickly followed by `down` leaves the spawned scheduler, which has no PID file
yet, running. `down` and `restart` send SIGTERM to whatever process the PID file names, the dashboard too. A failing `restart`
leaves no scheduler. A `down` that stopped a container and failed to remove it is undone by a
scheduler that is still there. `up` may fail because a scheduler has just run the container it is about to run.
`release` and `stop_background_scheduler` unlink a lock file that another scheduler
may have locked (both are steps of the `lock` run, where they set `stolen`; after it `ExclusiveUntilStolen` and `ImplementsMutex` promise
nothing, so they show that only such an unlink breaks the exclusion, and `lock_stale` shows one of the three ways to it).
Commands that are at one service at once may leave its row and its container apart (`raced`), and
nothing in the code prevents that. `down` before the first `up` stops what it finds and, without a database, fails.

Logs. `_push` gives up the newest line, not the oldest, when the head of a full queue is a
sentinel, and when it puts a head back it may give up another sentinel, though the comment says "Don't drop existing
sentinel, put it back" (`core/logs.py:51`): an error can be lost. TLC needs three lines at a queue of 3; at the queue's
real size of 1000 it takes 1997 lines and a client that does not read. stderr of `docker logs` is discarded. Times cut to microseconds let equal messages be
taken for one another: where two of them fall into one microsecond and a pass ends between them, the later one gets no row
(`NoneSkipped` holds under `TimesTell`, and not without it). Streamed rows count among the
newest 500 that are compared at the boundary; once they fill it the boundary line is stored
again. Nothing keeps two processes from ingesting one service at once, and then both store its
lines (`NoDuplicates` excepts both, by `blurred`, and fails where either is left out). An empty line is stored with its stamp as the
message, and again by every pass that is given it: one at the end of the log by every pass there is, since it
moves no cursor. `NoDuplicates` does not count such rows, and `NoneSkipped` does not ask for them.
A stream whose task is cancelled once, as in tests/test_logs.py:491 "cleanup finishes and releases executor threads", waits
for its cleanup; one that is cancelled again in its `finally`, as Starlette's task group does on a disconnect, leaves with child and
readers to `cleanup()`, and if the container is quiet, with all three for as long as it is (finding 3). A client of the offset pages may see a row twice, and misses none.

## Not modelled

The backoff's clock: a service with a backoff may be postponed at any decision, so
every delay is a behaviour, and what survives a manual restart in `_next_restart_at` is not followed. Database failures inside
the commands of `Fleet` (they are in `SelfHealing`), but for missing tables. Which services are due in a pass of `SelfHealing`
(`HealthPoll` has the deadlines): a pass checks all that are not stopped. `consecutive_failures` beyond `FailCap`, the
threshold, which no guard tells apart. That `_write_pid_file` truncates a PID file that two processes have open, which takes a
theft of the lock first: `WritePid` replaces it. The validation of single configuration fields and the copying of
configuration columns. A second `acquire` on a lock object that holds the lock already. The Windows
branches of the lock and reuse of a PID. The HTTP and TCP probes; formatting, templates and statistics; the ports'
polling, whose answer is not used; the engine's creation. These are I/O, or functions of one
argument without state, for which a unit test says as much as a model.

## Plan

Done, in this order: `ServiceRow` and `SelfHealing`, `SchedulerLock` over `SchedulerMutex`, `HealthPoll`,
`LogStream`, `LogIngest`, `ServiceOrder`; then `Fleet`, `LogPages` and several processes in `LogIngest`. Left:

1. The backoff's clock in `HealthPoll`, with `_next_restart_at` across manual restarts.
2. An abstract specification of healing (a service is up, down or in repair) that
   `SelfHealing` implements.
