# A verification development for the file server

The program is a multithreaded file server with four scheduling policies
(`src/src/server`), a client with a load generator (`src/src/client`), code
they share (`src/src/common`) and Python scripts for workload, experiments and
analysis (`src/scripts`). This directory holds TLA+ modules that model it, the
TLC configurations that check them on small instances, and proofs that TLAPS
checks for every value of the constants. File names below are relative to
`src/src`, those that start with `scripts/` to `src`, and `README.md` is
`src/README.md`.

## 1. Inventory

| Component | State it keeps | Operations | What is hard about it |
|---|---|---|---|
| Scheduling policies (`server/scheduler*.{h,cpp}`) | nothing but the queue | `enqueue`, `next`, `requeue`, `queue_depth`, `shutdown` | several workers requeue at arbitrary moments; sjf picks from the middle, with ties |
| Request queue (`server/queue.h`) | `items_`, `shutting_down_`, the threads asleep in `cv_` | `push`, `pop_pick`, `size`, `shutdown` | notification after the unlock, spurious wakeups, the flag against the queue |
| GET slices (`server/slice.cpp`, `serve_get`) | offset, rounds, forfeited bytes, deficit in the `Request`; allowance, batch in locals | one slice | batching against direct sends, A13/A14/A16, unsigned arithmetic, the next slice runs in another thread |
| PUT slices and stored files (`serve_put`, `release_request`) | temporary file, bytes read, leftover bytes | one slice, release | two requests for one name, a failure after the rename, crash, the 10 s chunk deadline |
| Server threads and shutdown (`server/main.cpp`) | `g_shutdown`, `g_active_admissions`, the threads, the sockets | accept, admit, serve, record, release, drain, join | the signal may come anywhere; ownership of sockets and requests passes between threads |
| Metrics CSV writer (`common/csv_writer.cpp`) | the file, under a mutex | `write_row`, `close` | one row per completed request |
| Wire protocol (`common/protocol.cpp`) | a read buffer and a deadline | `read_header_line`, `read_exact`, `parse_request_line`, `send_all` | total deadlines, bytes that arrive after the header |
| Client exchanges (`common/client_ops.cpp`, `client/main.cpp`) | one connection | `get_file`, `put_file` | waits 10 s for the first `OK`, however long the queue is |
| Load generator (`client/load.cpp`) | a shared request counter, a failure count | seed, run threads, join | the threads race for the counter; a failed seed leaves no row; answers come before rows |
| Command line, configuration (`server/main.cpp`, `common/config.cpp`) | none | `parse_args`, `load_config` | narrowing of `--p` |
| Workload generator (`scripts/gen_workload.py`) | the file written so far | write lines | a loop that ends by size and must have written all long lines by then |
| Metrics analysis (`scripts/common.py`, `metrics.py`, `analysis.py`, `compare_rr_drr.py`, `summarize.py`) | none | drop seed rows, percentiles, metrics per class | the number of seed rows is assumed, not read; rows are in the order of completion; three implementations of the same quantities |
| Experiment runner (`scripts/run_experiments.py`, `run_all.sh`) | the results directories, the server process | start, wait for health, load, stop, kill | servers that hang, crash or never answer; files of earlier sessions under the same names |
| Report (`scripts/make_report.py`) | figures and `report_A.pdf` | four figures, the report | raises in mid-way on incomplete results and leaves a mixture |
| Packaging (`scripts/package.py`) | the archive | collect, refuse or write | takes what is there |
| Logging, clock (`common/logging.h`, `clock.h`), vendored JSON parser | none | | |

How they interact. The acceptor thread hands each connection to a new admission
thread; that thread reads the header, builds a `Request` and enqueues it; from
that moment the request belongs to the scheduler. A worker's `next()` moves it
to the worker, which runs one slice and then either requeues it or records,
releases, closes and deletes it. `main` polls a flag that the signal handler
sets and then shuts the parts down one after another. The queue's mutex, the
atomic counter of admissions and the sockets are all that the threads share.

Around the server, `gen_workload.py` writes the files that `client load` puts
and gets; `run_experiments.py` starts a server per cell, waits until it answers,
runs `client load`, and stops it; the server leaves a metrics file per cell.
`summarize.py` and `make_report.py` read these files through `metrics.py`,
`package.py` puts them and the report into an archive. The scripts communicate
through files only, and a user may run them in any order.

What makes each part correct:

* policies: the request taken is the policy's; no request lost, duplicated or
  starved; rr and drr go round;
* request queue: no lost wakeup, no sleeper left at shutdown, and the users
  cannot tell it from a queue with atomic operations;
* GET slices: the client gets the file once and in order, whole lines per
  slice, exact accounting of allowances, a bound on rounds and on memory, an end;
* PUT slices: the destination is either the old or the complete new file, the
  body is consumed exactly, temporary files do not outlive their request;
* server: every accepted connection is answered and closed once, rows match
  answers, shutdown ends and abandons nobody;
* client and load generator: exactly the requested number of exchanges, with
  as many rows as the analysis assumes;
* workload: every file has the lines it should have, the long ones spread out;
* analysis: the rows kept are those of the counted requests, the percentiles
  are nearest-rank ones, the scripts agree;
* experiment runner: one server at a time, every session ends unless the load
  is held by a server that hangs, and what is reported as success is about files
  of this session;
* report and archive: an archive made after a report that ended well holds the
  required metrics files and the figures of that report.

The hazards, each with its line, are listed in `PROJECT.json`.

## 2. Plan

| Step | Modules | State |
|---|---|---|
| 1 | `Policies`, `SchedulingPolicy`, `WorkQueue`, `RoundRobin`: what the scheduler promises | done, proved |
| 2 | `RequestQueue`: the mutex and the condition variable, implementing `WorkQueue` | done, safety proved |
| 3 | `FileLines`, `SliceParameters`, `GetRounds`, `GetSlice`: the slices of a GET | done, invariants and refinement proved |
| 4 | `Server`: threads, admission and shutdown around `WorkQueue` | done, safety proved |
| 5 | `StoreRequests`, `AtomicStore`, `FileStore`: several requests on one directory, temporary names, rename, release, crash and restart, implementing an atomic store | done, proved |
| 6 | `PutSlice`: the slices of a PUT; `PutExchange`: the client's `put_file` against them | done, proved |
| 7 | `Workload`: the files of `gen_workload.py` | done, proved |
| 8 | `Load`, `Rows`, `Metrics`, `MeasuredRun`: `client load` and the analysis of what it leaves | done, proved |
| 9 | `ResultFiles`, `Experiments`, `Report`, `Package`, `Pipeline`: from the experiments to the archive | done, safety proved |
| 10 | `Exchange`: deadlines and who gives up first, `get_file`; `PutSlice` implementing the PUT of `FileStore` | open |
| 11 | The loops of sjf's pick and of `line_length_at` as recursive functions against their definitions (`SjfPick`, `ScannedLength`) | done, proved |
| 12 | The loops of `analysis.py` and `compare_rr_drr.py` as recursive functions against the comprehensions of `metrics.py` (`ScriptsAgree`) | done, proved |
| 13 | `Config` (`--p`) as a function against its definition | open |

## 3. Modules and code

`MCRoundRobin` > `RoundRobin` > `WorkQueue` > `SchedulingPolicy` > `Policies`,
where `>` is EXTENDS. `MCRequestQueue` > `RequestQueue` > `SchedulingPolicy`;
`RequestQueue` instantiates `WorkQueue` as `atomic`. `MCGetSlice` > `GetSlice`
> `SliceParameters` > `FileLines`; `GetSlice` instantiates `GetRounds` as
`abstract`. `MCPutExchange` > `PutExchange` > `PutSlice` <
`MCPutSlice`. `MCFileStore` > `FileStore` > `StoreRequests`; `FileStore`
instantiates `AtomicStore` as `atomic`. `MCServer` > `Server` >
`WorkQueue`, whose operations are part of the server's actions. `MCWorkload` > `Workload`. `MCMeasuredRun` >
`MeasuredRun` > `Load` and `Metrics` > `Rows`. `MCPipeline` > `Pipeline` >
`Experiments` and `Package` > `Report`; the last three share the results
directories, `ResultFiles`. The map from definitions to source lines is in
`PROJECT.json`. Operators with a suffix, such as `Leave_FlagOnly`, are faulty
variants of the definition they are named after; no specification uses them.
They are there to show, by putting one in the definition's place, that the
properties can fail.

**WorkQueue.** The scheduler interface with atomic operations. `hold[w]` is
what worker `w` got from its last `next()`, `fresh` are the requests not yet
enqueued. `Picks` says which index a policy's pick function returns: 1, or
under sjf what its loop (`SjfPick`) ends with. `SmallestFirst` is what that loop
promises. An ASSUME of `MCRoundRobin` compares the two on every queue of up to
four requests, a theorem for all.
`Complete` stands for DONE and FAILED. `RoundRobin` adds a history
variable `passed` (which requests were taken while `y` waited).

**RequestQueue.** One action per critical section and one per notification:
`Push`/`PushNotify` for `push()`, which notifies after the unlock;
`Pop`, `Sleep`, `PopNull` for the three ways through `pop_pick()`;
`SpuriousWake`; `SetShutdown`/`NotifyAll`. A worker in state `lock` is about to
evaluate the predicate. `NotifyOne` wakes any one sleeper, or nobody. The
refinement mapping to `WorkQueue` lets a worker hold a request exactly in state
`serve`; notifying, sleeping and waking are stutters.

**FileLines, GetSlice, GetRounds.** A file is its size and the set of its
newline positions. `LineLength` is what `line_length_at` is for;
`ScannedLength` is its loop, with any number of bytes returned by each `pread`
(`Reads`). An ASSUME of `MCGetSlice` and a theorem say that they are the same
number, so the slices use the first. `GetSlice` has one action per branch of the loop body of
`serve_get` (A14 overrun, A13 preemption, a line longer than a chunk, a line
that joins the batch), one for the loop's end and one for the slice's start;
`left`, `sent`, `batch`, `lines` are its locals. `wire` is what the client has:
how many body bytes, if they came in order. `Unbounded` is the largest
`uint64_t`; the saturating sum is modelled, and `TypeOK` keeps `left` and
`deficit` inside `0 .. Unbounded`, so no subtraction wraps. `GetRounds`
describes a whole round in one step, without batches and chunks.
`Fail` is any failed send or read.

**Server.** `conn[c]` follows a connection from the backlog through the
acceptor and its admission thread; `worker[w]` follows the worker loop; `main`
the shutdown sequence; `active` is `g_active_admissions`. A slice is one step
with any of its results. The queue is the atomic one, which step 2 justifies:
`Admit`, `PickUp`, `PutBack`, `Release`, `LeaveWorker` and `StopScheduler` each
contain one of its operations. A connection is identified with its request.
The values of `arrival_ns`, `start_ns` and `finish_ns` are in `Load`.

**PutSlice.** One action for the start of a slice, one per chunk (`read_exact`
and `write_all`), one per way out. A body byte is its position in what the
client sends; the header's read has taken the first `early` of them, which are
in `leftover`. `temp` and `stored` are how many bytes of the body a file holds,
if they came in order. `taken` is the next byte on the connection. Every read,
write, send and rename may fail; a deadline is such a failure.

**PutExchange.** `put_file` with the two waits of the client. The answers are a
byte stream: one `recv` takes any number of the lines that are there
(`ReadFirst`), and what lies behind the first line is dropped, as in the code.
`late` remembers a timeout of the client.

**FileStore, AtomicStore.** Paths lead to inodes, an inode knows who wrote it
and how many bytes. `AdmitGet` opens the file and takes its size; `OpenTemp`,
`Write`, `Rename`, `RenameFails`, `Succeed`, `Fail`, `Release` follow a PUT from
its first slice to `release_request`. `Crash` kills the process: descriptors and
requests are gone, the directory stays, ids start again from 1. In
`AtomicStore` a PUT replaces a file's version in one step and a GET sends the
version it found. `PutSlice` says what one PUT writes, `FileStore` what requests
do to each other; both model the same code.

**Workload.** The loop of `write_large_with_long_lines` with its two counters,
and in it the word loop of `make_short_line` and `make_long_line`; an ordinary
file is one without long lines, whose loop is the same. Words and lines are
their lengths; the random generator is a choice from the set it picks from.

**Load, Rows, Metrics, MeasuredRun.** `Load` has the main thread of `run_load`
(seeding, starting, joining) and the worker threads, whose `fetch_add` and
comparison are `Claim` and `LeaveLoop`. The server appears as the life of each
request: it is stamped on arrival, stamped and served, and its row is written
*after* the answer, so the client may be on its way with the next request. An
exchange may fail at the client, at the server, or at both. `Rows` is
`common.py`; a row is a record of the file's columns. `Metrics` has
`run_metrics`, whose list comprehensions are `Only` (the rows that are in a
set) and `Column`, and the other two scripts, which go through the rows once.
All of these loops are recursive functions over the number of rows passed. A
quotient is a pair, compared by cross-multiplication, so nothing is rounded.
`MeasuredRun` puts them together. `seed_count` is the number of rows that
`load_all` drops, 3 by default and not read from the workload; `SeedsAreFiles`
says that it is right for the files loaded, as for the three of `gen_workload.py`. `LargeIsOneFile` says of a workload that
`large.txt` is the file, and the only one, whose rows are of class `large`, as
in the experiments: `compare_rr_drr.py` computes its slowdowns by that name.

**Experiments.** `pc` is where `run_experiments.py` is: `health` waits for the
answer, `give_up`/`giving_up` are the two branches after a server that never
answered, `load`, `stop`/`stopping`/`reap` the way of one that did. A server is
a process `proc[p]` that opens its metrics file, listens, serves, flushes its
stream's buffer at any moment (`Flush`), shuts down after a SIGTERM
(`ShutDown`), or ends without that (`Exit`), or hangs (`Hang`: it neither reads
nor writes nor ends by itself from then on); it need do none of it. `Blocked` is
the one wait of the script that nothing limits, for the load of a server that
hangs. `job[p]` is
what it was started for: a late process would write to the file of its own run
and session. A metrics file is its session and one of `header`, `torn`, `gaps`,
`full`, which is what the analysis can tell apart. The warm-up's directory is
the file of the run `warmup`.

**Report, Package, Pipeline.** `load_all` is a set of possible results, since a
torn file may or may not parse. `make_report.py` takes one step per figure and
one for the report; each step raises if it needs a cell that is not there or a
slowdown that is `None` (of class large, `NoLarge`, or of any class, `Gaps`), and what was written before stays. Each figure and the
report know the session at whose end they were drawn. `Pipeline` adds
`run_all.sh` with its `set -e` and the user, who runs one script at a time.

## 4. Runs

| Run | Instance | Shows |
|---|---|---|
| `queue` | 3 requests (two of one size, one smaller), 2 workers, rr and sjf | one owner per request (`SingleOwner`), the queue is empty when the last worker leaves (`NothingLeftBehind`), nobody is overtaken twice by the same request (`NoSecondOvertake`), everybody waiting is taken (`WaitingIsTaken`), shutdown ends (`ShutdownDrains`) |
| `request_queue` | 3 requests, 2 workers, drr and sjf | `NoLostWakeup`, `NoSleepThroughShutdown`, `ImplementsWorkQueue` (with fairness) |
| `get_slices` | every file of up to 8 bytes with every placement of newlines, quantum 4 (rr), quantum 2 (drr, up to four rounds), quantum 7 with `Unbounded` 9 (drr, the sum saturates), fcfs with `--p` -1, chunks of 2 bytes, `--p` 3 and 1 | the client's bytes (`WireInOrder`), `RrAccounting`, `DrrAccounting`, `DeficitBelowLine`, `RoundsBounded`, `Terminates`, `ImplementsRounds` |
| `server_safety` | 3 connections, 2 workers, rr, symmetric | `NoneAbandoned`, `SocketLifecycle`, `RowPerDone` |
| `server_live` | 2 connections, 2 workers, drr, no symmetry | `ShutdownCompletes`, `EveryoneIsAnswered` |
| `put_slices` | bodies of up to 7 bytes declared, 8 sent, every split; chunks of 3; fcfs, rr with quantum 1, 3, 4 | `BodyInOrder`, `RoundsExact`, `VerdictIsTrue` |
| `put_exchange` | files of 1, 2, 3, 5 bytes; chunks of 2; fcfs, rr with quantum 2, 4 | `ConfirmedIsStored`, `StoredIsConfirmed`, `NoMutualWait` |
| `file_store` | two PUTs (2 bytes, 1 byte) and a GET of one file, which may be there or not; 3 ids, 2 crashes | `NeverHalfWritten`, `NoOrphans`, `SoleWriter`, `ImplementsStore` |
| `empty_put` | a file of 0 bytes | a violation of `StoredIsConfirmed`, see below |
| `workload` | words of 1 and 3 bytes, ordinary lines of 4 to 6, an ordinary file and files with one to three long lines, one of them without room for ordinary lines | `FileAsOrdered`, `LongLinesSpread` |
| `measured_run` | two files, one empty and without a class in its name; 2 counted requests, 2 threads; `Picks` a GET of one file and a PUT of the other; one failure (`MaxFailures`) at a seed or a counted request (`Unreliable`) | the exchanges made (`ExactlyRequested`), the rows kept (`SeedsDropped`), the percentiles (`PercentilesAreRanks`), the three scripts (`ScriptsAgree`) |
| `pipeline` | two required cells, one extra cell, one aside, two process slots (`Procs`), four sessions (`MaxSessions`), two ways to run cells by hand (`ByHand`); a server may hang in every state | one server at a time (`OneServer`), `ResultsFresh`, `ArchiveSound`, and that a session ends or is `Blocked` for ever (`SessionEnds`) |

Why these bounds. Two workers are needed for a late requeue, for a worker that
leaves while another holds a request and for a wakeup that reaches the wrong
thread; a third adds no new pair. Three requests give one at the front, one in
the middle and one at the back, a tie and a smaller size. Eight bytes give
files of several rounds with lines shorter than, equal to and longer than the
quantum, the chunk and the deficit, empty files and files without a last
newline. Three connections let one be in the backlog, one in admission and one
in service when the signal comes. Two PUTs and a GET give an overwritten
file under an open descriptor, two writers of one name, and, with two crashes,
a PUT that meets the remains of an earlier one under its own temporary name and
is killed as well. Seven body bytes are two chunks and a rest. Two client
threads race for the counter and overtake each other at the server; two counted
requests after two seeds give rows in every order, and one failure gives a file
that is one row short. Four sessions are a whole `run_all.sh` with its aside and
two sessions by hand over what it left, or a second `run_all.sh`; two process
slots let a second server run if the first were left alive. The state spaces
are finite without further bounds, with these exceptions. In `FileStore`,
`MaxId` bounds the ids of one server process (`TakeId`), as many as there are
requests, and `MaxCrashes` the crashes; in `Load`, `Picks`, `Unreliable` and
`MaxFailures` bound what the dice show and what fails; in `Experiments`,
`MaxSessions` bounds the sessions, and in `Pipeline`, `ByHand` the options. Elsewhere the requests are finitely many
and are enqueued once, and the counters of `GetSlice` and `PutSlice` are bounded
by the file, as `RoundsBounded` and `RoundsExact` say.

`CHECK_DEADLOCK FALSE` is set in every cfg because these systems do stop: when
main has returned, when all workers have left, when the transfer is over, when
every worker sleeps and no client comes, when the file is written, the load is
over, or the user runs no further script.

Finding (`empty_put`). For an empty file `serve_put` sends both `OK` lines in
one slice. If they reach the client in one `recv`, `read_header_line` returns
the second one in `leftover`, which `put_file` drops (`common/client_ops.cpp:66`
to 82); the second wait then finds the connection closed, and `client put`
fails although the file is stored and counted as served. With a file that is
not empty the second `OK` cannot exist before the client has read the first
one; the run `put_exchange` checks this and a theorem proves it.

Two differences between the documentation and the code that the models show and
no run is kept for:

* `README.md:117` says that fcfs serves in arrival order, and `README.md:151-152`
  that arrival is "header parsed and request enqueued". `admit_connection` takes
  `arrival_ns` (`server/main.cpp:206`) before it opens the file and enqueues
  (line 225), in a thread per connection, so the order of the queue and the order
  of `arrival_ns` may differ. The same holds of "earliest arrival on ties" for
  sjf (`README.md:118`).
* `README.md:138-141` says that a GET never sees a half-written file. The
  temporary files lie in the served directory under names that
  `is_filename_safe` accepts, so the sentence holds for all names but theirs;
  the names of `file_store` are not theirs.

What the runs on the scripts do not say. `run_experiments.py` ignores the exit
status of `client load` (line 96), so a cell whose load has failed in part is
reported like any other: `SeedsDropped` is about loads that succeed, and a
failed seed makes the analysis drop a counted request instead. `ResultsFresh`
says that the files are of this session and, in a summary, not without rows; it
does not say that they are complete. `package.py` looks only at whether the
report is there: an archive made after a `make_report.py` that raised may hold
figures of other results than its report, and after a further session a report
of other results than its metrics files.

## 5. Fairness

* `WorkQueue!Fairness`: some worker takes a waiting request if one is free
  (weak fairness of *some* `TakeNext`, not of a given worker's), and a worker is
  done with its slice after a while, because every send and read in a slice has
  a timeout. Enqueueing and shutdown need never happen. `RequestQueue!Fairness`,
  the threads' own, implies it; `ImplementsWorkQueue` checks that. A worker's
  way through `pop_pick` is only weakly fair: the mutex is not assumed to be
  fair between threads.
* `ShutdownDrains` is stated under `EveryRequestFinishes`: a request that gets
  slices again and again completes. `GetSlice!Terminates` justifies this for a
  GET, for every instance with the theorem `EveryStepCounts`; the theorem
  `PutStepsCount` does for a PUT, whose reads end by their deadlines.
* `GetSlice!FairSpec`: a queued request gets its next slice
  (`WorkQueue!WaitingIsTaken`), and a worker in the loop runs.
* `Server!ServerFairSpec`: every thread that can run runs; reading the header ends by
  the header deadline; `accept()` fails once the listener is shut down; strong
  fairness of completion for each request, as above. Clients need not connect,
  the acceptor need not accept, the signal need not come.
* `Pipeline!Fairness`: `run_experiments.py` goes on, except in `Blocked`. Every
  wait of it has a timeout, but those for `client load` and for a server that was
  sent SIGKILL. `client load` is run without a time limit
  (`scripts/run_experiments.py:96`). The reads of its exchanges have deadlines,
  but `send_all` has none, since the client's socket has no send timeout: a
  server that has said `OK` to a PUT and then reads no more holds the client as
  soon as the body does not fit the socket buffers (`common/client_ops.cpp:77`).
  The shipped file of 153 KB usually fits; nothing here relies on it. So the load
  is taken to end with a server that goes on, whose own deadlines close the
  connection, and with one that has gone, whose sockets the kernel closes, but
  not with one that hangs. `SessionEnds` names this as its only exception: a
  session ends or stays in `Blocked` for ever. Nothing is assumed of a server,
  nor that the user runs anything.
* SIGKILL is taken to act at once, so that the process is gone when `kill()`
  returns, also where no `wait()` follows (`scripts/run_experiments.py:90`).

Assumed of the surroundings: no other process uses the ports of the experiments,
the binaries are there, there are no `<cell>_rerun.csv` files (no script writes
one), no class of requests has an average waiting time of exactly 0 (make_report
divides by it), and the window between the first arrival and the last completion
is not empty.

## 6. Proofs

Each `...Proofs` module extends the module it is named after, `ServerProofs`
`RoundRobin` as well. Theorems rest on the ASSUMEs of the modules, which TLC
evaluates in the runs, and on nothing else but the hypotheses in their
statements: the constants have the types the
code gives them, the quantum is positive where the command line demands one, a
file's newlines lie inside it, sets of threads and requests are finite where
they are counted, `client load` has a list of files (`LoadAssumption`), the
lengths `gen_workload.py` draws from have a largest one (`WorkloadAssumption`),
every file name has a size class or none (`NamesAssumption`), and no temporary
name is `None` (`NoneAssumption`). The theorems about
`FileStore` have the hypothesis `PlainNames`: no client asks for a name that is
also a temporary one (see the second difference in section 4).
`ScriptsAlwaysAgree` has the hypothesis `LargeIsOneFile` of section 3 and
`SeedRowsAreDropped` the hypothesis `SeedsAreFiles`; ASSUMEs of `MCMeasuredRun`
evaluate both on the instance checked. The other theorems about the analysis
hold for every `seed_count` (`SeedCountAssumption`: a natural number).

* `ServerProofs`, first part: the queue by itself (`WorkQueue`, `RoundRobin`),
  which the second part builds on. `SingleOwner` is inductive with `TypeOK`; the
  case of `TakeNext` needs that removing one position from a sequence without
  duplicates removes the request (`RemoveAtFacts`, `RemoveAtSource`).
  `NothingLeftBehind` needs that a worker leaves only after shutdown
  (`GoneAfterShutdown`) when nothing is enqueued from outside any more: the
  last worker to leave saw an empty queue and nobody was left to requeue.
  `NoSecondOvertake` is an action property; what makes it so is the invariant
  `AheadHasNotPassed`: no request ahead of `y` in the queue has overtaken `y`
  since it joined. It is inductive because requests join at the back and all
  but sjf take from the front. `SjfPicksSmallest` is about the loop of sjf: after
  n requests it holds the first of the smallest among them (`First`,
  `FirstStep`), by induction over n; that the loop's equations have a solution
  is shown with that same place as the witness (`SjfLoop`). `PolicyObeyed`
  carries it to every step of the queue: a worker gets a request whenever there
  is one, the one that the policy says.
* `ServerProofs`, second part: the threads. `AdmissionInv`: the counter
  `g_active_admissions` is the number of connections in admission, plus one
  while the acceptor is about to start a thread. `MainInv`: from the moment
  `main` has seen the counter at 0 after the acceptor's end, nobody is in
  admission and nobody will be; only then does the queue shut down. `QueueInv`
  is what the first part says of the queue, tied to the workers' places in their
  loop. `TicketInv` tells from the owner of a connection (nobody yet, its
  admission thread, the queue, a worker, nobody any more) whether it is open,
  answered, or settled with a row; it carries one close per socket and one row
  per request through every hand-over. `NoneAbandoned`, `SocketLifecycle` and
  `RowPerDone` follow: when all workers are gone the queue is empty, so every
  accepted connection has no owner left and is settled. `ServerUsesQueue` is the
  composition: every step of the server is a step of the queue or leaves it
  alone, so nobody enqueues into a queue that is shutting down.
* `RequestQueueProofs`. `NoLostWakeup` counts: as long as somebody sleeps there
  are at least as many notifications to come and workers about to look at the
  predicate as requests in the queue. It is inductive with `TypeOK`: a push adds
  one request and one notification, a notification becomes a worker at the lock
  when somebody sleeps, and the last worker at the lock goes to sleep only on
  an empty queue. `QueueRefines` proves that every step maps to a step of
  `WorkQueue` or a stutter.
* `GetSliceProofs`. The invariants are proved together: `WireInv` (the bytes
  sent plus the batch are the offset; a request between slices has no locals)
  and `AccountInv` (the accounting equations; under rr what is left and what was
  sent in this round add up to the quantum; a queued request has more to send;
  its deficit is below its next line) are inductive with `TypeOK`. `TypeOK`
  itself says that no unsigned value wraps. `RoundsBounded` needs in addition
  that under rr every round but the current one has reached a further end of a
  line (`LinesBound`). `SlicesAreRounds` shows that the slices implement
  `GetRounds`, whose round happens when the slice returns: while the loop runs,
  the request counts as still in the queue, where the slice began. `RoundInv` says that what was sent and what is left make up
  the allowance the round started with, and that a round of rr that has sent
  something did not start at an oversized line; with it the end of a slice is
  where `Reach` puts it, the last end of a line within the allowance, although
  the loop found it line by line. `ScanFindsLine` is about the loop inside it:
  from every position of the scan the next end of a line is the same, by
  induction on the distance from the end of the file. `EveryStepCounts` gives a
  number that every step lowers, by what `RoundsBounded` leaves of the rounds
  and by the bytes left in the current one; together with the fairness of
  `FairSpec`, which the proof system cannot use, it is why `Terminates` holds
  for every instance.
* `PutExchangeProofs`, the slices. `BytesInv`: what is off the connection is in the file or in
  `leftover`, which is empty once the connection has been read, and what remains
  of a round lies within the declared size. `RepliesInv` counts the answers.
  Both are inductive with `TypeOK`. `RoundsInv` adds that a round starts at a
  multiple of the quantum, and that only a round that left something is followed
  by another; `RoundsExact` follows. `PutStepsCount` is the number that every
  step of a PUT lowers: a slice that can be preempted reads at least a byte
  (`TakesSome`). It is what section 5 needs of a PUT under
  `EveryRequestFinishes`, beside the deadlines of its reads.
* `PutExchangeProofs`, with the client. A server step is a step of the slices, so the invariant
  above carries over (`ExIInv`). `ExInv` says that the client has taken one line
  when it sends the body, because before that nothing can be stored
  (`BeforeTheBody`). `StoredIsConfirmed` is proved under the assumption that no
  file is empty, which `empty_put` shows to be needed.
* `FileStoreProofs`. `IdInv`: requests that are served have different ids, and
  those of a killed server are not served. `DirInv`: no inode has two names, and
  what a plain name leads to is complete. `PutInv`: what a PUT has open is what
  its own temporary name leads to, and while it receives it alone has written
  it; opening with O_TRUNC what a killed server has left under that name gives
  it an inode of its own. `GetInv`: what a GET has open is complete and under no
  temporary name, so nobody will truncate or write it. They are inductive
  together; `NeverHalfWritten` and `SoleWriter` follow, `NoOrphans` is
  preserved by each step given them. For `ImplementsStore` every step is mapped
  to a step of `AtomicStore` or a stutter (`view` is the same instance with the
  simpler expressions the invariant allows: every file is complete).
* `MeasuredRunProofs`. `RankIsNearest`: the double negation around the floor
  division is a ceiling (`CeilingOfHundredths`), so the position is in the list,
  at least p percent of the values are up to it, and fewer are before it. A
  value's place in the sorted list is the number of values that come before it
  (`Place` in `Rows`, which says this of a stable sort for every list); the
  lemmas show that the places are a bijection that agrees with the keys, and
  `PercentileByDefinition` and `ReportedPercentiles` follow. For
  `EachRequestOnce` the invariant says which requests have begun (`MadeInv`:
  the seeds up to main's and as many counted ones as the counter says).
  `SeedRowsAreDropped` adds `ServedInv` (a request whose client has gone on has
  been served), `StampInv` (without failures all seeds are stamped before any
  counted request) and `RowInv` (one row for each recorded request, with its
  stamp): so the rows of the seeds have the first `Len(files)` places, which are
  the `seed_count` that are dropped if `SeedsAreFiles`.
  `ScriptsAlwaysAgree` is about the scripts' loops. What a loop computes is
  stated once, for any step (`IsLoop`, `LoopExists`, `LoopUnique`): its value
  for no rows, and for one row more (`OutcomeEmpty`, `OutcomeAppend`). Each loop
  of the scripts is such a loop, and on these equations comprehension and loop
  are compared by induction over the rows (`ByAppending`): the slowdowns of a
  class, collected by `analysis.py` or filtered by `metrics.py`, are one list
  (`SlowdownsAgree`), the forfeited bytes, added up per class or after the
  filter, one sum (`ForfeitsAgree`), and the three classes account for every row
  (`ClassesAccount`). For `compare_rr_drr.py` the rows of `large.txt` have to be
  those of the class (`LargeRows`), which needs that a row has the size of its
  file (`BytesInv`, an invariant of the load).
* `WorkloadProofs`. `CountInv`: the bytes written are those of the ordinary
  lines plus those of the long ones, and while long lines are left the ordinary
  ones are less than one ordinary line ahead of the place of the next long one.
  `WordsInv` keeps why a line was begun, through the word loop. `LinesInv` ties
  the counters to the lines in the file. The sum of the first n lengths is a
  recursive function (`PartialSums`); that it exists, satisfies its equations
  and is not changed by a further line is proved for files of any length, each
  time from a least number where it would fail (`LeastElement`). That all long
  lines are written before the loop ends is arithmetic: the gaps are rounded
  down, so the places of all of them lie below the target. `GeneratorEnds`
  counts the steps both loops can still take; a line pays with its bytes for
  the words that it was made of.
* `PipelineProofs`. `OneServer` and `ResultsFresh` follow from one invariant.
  `OnlyCurrent`: a process that runs is the one started last, and its job is the
  current run of the current session; so a run returns only over an ended or
  killed server, and no late process writes into another run's file.
  `OpenedIsFresh`: a server that has opened its file has replaced what was there,
  and one that has answered HEALTH had opened it. `OverIsFresh`: every selected
  cell is still to do, has failed or is fresh. `ScriptInv`: the asides of
  `run_all.sh` go to other directories and leave the cells as they were;
  `SummaryIsFresh` follows, since `load_all` raises for a file without rows.
  `ReportInv` is for the archive: the figures that `make_report.py` has passed
  show the results it has loaded (`DrawnInv`), and as long as the script counts
  as having ended well, nothing it left has been changed (`BuiltInv`).

Model-checked only: all liveness properties (`WaitingIsTaken`,
`ShutdownDrains`, `Terminates`, `ShutdownCompletes`, `EveryoneIsAnswered`,
`SessionEnds`) and the fairness part of `ImplementsWorkQueue` and
`ImplementsRounds`, which are out of the proof system's reach. The induction
theorems of its library take an operator as a parameter, which the provers
cannot instantiate; the inductions above are therefore over a set, of the
numbers or sequences for which the claim holds (`UpTo`, `ByAppending`, from
`LeastElement`), and each recursive function is first shown to exist.
Proved but checked by no run of their own, because other properties of the run
break with them: the type invariants of the slices and the queue, that no line
is split between slices (`WholeLines`), the bound on the batch (`BatchBounded`)
and that a PUT takes no byte beyond its body (`NothingBeyond`).

## 7. What is not modelled

* Deadlines in real time: which of client and server gives up first. A timeout
  is a failure that may come at any moment. `get_file` is an exchange that
  succeeds or fails (`Load`). In `Server` a PUT is a request like any other.
* `parse_args` and `load_config`, which run once before any thread starts; the
  JSON parser is third-party code.
* Failures of `close`, and a crash of the machine: what the kernel has accepted
  is taken to be on the disk.
* The text of messages, rows and log lines, and what is read back from a log
  (`count_a14`, `send_calls`); the rounding of floating-point numbers; the
  wording, layout and numbers of the report and the figures, and the claims in
  its prose.
* A killed process that still holds its port for a moment, and how much of a body
  the socket buffers take.
* Exhaustion of memory outside a slice, which ends the process; failure of
  socket(), bind() and listen() at start, which exits at once.
* `rounds` is an `int` in the code and a natural number here: reaching 2^31
  takes a drr GET of a file of more than 2^31 quanta, as `RoundsBounded` says.
* Starvation under sjf with arrivals that never end: documented behaviour
  (`README.md:118`, "no aging"), and the models have finitely many requests.
* The memory model: the code's shared data are atomics, or accessed under the
  mutex, or handed over through the queue.
