# A TLA+ model of VideoToolKit

VideoToolKit is a C++ toolkit for real-time video.  At this commit it consists of
three libraries: `ThreadPool` (jobs, a job pool, workers, a pool of workers),
`Utilities` (a logger with its own thread, files, folders, conversions, argument
parsing) and `VdCapture` (FFmpeg capture on a thread pool).  `Database`,
`Samples`, `VdDisplay`, `VdEncoder` and `VdFrameProcessor` are empty.  There are
no tests in the repository; the two README files under `ThreadPool/` and
`Utilities/` hold class diagrams and a sample program each, which the model uses
as the statement of intended use.

This directory models the concurrent and stateful parts of that code, checks
them with TLC on small instances and proves the central invariants with TLAPS.

## 1. Inventory

| Component | State it keeps | Operations | Hard behaviour |
|---|---|---|---|
| `JobPool` | a queue per priority, a mutex, an atomic lock flag, a callback | `push`, `pop`, `clear`, `clear(priority)`, `job_count`, `lock`, `uncompleted_jobs`, destructor | the flag is read outside the mutex; the callback runs after it |
| `ThreadWorker` | a thread, stop and pause flags, a promise that is used once, its priorities | `start`, `stop`, `pause`, `notify_one`, `priorities`, destructor, and `run` on the thread | sleeping and waking, counting and popping in two critical sections, joining without a timeout |
| `ThreadPool` | the workers, a mutex, `working_`, `pause_` | `push(job)`, `push(worker)`, `start`, `stop`, `pause`, `remove_workers`, `lock`, `notify_callback`, destructor | joins threads under the mutex that those threads want; early returns half-way through the vector |
| `Job` | data, callback, backup file | `work`, `save`, `load`, `destroy` | crash between two file operations; errors that are ignored |
| `Logger` | a queue of messages, a thread, a stop flag, levels | `write`, `start`, `stop`, `destroy`, setters, and `run` on the thread | a stop that is signalled without the mutex; a queue read without it |
| `Log` | one message | `to_string`, `to_json` | formatting only |
| log file (`Logger`, `File`) | the lines of a day's file | `write_file`, `check_life_cycle` | read, truncate and write again |
| `File`, `Folder` | an open stream; for an archive, an offset in a buffer | `open`, `read_*`, `write_*`, `close`, `compression`, `decompression`, `get_files` | errors by return value, which callers ignore; files emptied before they are written |
| `Combiner`, `Compressor`, `Encryptor` | none | pure functions and library calls | framing, data cut short, blocks of another size |
| `Converter` | none | `split`, `replace2` and its wrapper `replace`, encodings | tokens at the ends, one behind the other, overlapping, empty |
| `ArgumentParser`, `JsonTool` | a map | `parse`, `to_array`, getters | pairing of keys and values |
| `FolderWatcher` | watched ids | `start`, `stop` | ids are never cleared |
| `VideoCapture` | FFmpeg contexts, a thread pool, a flag | `open`, `close`, `start_capture`, `stop_capture`, `grab_frame`, `get_frame_async` | refusal conditions, early returns that leave half of the state |

How they interact.  A client calls `ThreadPool`, which passes jobs to `JobPool`.
`JobPool::push` calls `ThreadPool::notify_callback` on the pushing thread, which
walks the workers under the pool's mutex and wakes those that serve the job's
priority.  A worker pops from `JobPool` on its own thread and calls `Job::work`,
which may push further jobs through `Job::get_job_pool`, so `notify_callback`
also runs on worker threads.  Everything logs to the one `Logger`, which never
calls back; the destructors of the pool and its workers log too, so the order in
which a program lets go of them matters.  `Folder` puts files one behind the other
with `Combiner` and has `File` compress the result in place with `Compressor`.
`VideoCapture` owns a `ThreadPool`.

What makes each correct:

- `JobPool`: no job is lost, duplicated or overtaken by a later one of its
  priority; a locked pool takes no job.
- `ThreadWorker`: each job is worked on once; a stop request is never lost; a
  paused worker takes nothing; earlier priorities go first.
- `ThreadPool`: no lost wake-up; every worker has the pool's pause flag; `stop`
  joins every thread and leaves no job behind; the destructor leaves nothing
  running; calls return.
- `Job`: what was saved is not lost, and not worked on twice, without a crash or an
  error of the file system.
- `Logger`: every accepted message is output once and in order; `stop` outputs
  what was accepted before it, and returns.
- log file: the newest lines are in it, in order, each once, and only files
  older than the life cycle are removed.
- `Folder`, `File`, `Combiner`, `Compressor`: what is restored is what was
  archived, all of it when nothing went wrong; a call that says `false` has not
  touched the file.
- `Converter`, `ArgumentParser`: the loops return what a declarative definition
  of splitting, replacing and pairing says.
- `VideoCapture`: whatever `open` allocated is given back by `close`, and a call
  that is not refused has the buffers it uses.

## 2. Modules

| Module | Models | Built on |
|---|---|---|
| `JobDispenser` | what a pool of jobs promises: abstract, one step per operation | |
| `JobPool` | `JobPool.cpp`, with `push` in three steps | refines `JobDispenser` |
| `ThreadWorker` | `ThreadWorker.cpp`: the run thread and all calls, by arbitrary callers | extends `JobPool` |
| `ThreadPool` | `ThreadPool.cpp`: clients, the pool's mutex, the walk over the workers | extends `ThreadWorker`, implements `WSpec` |
| `JobBackup` | `Job.cpp` and `JobPool::uncompleted_jobs` over crashes and errors of the file system | |
| `Logger` | `Logger.cpp`: writers, the logging thread, the controlling thread, `destroy` | |
| `LogFile` | `Logger::write_file`, `check_life_cycle` and `File` below them, over days, crashes and errors of the file system | |
| `ThreadSample` | the documented `main`: a logger, a pool that is a local variable, and their ends | extends `Logger` |
| `Combiner`, `Compressor` | `Combiner.cpp` and the framing of `Compressor.cpp`: functions on byte sequences | |
| `FolderArchive` | `Folder.cpp` and `File.cpp` over them: archives that are written, compressed in place and restored, over full disks and crashes | extends `Combiner`, `Compressor` |
| `Converter` | `split`, `replace2`: recursive functions on character sequences | |
| `ArgumentParser` | the loop of `parse` as a state machine, and `to_array` | extends `Converter` |
| `TextFunctions` | a program that parses its arguments and calls `split`, `replace2` and `to_array` with strings of its own; what these return, said without a loop | extends `ArgumentParser` |
| `VideoCapture` | `VideoCapture.cpp` on one thread: what an object holds of FFmpeg | |
| `ThreadWorkerProofs`, `ThreadPoolProofs`, `JobBackupProofs`, `LoggerProofs`, `FolderArchiveProofs`, `VideoCaptureProofs` | theorems (about the job pool in the first) | their component |
| `UtilitiesProofs` | theorems about log files, arguments and strings | `LogFile`, `TextFunctions` |
| `SequenceInduction` | lemmas that two of these share: induction over numbers, over sequences and backwards, folds, `FlattenSeq`, walks through a sequence | |
| `MC...` | the constants of the runs (workers are checked in the runs of the pool; `MCText` starts a program of `TextFunctions` with the arguments and the strings of the run) | their component |

Variables carry the names of the fields they stand for (`thread_stop_`,
`job_queues_`, `lock_condition_`); variables without the trailing underscore
are program counters of calls in progress (`push_at`, `pc`, `call`, `at`,
`cursor`) or history variables, marked `(history)` at their declaration, which
no guard of an action that models code reads.

**Granularity.**  A critical section that calls nothing that blocks is one
action.  Code outside a critical section is split at each read or write of
shared state: `push` reads the lock flag, then inserts, then notifies; a worker
counts each priority in a step of its own, because `job_count` takes the pool's
mutex anew for each; `stop` of the logger stores the flag and notifies in two
steps.  Mutexes held over several steps are explicit where several actors
compete for them (`mutex_` of `ThreadPool`) and implied by the program counter
where one thread does ("count" and "pop" hold the worker's mutex, "append" and
"block" the logger's).  A condition variable is the place "asleep": a
notification moves a sleeping thread to "lock", where it competes for the mutex,
and is lost on a thread that is anywhere else.  Wake-ups may be spurious.

**Refusals.**  A call that returns an error and changes nothing is a stuttering
step.  Calls that are refused half-way (`StartFails`, `StopFails`) are actions:
they leave what they have done.

**Faulty variants.**  Operators marked "Faulty variant" are not part of any
specification.  Each is the definition after it with a plausible bug; a property
is kept only if replacing the definition by such a variant violates it.

### Correspondence

- `JobPool`: `PushCheck`, `PushInsert`, `PushReturn` are `push` at lines
  112-122, 124-143 and 145-151 of `JobPool.cpp`; `Pop` and `PopNull` are `pop`
  with and without a job, `FirstServed` its walk over the priorities;
  `AnyQueued` and `HasQueued` are `job_count`, of which callers only test
  whether it is zero; `fate` is what became of each job object.  A vector of
  priorities is a function from positions, in which an erased element leaves a
  hole.
- `ThreadWorker`: `Begin`, `AcquireAndCheck` (the test of the predicate and of
  the stop flag under the mutex), `CountAll`, `CountOne`, `TakeJob`, `TakeNull`,
  `AfterNull`, `FinishJob`, `Exit` are the steps of `run`; `SignalStop` and
  `Join` are `stop`; `StartThread`, `StartReturn`, `CannotStart`, `StartGivesUp`
  are `start`, the last for a promise that was already retrieved and for a
  `std::thread` that cannot be created (no memory, line 44, or no thread): the
  future has been retrieved by then, so that the worker can never be started
  again.
- `ThreadPool`: one action per critical section or per worker visited;
  `cursor` is the loop variable of the owner of `mutex_`.
- Destructors: `DestroyBegin`, `DestroyStops`, `DestroyWorker`, `DestroyEnd` of
  `ThreadPool` are `~ThreadPool`: the immediate `stop` it calls, the vector that
  lets go of its workers one after the other (`~ThreadWorker` joins), and the job
  pool.  A client that is in the destructor is alone: the program sees to it that
  nobody else is in a call, while workers still run and push (a job may push
  another one during the destruction of its worker: its `notify_callback` wakes the
  workers that are left, and waits at one that is being joined).  Clearing the
  vector only drops references (`ThreadPool.cpp:27`): `DestroyWorker` joins each
  worker because the pool is supposed to be the last that holds it, as in the
  documented program, and `DestroyEnd` ends the job pool for the same reason.
- `Logger`: `WriteAccept`, `WriteDrop`, `WriteAppend` are `write`; `LoopTest`,
  `Await`, `FallAsleep`, `TimeOut`, `AfterTimeOut`, `WriteLog`, `End` are `run`;
  `Signal`, `NotifyStop`, `Join`, `Spawn` are `stop` and `start`.
- `LogFile`: `OpenForWriting` is `write_file` up to the file being open for
  writing, with the lines to be written in `unwritten`: with a limit, those it
  could read before (none, when it could not open the file) and the batch.
  `OpenFails` is a file that cannot be opened to be written, and a batch that is
  lost.  `WriteLines` is `write_lines` and `close`, which do not notice a full
  disk: part of the lines, or all of them, get there (`LinesAreWritten`).
  `CheckLifeCycle` is part of `Begin` and `End`, the first and the last thing that
  `run` does.  Lines are numbered as they are written; `Push` is the loop that drops at most one line for each message.
- `FolderArchive`: `ListFiles`, `OpenArchive`, `ReadFile`, `WriteSize`,
  `WriteEntry`, `EndArchive` are `Folder::compression`; `Compress`, `Decompress`,
  `Truncate`, `Rewrite` are `File::compression` and `File::decompression`, which
  empty the file before they write it; `ReadArchive`, `OpenFile`, `WriteFile`,
  `EndRestore` are `Folder::decompression`.  `Change` is another program, `Crash`
  the death of this one.  A stream that has failed (`bad`) writes nothing more and
  nobody is told.  Bytes are bytes: sizes are written and read back through
  `Word` and `Size`.
- `Converter`, `ArgumentParser`: `Split` and `Replace2` follow the loops offset by
  offset; each turn of the loop of `parse` is one of `NoOption`, `TakesNoValue`,
  `ValueIsMissing`, `TakesValue`.
- `ThreadSample`: `main` is the place in the documented program; the pool is what
  its `stop` and its destructor do for the logger.
- `VideoCapture`: `held` is the set of pointers that are not null; `OpenFails`
  has one alternative for each `return { false, ... }` of `open`, and
  `Leftovers` what each leaves.  The thread pool is created and never started,
  so that `destroy_thread_pool` fails and `open` succeeds at most once.
  `start_capture` refuses whenever `is_capturing_` is false, which it is from
  the constructor on; `capture_loop` and the queue of frames are never reached
  and have no actions.  (The header declares `start_capture_async` where the
  source defines `start_capture`, and the lambda at line 272 does not return
  what `Job` expects, so this file does not compile as it is; the module models
  what it says.)
- `JobBackup`: `SaveOpen`, `SaveWrite`, `SaveFails`, `Load`, `LoadFails`, `Work`,
  `Destroy` are the functions of `Job`; `Recover...` is `uncompleted_jobs`;
  `Crash` ends the program and keeps the files.  The code takes no notice of an
  error of the file system but for a line in the log, and goes on: `SaveOpen` may
  leave no file (`SaveFails` then clears the data), `LoadFails` works on nothing,
  `RecoverReadFails` removes a file it could not open, and `Remove`, in
  `Destroy` and `RecoverRemove`, may leave the file where it is.  `unwritten`,
  `unread` and `left` remember the payloads these errors have met.

## 3. Runs

| Run | Question | Bounds |
|---|---|---|
| `pool_all` | job accounting, order of priorities, stop requests, mutex discipline, lost wake-ups, pause, what `stop` and the destructor leave | 2 clients that share every call of the pool (one may destroy it), 2 workers with a shared priority of which one is pushed later, 2 jobs; any thread may fail to be created |
| `pool_control` | queues: no loss, duplication or overtaking; graceful stop; refinement of the dispenser and of the workers; what can block a call | one client controls, one pushes; 2 workers with disjoint priorities, 3 jobs, one of which may be pushed by another on a worker's thread; any thread may fail to be created |
| `pool_live` | calls return, jobs leave | 2 clients that start, stop, pause, resume, push, add, remove and destroy; 2 workers with a shared priority, 1 job of the priority that worker 1 counts first, so that it may be pushed after it was counted; the thread of worker 2 may fail to be created |
| `pool_spawn_stop` | *violated*: `stop` returns although jobs push jobs | 2 workers, 2 jobs |
| `job_backup` | saved work survives, is not repeated, is done on its data, cancelled work stays cancelled | 2 payloads, 4 job objects (one LongTerm); any number of crashes, dropped jobs and files that cannot be opened, written or removed (`FewErrors`: after a second payload has met an error only three of the four are made); job objects and payloads are symmetric |
| `logger` | order, flushing, sleeping, refusing; loud messages are output, and with an interval all are and `stop` returns | 2 writers, 3 messages (2 loud at one of the levels, 1 quiet), any number of starts and stops, `destroy` |
| `logger_stop` | *violated*: `stop` returns without an interval | the same |
| `sample_shutdown` | *violated*: the documented `main` returns | 2 writers, 2 messages |
| `log_file` | order and completeness of a day's file, removal of old files | 4 days, 6 lines in messages of 1 or 2 lines, limits of 0, 1, 3 and one that overflows (`Width` 4 for 2^16), files that cannot be opened, read or written to their end, crashes, clocks that agree or differ either way |
| `archive` | what is restored is what was archived; a refused call leaves the file alone | 2 files that are missing, empty or hold 2 bytes and change meanwhile; blocks of 0, 5 and 9 bytes; `size_t` of 2 bytes, `int32_t` of 1; a full disk or a crash at any step |
| `text` | `split`, `replace2`, `parse`, `to_array` against declarative definitions | every source of up to 6 characters over 3, every token of up to 2, two targets; every command line of up to 5 arguments over 6 |
| `capture` | `close` gives back all that is held, `grab_frame` has its buffers | every step of `open` may fail; 3 frames |

Why the bounds are enough.  Every race in this code is between two parties over
one datum: a pusher and a worker over a queue, a worker and another worker over
a job, a caller of `stop` and the thread it joins, two clients over the pool's
mutex.  Two workers with a shared priority give all of them, and a third job in
`pool_control` keeps a queue occupied while one job is in work and one is
pushed.  Clients make any number of calls, so restarts of a stopped pool and
repeated stops are included.  Each job object is pushed once, as a client that
pushes one object twice shares it between workers, which the code does not
guard against.  The backup runs need a first life, a second and a third for a
payload that is interrupted twice: three job objects for one payload, and one
more for another; an error of the file system shows in the life it happens in or
the next.  An archive of two files has a first, a last and a torn entry,
and its content takes one block or several of the block sizes, so that it is
decompressed with smaller and with larger blocks than it was compressed with.  A
source of six characters holds two tokens of two with a neighbour on any side, or
three overlapping ones; five arguments hold every pairing of two options with and
without values that look like options.  A log file of three lines is shorter than, as
long as, or longer than every limit and batch of its run, and a life cycle of
one day is outlived on the third.  No counter is unbounded: everything that
could grow is bounded by the sets of jobs, messages and job objects, and by the
constants `LastDay`, `MaxWritten` and `MaxFrames`.

### Fairness

`TPFairSpec`: a worker whose next step is enabled takes it (weak fairness of
`Run`): the scheduler runs every thread and jobs return.  A thread in the middle
of a push or a call goes on although the mutex it needs is taken in between
(strong fairness of `Notify` and `Continue`): a mutex that is released again and
again is eventually got, which the operating systems this code is built for
provide in practice, and which `std::mutex` itself does not promise; weak
fairness would only describe a thread that starves.  No client has to make a
call, and no wake-up has to be spurious.

`LFairSpec`: the same for the logging thread (strong for taking its mutex), for
a writer between its test and its `push_back`, and for the rest of a `stop` or
`start`; the timed wait ends because `TimeOut` is one of the steps of `Run`.

`JobBackup`, `LogFile`, `FolderArchive`, the text modules and `VideoCapture` make
no liveness claim: they run as far as their caller goes.

### What the violations show

- `pool_spawn_stop`: `stop` joins each worker while it holds the pool's mutex.
  A worker whose job pushes another job waits for that mutex in
  `notify_callback`: both wait for ever.  `CallsReturnOrBlock` in `pool_control`
  says that this is the only way for a call not to return.  (`remove_workers`
  joins under the mutex too, and so does `start`, which stops a worker that an
  earlier `start` has left running when it failed half-way.)  Nothing moves any
  more then, so that `pool_control` and `pool_spawn_stop` do not check for
  deadlock.
- `logger_stop`: `Logger::stop` stores its flag and notifies without the mutex.
  A logging thread that has found the predicate false and does not wait yet
  misses both and sleeps on; `stop` joins it.  With a write interval the wait
  times out and `stop` returns (`IntervalStopReturns`).
- `sample_shutdown`: `~ThreadPool` logs.  In the sample program the pool is a
  local variable of `main`, which ends after `Logger::destroy()`: `handle()` then
  returns a reference to nothing, as `call_once` makes no second logger.

Passing properties that carry an exception say what the code does not promise:

- `StopDrains` and `GracefulStopDrains` except jobs that are `late`: `push` tests
  the lock flag before it takes the mutex, so a thread past the test inserts its
  job after `lock(true)` has returned, even after `stop` has emptied the queues.
  (A job stays `late` for the stops that follow.)
- `StopDrains` excepts workers that `gave_up`: a worker that counted a job,
  lost it to another worker and finds the stop request when `pop` returns
  `nullptr` (`ThreadWorker.cpp:164-169`) ends without looking again, so a
  graceful `stop` may leave a job queued that was pushed before it.  Workers
  with disjoint priorities do not (`GracefulStopDrains`), unless
  `remove_workers` empties a queue under them.
- `QueuedJobLeaves` asks for a worker with a thread: a `stop` that fails at the
  first worker without one leaves the pool locked and `working_`.
- `SavedJobSurvives` excepts a crash while the data is only in memory, from the
  removal of a file by `uncompleted_jobs` to the end of the next `save`; a save
  that fails, which `save` ignores, clearing the data; and a file that cannot be
  opened to be read, which `load` takes for empty and `uncompleted_jobs` for
  nothing, and which both have removed.  `WorksOnItsData` excepts the last two.
- `WorkedOnceUnlessInterrupted` and `CancelledStaysCancelled` except data in a file
  that could not be removed: `destroy` forgets its name, and the next life of the
  program recovers it.  (The first excepts a crash between the work and the
  removal too.)
- `FileEndsWithTheNewest` counts anew (`keep`) after a crash or a full disk that cut
  a write short, and after a file that could not be opened or read: with a limit
  of lines the file is truncated before it is written again, so these lose up to
  `max_lines_` lines that were on disk already; a file that cannot be opened to be
  written costs the batch.
- `NoYoungFileRemoved` asks that the epoch of `file_clock` is not after that of
  `system_clock`.  `check_life_cycle` subtracts times since two different
  epochs: with libstdc++ (2174) every `.log` file is found two centuries old and
  removed at each start and stop, with MSVC (1601) none ever is.
- `NothingIsLost` asks that the disk was not full, no file vanished and
  nobody was killed while the archive was written (`whole`);
  `RestoredAreArchived` does not, and says that what comes back is still a prefix: an archive has no end mark, so a torn one is
  restored up to the tear and `decompression` says `true`.
- `RefusedLeavesFile` is about a call that says `false`: a crash or a full disk
  after the file was emptied loses it, and with a full disk the call says `true`.
- `GrabHasItsBuffers` excepts one step of `open`: after
  `avcodec_parameters_to_context` has failed (line 102) the codec context stays,
  and `grab_frame` reads into a packet that was never allocated.
- `DropsOnlyWhileStopping` starts with the first `start`: the constructor does
  not initialise `thread_stop_`, so messages written before may be dropped.

## 4. Proofs

| Theorem | Module | States |
|---|---|---|
| `JPInvariant` | `ThreadWorkerProofs` | types and `QueuesHoldTheQueued` |
| `JPImplementsDispenser` | `ThreadWorkerProofs` | `JPSpec` implements the abstract dispenser |
| `WorkerAccounting`, `StopRequestIsKept`, `WorkerLifecycle` | `ThreadWorkerProofs` | `JobAccounting`, `JoinedThreadIsAwake`, `ThreadLifecycle` |
| `WorkerPauseHolds`, `WorkerServesInOrder` | `ThreadWorkerProofs` | `PausedTakesNothing`, `EarlierPriorityFirst` |
| `TPTypeCorrect` | `ThreadPoolProofs` | `TPTypeOK` of the composed pool |
| `TPImplementsWorkers` | `ThreadPoolProofs` | every step of the pool is a step of its workers or leaves them alone |
| `PoolAccounting`, `PoolStopRequestIsKept`, `PoolThreadLifecycle`, `PoolServesInOrder` | `ThreadPoolProofs` | the workers' properties inside the pool |
| `PoolKeepsQueues`, `PoolImplementsDispenser` | `ThreadPoolProofs` | the job pool's properties inside the pool |
| `PoolMutexDiscipline` | `ThreadPoolProofs` | `MutexDiscipline` |
| `PoolLosesNoWakeup` | `ThreadPoolProofs` | `NoLostWakeup` |
| `PoolPauseReachesAll`, `PausedPoolIsIdle` | `ThreadPoolProofs` | `PauseReachesEveryWorker`, `PausedPoolTakesNothing` |
| `StopJoinsAll`, `StopDrainsQueues` | `ThreadPoolProofs` | `StopJoinsEveryThread`, `StopDrains` |
| `GracefulStopLosesNothing` | `ThreadPoolProofs` | `GracefulStopDrains`, if nobody removes workers and none share a priority |
| `DestructorLeavesNothing` | `ThreadPoolProofs` | `DestroyedLeavesNothing` |
| `BackupSurvives`, `BackupWorksOnce`, `BackupKeepsData`, `BackupStaysCancelled` | `JobBackupProofs` | `SavedJobSurvives`, `WorkedOnceUnlessInterrupted`, `WorksOnItsData`, `CancelledStaysCancelled` |
| `LoggerKeepsOrder`, `LoggerFlushes`, `LoggerStaysAwake`, `LoggerDrops` | `LoggerProofs` | `FirstInFirstOut`, `StopFlushes`, `NoSleepOverLoud`, `DropsOnlyWhileStopping` |
| `DivideInvertsAppend`, `DivideRefusesTorn` | `FolderArchiveProofs` | `divide` gives back what `append` has put anywhere into a buffer, and nothing of what was cut short |
| `RefusalLeavesFile` | `FolderArchiveProofs` | `RefusedLeavesFile` |
| `DecompressionInvertsCompression` | `FolderArchiveProofs` | `Decompression` gives back what `Compression` was given, for any data, when the blocks of the one fit into those of the other, and nothing otherwise |
| `ArchiveInvariant`, `RestoresWhatWasArchived`, `RestoresAll` | `FolderArchiveProofs` | the inductive invariant, `RestoredAreArchived`, `NothingIsLost` |
| `LogFileInvariant`, `LogFileTypes`, `NewestLinesAreThere`, `LifeCycleIsKept` | `UtilitiesProofs` | the inductive invariant and the types, `FileEndsWithTheNewest`, `NoYoungFileRemoved` |
| `ParseInvariant`, `ArgumentsAreParsed` | `UtilitiesProofs` | the loop invariant of `parse`, `ParsedArguments` |
| `TokensAreCut`, `ListsAreMade` | `UtilitiesProofs` | `CutsAtTokens`, `ListsAreSplits` |
| `CaptureClosedHoldsNothing`, `CaptureGrabHasItsBuffers` | `VideoCaptureProofs` | `ClosedHoldsNothing`, `GrabHasItsBuffers` |

They hold for any sets of threads, workers, jobs, priorities, messages, payloads,
files, bytes, options and characters, and for sequences of any length, that satisfy the named assumptions on the constants:
`NoJobAssumption`, `PriorityAssumption`, `ListAssumption`, `WorkerAssumption`,
`PoolAssumption`, `BackupAssumption`, `LoggerAssumption`, `WordAssumption`,
`ArchiveAssumption`, `CaptureAssumption`, `LogFileAssumption`, `ArgumentAssumption`,
`CharacterAssumption`.  The theorems about what an archive gives back have one more
hypothesis, `LZ4Lossless`: the library restores each block that it has compressed.
That is what `Compressor.cpp` takes LZ4 for; the block formats of the run satisfy it
on the blocks that occur there, which `MCFolderArchive` has TLC evaluate.
`GracefulStopLosesNothing` has two: no client calls `remove_workers`
(`NobodyRemoves`) and no two workers share a priority (`NoneShared`), as in the run
`pool_control`.  TLC violates `GracefulStopDrains` without either: `remove_workers`
clears a queue under a worker that has counted it, and the worker gives up although
it has another queue to serve; and of two workers that share a priority one takes
what the other has counted.

The argument, bottom up.

*Queues and workers.*  `QueuesHoldTheQueued` is not inductive alone: the
insertion of `push` needs that the job in a thread's hand has the fate "pushing"
and is in no other hand, which `JPInv` adds (`PushesAreApart`).  The worker's
invariant `WInv` is `JPInv` with, for each worker, what each place of its thread
implies for the stop flag, the promise and the job in its hands:
`JoinedThreadIsAwake` needs that a thread which sleeps while it is to be joined
would have been woken by `SignalStop`, and that nothing resets `thread_stop_`
between the request and the end of the thread.

*The pool adds nothing to its workers.*  Lemmas `NotifyRefines`, `InvokeRefines`
and `ContinueRefines` show that each of its steps is a step
`[WNext]_allWorkerVars`, with `TPInv` supplying the types of the arguments, and
`WImplementsPool` that each step of the workers is one of the job pool; the
theorems below carry over.

*The pool's own properties* need `PoolInv`, which is built in layers, each of
which uses those before it.

1. `CallsInv`: a client is in one call at a time, the owner of the mutex is in a
   step that holds it, and from the destructor on nobody else is in a call.
2. `MembersInv`: each call of a worker that is in progress (`SignalStop` made,
   `Join` not yet) has a caller that stands at that worker, and each thread
   belongs to a worker of the vector with a priority.  This is why
   `remove_workers` may take a worker without priorities out of the vector: it
   has joined it.  From here `MutexDiscipline` follows.
3. `StopWalk`: the workers a `stop` has passed have no thread, as nobody starts
   one while the mutex is held (`OwnerIsUndisturbed`): when the walk is at its
   end `StopJoinsEveryThread` follows.  `PauseWalk`: outside of a
   `pause` every worker has the flag of the pool, and the workers that a `pause` has
   passed have it already.
4. `PushersWork`: a worker pushes only while it works, so that a worker whose
   thread has ended is in the middle of nothing, and `DestroyedLeavesNothing`
   follows from the joins of the destructor.
5. `WakeInv`: from the moment it has counted a queue until it wakes, a worker relies on
   that queue being empty or on a push that has yet to walk past it (`ReliesOn`,
   `Pending`).  It keeps its mutex from the first count until it sleeps, so the
   notifier waits for it and cannot pass it in between.
   `NoLostWakeup` is the case of a worker that sleeps.
6. `StopDrain`: of the jobs that were queued when `stop` locked the pool
   (`Owed`), none is left of the priorities of a worker that has ended without
   giving up (`Drained`), and none is added, as only `late` jobs enter.

`DrainInv` adds, for pools as in `GracefulStopLosesNothing`, when a worker gives up
after all: only a `stop(true)` takes from it what it has counted (`LosersAreNew`).
That stop owes nothing once it has cleared the queues.  When it has ended, a worker
of the vector has no thread and never gets one again, as its promise is used or its
list empty (`NeverStarts`), so that every later `stop` fails there
(`StopWillFail`).  For a `stop` that fails this needs `StartWalk`: every worker of
a pool that is `working_`, or being stopped, has been started or could not be.
`working_` alone is not enough, as `stop` clears it after it has released the mutex
and a second `stop` may be under way.

*Backups.*  `BInv` follows each payload through its places.  `Life` says for each
state of a job where its data is (in memory, in its file, in both or, after a
failed write or a file that could not be read, nowhere), `File` where a file is that `uncompleted_jobs` has
listed, holds or has read, and `Carriers` that each payload, but for those with a file
that could not be removed (`left`), is with one job or file at a time, is not cancelled, and was not worked on but by the job that is
about to remove its file, or before a crash.  Only the making of a job adds a
carrier (`NoNewCarrier`), and a rebuilt job takes the payload over from a file
that is gone (`CarriersNext`).

*Logger.*  The inductive invariant adds what each place of the logging and the
controlling threads implies for `thread_stop_`, that a thread at "end" has an
empty queue of messages that were due, and that the message in a writer's hand
is in nobody else's.

*Induction over data.*  Recursive functions and folds are proved to exist and to
unfold, and then followed with induction over a set of numbers
(`SequenceInduction`): the numbers `n` for which the claim holds contain 0 and
`n + 1` with `n`.  The library's theorems with an operator for a parameter are not
needed for that.

*Archives.*  `RefusedLeavesFile` adds which call each place belongs to and that the
file is untouched up to `Truncate`.  The content of an archive is the `Image` of the
entries that were written: their frames, one behind the other.  `CInv` says that the
file is a beginning of that image while it is written, that a call in place is about
to write a form of the same image, plain or compressed, and that a restoring call
stands between two frames, with the files before that place in `restored`.  A file
cut short is a beginning of the image, so that the frames `divide` finds in it are
entries (`RestoredAreArchived`); where nothing was cut, the walk ends behind the
last one (`NothingIsLost`).  That decompression gives back the image is
`DecompressionInvertsCompression`, whose loop ends no earlier than the blocks:
after `n` turns it stands behind the `n`-th block.

*Log files.*  `LInv` looks at the file of today with the lines that are not written
yet behind it (`Owed`): it ends with the newest lines, as many as are to be kept, and
its numbers increase.  `Rewritten`, a fold over the batch, is shown to be an end of
the old lines with the batch behind them, of which something is left out in front
only when the file is as long as its limit; of the old lines only the first may
have been read, and then no more than the batch is owed.  Where a write was cut
short nothing is (`keep`), and the order is all there is to show
(`LinesAreWrittenInv`).  For `NoYoungFileRemoved` the two clocks
may be any that differ in the direction the property names.

*Arguments.*  `PInv`: the map has what the arguments before this one give, and this
one is not the value of the one before.  `Read`, the set of positions read as options,
is a choice: `ReadIs` proves that there is such a set and one only.

*Strings.*  The loops of `split` and `replace2` are one walk through the source
that goes on behind each token it finds; what they return is the parts of the walk,
one behind the other (`WalkFlattens`).  The tokens it finds are the leftmost that do
not overlap, a set of which there is only one (`CutsAreUnique`).  The functions of
`to_array` run from each place to the end, so `ToArrayIs` goes backwards from the end:
it meets the same commas as `split`, and the group of each match is the piece trimmed.

*Capture.*  The invariant adds which pointers are held in each state of a capture.

A few leaves name the prover and its time (`SMTT(30)`, `ZenonT(60)`), as they come
close to the usual limit.

Only model-checked: all liveness (`CallsReturn`, `CallsReturnOrBlock`,
`StopReturns`, `QueuedJobLeaves`, `LoudMessageWritten`, `MessageWritten`,
`IntervalStopReturns`).  Fairness is outside this prover's reach.

## 5. Not modelled

- Logging inside the other components, except by `~ThreadPool` in
  `ThreadSample`: `Logger::write` never blocks on them.
- Null arguments, which are refused without a change, and `thread_title`.
- A client that calls a pool while another destroys it: no program may.  Nor a
  job that is pushed by a worker while `~ThreadPool` empties the vector that
  `notify_callback` walks: the standard leaves open what it then finds; in the
  model it wakes the workers that are left, and waits at one that is being joined.
- A pool whose workers or job pool somebody else still holds when it is destroyed:
  these workers then run on, as `ThreadPool.cpp:27` only drops references, and those
  whose job pool is gone take the branches for a null job pool (`job_pool_.lock()`
  in `ThreadWorker.cpp`).  The documented program keeps no such reference.
- Errors of the file system that are not modelled: exceptions, from
  `create_directories` in `File::open` (`File.cpp:55`), from the directory iterator
  and `is_regular_file` of `uncompleted_jobs` and from those, and `remove`, of
  `check_life_cycle`, which leave the caller or, in the logging thread, end the
  program; a backup file that is opened and then not read to its end.  A backup file of which a part was written counts as
  `Empty`, data that is not that of the job.
- Memory that runs out, except for the `std::thread` of a worker, where the code
  catches `std::bad_alloc`.
- `uncompleted_jobs` while jobs are alive: it then reads and removes files that
  belong to them.  `JobBackup` recovers before it makes jobs.
- `Job.cpp:63`, where a constructor writes beyond the data it has reserved, and
  `Job.cpp:132`, where `work` reads the first byte of empty data: undefined on
  data that the model does not look into.
- Data races on the logger's setters: the model sets the levels while no thread
  runs, as the sample does.  Calls after `destroy`, except the one of
  `ThreadSample`.
- `Logger::backup_file`: `file_backup_mode_` is false from the constructor on and
  has no setter, so the two functions are never called.
- `Logger.cpp:389` drops one line for each message, however far the file is over
  its limit: the file may stay longer than the limit, which no text promises.
- A message that a crash cuts in the middle of a line, and midnight between the
  opening and the closing of a log file.
- The checks of `File` on the mode it was opened in: `openmode_` is 0 from the
  constructor on and never set, so they never refuse.  Reads at an offset,
  `read_lines`, `create_folder`, `delete_folder`, `get_folders`.
- `block_bytes` of `Folder::compression`, which is not used.  Blocks so much
  larger than those of the compression that they overrun the buffer of
  `Compressor.cpp:122`: undefined.  LZ4 itself is external: two operators that
  are inverse to each other.
- Empty tokens, with which the loops of `Converter` never end; the conversions
  between encodings.
- What FFmpeg decodes, and when its calls fail: any of them may.
  `capture_loop` and the queue of frames: `start_capture` refuses whenever
  `is_capturing_` is false (`VideoCapture.cpp:265`; its message, "Capture already
  started", asks for the opposite), so that nothing reaches them.  The reference
  of `av_hwdevice_ctx_create` and the frame of line 341, which nobody gives back,
  are counted (`devices`, `borrowed`) and not judged.
- `Encryptor`, `JsonTool`, `Generator`, `SystemInformation`: calls of libraries
  and the platform with no state of their own.  `FolderWatcher`: two calls around
  the efsw library, whose thread is not in this repository.  Formatting (`Log`)
  and the names of `JobPriorities`.

## 6. Plan

Done: all the components of section 1 that have state of their own, with their
destructors; archives and the text functions against reference definitions; the
theorems of section 4.

Left, in this order:

1. A weaker `GracefulStopDrains` that names the jobs which `remove_workers` may
   cost, and holds for all calls; its theorem would need no `NobodyRemoves`.
2. The logger with setters called while its thread runs: each read of a level is
   then a choice between the old and the new one.
3. `FolderWatcher`, once the library's thread can be stated as an external module.
