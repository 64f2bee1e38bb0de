# Verification of the `threads` library

TLA+ models, TLC runs and TLAPS proofs for a small C++ concurrency library: a
thread pool with a bounded queue, the mutexes, monitors and threads it is built
on, and a job scheduler built on top of it. Source paths below are relative to
the repository's root (`src/` in `PROJECT.json`).

Contents: 1 the system, 2 the modules, 3 the runs, 4 fairness, 5 the proofs,
6 findings, 7 what is left out, 8 plan.

## 1. The system

### 1.1 Parts and how they interact

| Part | Source | State | Operations |
|---|---|---|---|
| `ThreadManager::Impl` | `threads/thread_manager.cc` | `state_`, `worker_count_`, `worker_max_count_`, `idle_count_`, `pending_task_count_max_`, `expired_count_`, the queue `tasks_`, the registry `workers_` / `dead_workers_` / `id_map_`, one mutex with two monitors (`monitor_`, `max_monitor_`), `worker_monitor_` with its own | `Start`, `Stop`, `Join`, `AddWorker`, `RemoveWorker`, `Add`, `Remove`, `RemoveNextPending`, `RemoveExpiredTasks`, counters |
| `Task`, `Worker` | same | a task's state and expire time; a worker's position in `Run` | `Task::Run`, `Worker::Run` |
| `SimpleThreadManager` | same | a worker count and a bound | `Start` (set the bound, start, add the workers) |
| `Mutex`, `Guard` | `threads/mutex.{h,cc}` | a pthread mutex | `Lock`, `TryLock`, `TimedLock`, `Unlock` |
| `ReadWriteMutex`, `NoStarveReadWriteMutex`, `RWGuard` | same | a pthread rwlock, a mutex, `writer_waiting_` | `AcquireRead/Write`, `AttemptRead/Write`, `Release` |
| `Monitor`, `Synchronized` | `threads/monitor.{h,cc}` | a condition variable and its (own or borrowed) mutex | `Wait`, `WaitForTime`, `Notify`, `NotifyAll` |
| `SimpleThread`, `SimpleThreadFactory` | `threads/simple_thread_factory.cc`, `threads/thread.h` | the factory's policy, priority and detached flag; a thread's `state_`, `detached_`, `pthread_`, `self_` | the setters, `NewThread`; `Start`, `Join`, `ThreadMain`, the destructor |
| `SplitterJobScheduler`, `ObservableSplitterJob` | `splitter/*.h` | `pending_job_count_`, a monitor, a thread manager; a job's observers | `AddSplitterJob`, `OnCompletedJob`, `WaitAllJobDone`; `Run`, `NotifyAllObservers` |
| `SplitterStrategy` | `splitter/splitter_strategy.h` | the output paths of a job | `Split`, section by section, with a third-party library |
| `TimeUtil` | `base/time_util.{h,cc}` | - | conversions between timespec, timeval, ms and us; the clock |
| `LoadTest`, `BlockTaskTest`, `SyncStartTaskTest` | `threads/*_unittest.cc` | monitors and counters on the test's stack, shared with its tasks | the test, and its task's `Run` |
| `Socket`, transports | `net/` | a socket | not built, see 7 |
| exceptions, macros | `threads/exception.h`, `base/macros.h` | - | - |

The scheduler adds jobs to the thread manager and is called back by each job
through a `weak_ptr`. The thread manager gets its threads from the factory; each
runs a `Worker`, which shares the manager's fields with the callers of its
operations under two mutexes. Tasks may call `Add` themselves. Timed waits
convert timeouts with `TimeUtil`. The tests are the repository's only users of the
library besides the scheduler, and protocols in their own right: a test and its
tasks wait for each other while the pool or the thread runs them.

### 1.2 What is hard, and what must hold

The behaviours no unit test of the repository reaches:

- **Two locks, one counter.** `worker_count_` is incremented under `mutex_` and
  decremented under `worker_monitor_`'s mutex, and `Stop` reads it under neither.
- **Condition variables.** Who is asleep when `Notify` is called, how often it is
  called, spurious wakeups, timeouts, and conditions that are (or are not) looked
  at again after a wait.
- **Reads before a lock.** `writer_waiting_` in `AcquireRead`; `state_` and
  `detached_` in `SimpleThread`; `pending_job_count_` in `WaitAllJobDone`.
- **Order of two effects.** A job is in the pool before it is counted; a thread is
  started before its id is in `id_map_`; a flag is lowered before a mutex is
  unlocked.
- **Lifetimes.** `Stop` must not return to `~Impl` while a worker is alive; a job
  calls through a `weak_ptr` without looking; a test's monitor and counters must
  outlive the tasks' use of them.
- **Failures nobody looks at.** The result of `pthread_create`, what `Split`
  returns, a timeout that does not fit an `int`.

What makes each part correct: the pool accepts or refuses a task, and what it
accepted is run once, in order, or expires, or is handed back; it keeps its
bound, loses no wakeup, and its `AddWorker`, `Stop` and `Join` return, the last
two on a quiet pool. The lock excludes, and a waiting writer gets its turn. `Join`
of a thread waits for its `Run`. `WaitAllJobDone` returns when, and not before,
all jobs are done. A timed wait ends when it should. `PROJECT.json` lists every
hazard with its line and the properties that would notice it.

## 2. The modules

| Module | Models | Rests on |
|---|---|---|
| `TaskPool` | what a thread pool promises: a FIFO queue and one outcome per task | - |
| `ThreadManager` | `Impl`, `Task`, `Worker`, `SimpleThreadManager`, and the mutex and monitors they use | `TaskPool` (refinement) |
| `MCThreadManager` | which thread calls what, for TLC | `ThreadManager` |
| `ThreadManagerProofs` | proofs: types, counters, registry, bound, expiry | `ThreadManager` |
| `TaskPoolRefinement` | proofs: the queue, expiry counts, and that `ThreadManager` implements `TaskPool` | `ThreadManagerProofs` |
| `ControlledPoolProofs` | proofs about a pool with one owner: its counts, wakeups, `Stop`, `Join`, `Add` from a task | `TaskPoolRefinement` |
| `NoStarveReadWriteMutex`, `MCNoStarve`, `NoStarveProofs` | the read-write lock, its instances, its proofs | - |
| `SplitterJobScheduler`, `SplitterProofs` | the scheduler and its jobs, its proofs | `TaskPool` (composition) |
| `SimpleThread` | a factory, one `Thread` object, its owners, its pthread | - |
| `SyncStartTask`, `MCSimpleThread` | `SyncStartTaskTest` on that thread, and the instance of both | `SimpleThread` (composition) |
| `SimpleThreadProofs` | proofs about the thread, and about the test on it | `SyncStartTask` |
| `LoadTest`, `MCLoadTest` | `LoadTest` on a `SimpleThreadManager` | `ThreadManager` (composition) |
| `LoadTestProofs` | proofs about the test, from those about the pool | `LoadTest`, `ControlledPoolProofs` |
| `BlockTaskTest`, `MCBlockTaskTest` | `BlockTaskTest` on a `SimpleThreadManager` | `ThreadManager` (composition) |
| `TimeUtil`, `TimeUtilProofs` | the conversions and the timed waits made of them, their proofs | - |

Definitions marked *Mutant* in a comment are used by no action. Each is the
definition that follows it with a plausible mistake, and `PROJECT.json` says which
property notices it: substituted for the original, it makes TLC report that
property violated.

### 2.1 `ThreadManager`

Each variable is a field of `Impl` without its trailing underscore, a monitor as
the set of threads asleep on it, or a local of some thread (`pc`, `reg`, `task`,
`adding`, `timed`, `new_threads`, `inserting`). `status` says what became of each
task and refines `Task::state_` by the outcomes the code leaves implicit
(refused, expired, handed back); `due` is the set of tasks whose expire time has
passed. Three variables are history: `owed`, for `JoinDrains`; `reported`, the sum of
what `ExpiredTaskCount` has returned; and `forfeited`, for `BlockedAddReturns`: the
threads that, since a worker last was at the queue, were woken in `Add` and timed out
all the same beside a free slot.

A critical section without a `Wait` is one action, since everything it touches is
protected by the mutex it holds; `MutexFree` and `WorkerMutexFree` are the guards
for taking it. The exception is the update of `worker_count_`: load, store and
the comparison that follows are separate actions (`WorkerBegin`, `WorkerCount`,
`WorkerCounted`; `WorkerExit`, `WorkerUncount`, `WorkerExited`), across which the
worker keeps its mutex. `Wait` splits a section in two: the first half ends with
the thread in the monitor's set, the second starts once a `Notify`, a spurious
wakeup or a timeout has taken it out. A timeout can come to a thread that has been
notified as well: `pthread_cond_timedwait` may return `ETIMEDOUT` and have consumed
the signal, and `Add` then throws and passes it on to nobody.

| Code | Actions |
|---|---|
| `Add` | `AddPush`, `AddBlock`, `AddThrows`, `AddResume`, `AddTimedOut` |
| `RemoveExpiredTasks` | inside every action that calls it (`RemoveExpiredTasks(n)`, `Remaining`, `StatusWithout`); the clock is `Expire` |
| `RemoveNextPending`, `ExpiredTaskCount` | the same names |
| `Start`, `SimpleThreadManager::Start` | `Start`; `SimpleStart`, `SimpleImplStart`, `SimpleAddWorker` |
| `AddWorker` | `AddWorker`, `StartWorker`, `InsertId`, `AwaitWorkers`, `AddWorkerReturn` |
| `RemoveWorker` | `RemoveWorker`, `AwaitWorkers`, `RemoveWorkerReturn` |
| `StopImpl` | `StopImpl`, `StopReadCount`, `StopRemoveWorkers`, `StopThrows`, `RemoveWorkerReturn`, `StopSetStopped` |
| `Worker::Run` | `Worker...`, one per block between two lock operations |

`Calls` says which thread calls which operations. Every operation is repeatable
and in any order unless an instance restricts it; a pool thread calls from inside
the task it runs. An early return or exception that changes nothing (a `Stop` of a
stopped manager, `RemoveNextPending` of an empty queue) is a stuttering step and
has no action; a `RemoveWorker` whose argument exceeds the target throws and
changes nothing, except out of `StopImpl`, where it leaves the manager in
`STOPPING` (`StopThrows`).

A `Guard` with a timeout may fail at any moment: any other thread may be inside a
critical section just then. Model threads are created at most once each, so a pool
can grow `Cardinality(Worker)` times in an instance; the proofs hold for every finite
set of them.

### 2.2 `TaskPool`

The abstract specification, over a queue and an outcome per task: `Accept`,
`Reject`, `Dispatch`, `Finish`, `HandBack`, `Discard`, each possibly preceded by
the expiry of a prefix of the queue. `ThreadManager` maps `tasks` to the queue and
`status` to the outcome through `OutcomeOf` (an `Add` that sleeps has not been
answered; a task that threw has finished). `SplitterJobScheduler` uses `TaskPool`
in place of the thread manager.

### 2.3 `NoStarveReadWriteMutex`

One action per access to `writer_waiting_` and per lock operation. The rwlock
admits a reader whenever no writer holds it, as glibc's default kind does; this is
the case the class was written for. `overtook` is history: the threads that took
the rwlock in `AcquireRead` since the flag was last raised. `AttemptRead` and
`AttemptWrite` go round the gate, so threads that poll can starve a writer for
ever; `WriterNotStarved` says that nobody else can: a writer at the rwlock gets in,
unless calls that bypass it (`Bypassed`) go on for ever.

### 2.4 `SplitterJobScheduler`

A job and the worker that runs it are one actor. `pending_job_count_` is a `size_t`
(modulo `SizeMax + 1`), and its load and store are separate steps, because mutual
exclusion does not hold: `WaitAllJobDone` calls `monitor_.Wait()` without the lock,
which for glibc's normal mutex unlocks whoever has it (`Wait`) and returns with it
locked, for ever (`Resume`). `refs` is who holds a `shared_ptr` to the scheduler;
the last to let go runs the destructor, be it a job (`JobDestroys`). A job's
`Split` is one step per section: it writes an entry of `output_paths` and stops at
the first `ERROR`; what Split returns is ignored by the code. The number of
sections is the third-party `EpubSplitter`'s (`Unreadable`, `SectionCount`), and a
job of `Throwing` may throw at any section.

### 2.5 `SimpleThread`

An owner sets the factory's priority and detached flag and calls `NewThread`, which
copies them into the thread, scaled to what pthread understands
(`ToNativePriority`; INCREMENT and DECREMENT fail its assertion, `NewThreadAborts`).
From then on the owners share the thread. Each access to `state_` and `detached_`
is a step. `refs` is who holds a `shared_ptr` to the object, `reclaimed` how often
the pthread has been given back. `pthread_create` may fail, unnoticed
(`CreateFails`): the reference it was to hand over is leaked. A `Join` between
`state_ = STARTING` and `pthread_create`, or after its failure, joins a null
`pthread_t` (`JoinNull`); a destructor on the thread itself joins itself, which
fails (`Leave`).

`SyncStartTask` composes it with the test of that name: the starting owner is the
test, the pthread's `Run` is the task, and the two change `task_state` and wait for
each other over one monitor. `TaskUnlock` is separate from the step that notifies,
because the monitor is gone once the test has returned.

### 2.6 `TimeUtil`

`ToTicks`, `ToTimespec`, `ToTimeval` and `CurrentTime` as operators, with the
number of ticks per second as parameters, and a thread that waits in
`Monitor::Wait` or in `Mutex::TimedLock` while the clock advances. `TimedLock`
narrows its `int64_t` to an `int` (`ToInt`, with `IntMax` as parameter). `waited` is
history: the sum of the timeouts of the waits that ended, which `MonitorTimeoutTest`
subtracts from the time it measures.

### 2.7 `LoadTest` and `BlockTaskTest`

Both put a test on top of `ThreadManager`'s actions: `PoolStep` lets any step of the
manager happen, with the one addition that a task's `Run` returns only when the
task has done what the test's task does (`CountDown`; `TaskWait` before it). The
tests' tasks sit in a `std::set` of pointers, so they are added in any order.
`LoadTest` ends with the manager's destructor, that is with `Stop`. In
`BlockTaskTest` every `Add` of the extra runnable makes a new `Task`, so there are
three of them; `failed` is the place an `Exception` of the test leads to.

## 3. The runs

`CHECK_DEADLOCK FALSE` where the system may stop: nobody need call anything again,
a stopped pool does nothing, tasks and jobs run out, a test ends. The run of the
read-write lock checks for deadlock.

| Run | Instance | Checks | What it shows |
|---|---|---|---|
| `Lifecycle` | one owner of a `SimpleThreadManager` with one worker (`Start`, `AddWorker`, `Stop`, `Join`), one client (`Add`, timed or not, and `RemoveNextPending`), queue of 1, 2 workers, 2 tasks, one with an expiration | `SleepersHaveNoWork` `StoppedPoolIsQuiet` `JoinDrains` `QueuedOnce` `ImplementsTaskPool` `AddWorkerReturns` `StopReturns` | no wakeup is lost; `AddWorker`, `Stop`, `Join` return; a stopped pool has no live worker; `Join` drains the queue; the pool implements `TaskPool` |
| `Service` | `SimpleThreadManager`, queue of 1, 2 workers, 3 tasks (2 expiring), tasks that add tasks, all timeouts | `NoWorkerSleepsInAdd` `TotalTaskCountCovers` `TasksServed` | the pool never waits for itself, serves every accepted task, and the total count misses none |
| `Feed` | 2 threads and a queue of 2 served by one worker, 4 tasks (2 expiring), all timeouts | `QueueBounded` `ExpiredCountedOnce` `BlockedAddReturns` `DueTasksNeverStart` `ImplementsTaskPool` | the bound holds when several blocked `Add`s wake; each gets its turn, unless a woken one that timed out took it away (below); every task that is dropped is reported once, no task that is due is started, wherever it was in the queue, and tasks leave it in order |
| `Resize` | 2 threads that add and remove workers and stop, uncoordinated | `TypeOK` `IdleCountExact` `LiveWorkersRegistered` | what the code still guarantees under the race on `worker_count_` |
| `RWNoStarve` | 4 threads making every call, for ever | `WriterAlone` `WaitingWriterGatesReaders` `OvertakenOnce` `WriterNotStarved` | exclusion; a waiting writer keeps the gate closed; each reader overtakes it at most once; only pollers can starve it; no deadlock |
| `SplitterScheduler` | 1 client, 3 jobs of which one may throw and one has no section, 2 workers, queue of 2 | `TypeOK` `WaitedJobsDone` `NoNullObserver` | `WaitAllJobDone` never returns early, though the mutex is broken, and what the jobs wrote is final; no job calls through an expired `weak_ptr` |
| `ThreadLife` | 3 owners: one configures, starts and runs `SyncStartTaskTest`, one joins, one only holds on; every setting; `pthread_create` may fail | `NativePriorityValid` `JoinAwaitsRun` `ReclaimedOnce` `TaskLeftMonitor` `StartedRuns` `SyncStartReturns` `JoinReturns` | a started thread runs; `Join` waits for `Run` and returns; the pthread is reclaimed at most once; test and task start and stop each other, and the task is out of the monitor before it goes |
| `LoadTest` | 3 workers, 4 tasks, no bound | `LoadTestSeesAll` `LoadTestRanAll` `LoadTestReturns` | the test returns, after every task, and destroys nothing a task still uses |
| `TimedWait` | a second of 4 ms, 24 us, 96 ns; ints up to 7; two seconds of clock; timeouts below and above a second and above the largest int | `DeadlineNearest` `RoundTrip` `WaitsMeasured` `TimeMonotone` | the deadline is right to half a millisecond across seconds, or early after narrowing; waits never add up to more than was measured; time never goes back |
| `RemoveNextPending` | as `Lifecycle` | `ReturnedWhileStarted` | violated: finding 1 |
| `BlockTaskTest` | 1 worker, a queue of 1, so 2 tasks and the extra one | `BlockTaskTestReturns` | violated: finding 2 |
| `WaitAllJobDone` | 1 client, 2 jobs, none throws | `WaitAllReturns` | violated: finding 3 |

Why the bounds are enough. Two workers are the least with which a wakeup can go to
the wrong one, a starting worker can race with a leaving one, and one can sleep
while the other is busy. A queue of one makes `Add` block with the second task, so
two tasks fill it and block a thread (`Lifecycle`, also through a `Stop`), and three
make a task block on it (`Service`). In `Feed` two tasks fill the queue and block both
threads with the other two; one turn of the worker can drop both queued tasks, hence
free two slots with one `Notify`, and a task that is due can be behind one that is
not. `ImplementsTaskPool` is checked in both: in `Lifecycle` with `Stop` and
`RemoveNextPending`, in `Feed` with a queue that has an order. `SizeMax = 7` is above
every count a run reaches, so only decrementing zero wraps; the scheduler's count wraps and comes back.
Workers are created at most once each, so in `Resize` and `Lifecycle` the pool
grows twice. Four threads let a waiting writer, its successor and two readers meet.
Three jobs with two workers let one complete, one run and one wait. `LoadTest` has
more tasks than workers and more workers than can be busy at its end. The resolutions
of `TimedWait` keep the proportions that matter (each divides the next, an even
number of ticks to a coarser one), and every phase of two seconds occurs; `IntMax` is
below the longest timeout, so narrowing happens. For what
section 5 proves the bounds do not matter.

The instances of `Lifecycle`, `Service` and `Feed` coordinate their threads as the
code must be used: one thread grows and stops a pool. Without this, what they check
is false: two threads that resize at once can hang (one `Notify` for two waiters; a
lost update of `worker_count_`), a second `Stop` returns while the first waits, and
`RemoveWorker(1)` can make two idle workers leave, because both compare before
either has decremented. `Resize` has these behaviours and checks what holds in
spite of them. The repository does not say that these operations may be called
concurrently, so none of this is a finding.

Nor is what `BlockedAddReturns` has to except. `Add` does not pass a notification on
when it throws `TimedOutException`, so this can happen in `Feed`: both threads are
asleep in `Add`, one with a timeout; the worker empties the queue and wakes that one;
it times out all the same; the worker finds the queue empty and sleeps. The other
thread is now asleep beside a free slot and an idle worker until somebody else adds a
task. `forfeited` records the event, the next turn of a worker that takes from the
queue clears it, and `BlockedAddReturns` says that a blocked `Add` returns unless it
stays set for ever. Without that disjunct TLC reports this behaviour. The repository
says nothing of when a blocked `Add` returns.

## 4. Fairness

Only a step a thread takes by itself is fair; no thread has to make a call, nothing has
to be woken spuriously, and no timer has to fire except where it is said below.

- `ThreadManager!FairSpec`: weak fairness of every caller's `Continue` and
  `AddResume` and of every worker's `Run` and `AddResume`, not of `AddTimedOut`. Threads are preemptively scheduled
  pthreads, critical sections are short, and tasks return. A thread that waits for
  a mutex is enabled whenever the mutex is free; it can be overtaken for ever only
  by threads that make for ever new calls, and the instances have finitely many
  tasks and workers.
- `NoStarveReadWriteMutex!FairSpec`: weak fairness of what a thread does after its
  call, including `Release`: what a lock protects ends. No lock is assumed fair:
  readers may come back for ever, which is what makes `WriterNotStarved` worth
  checking, and what polling does to it is part of the property.
- `SplitterJobScheduler!FairSpec`: strong fairness for entering the mutex. This is
  more than pthread promises and is used only for a violation, which it makes
  stronger: the client hangs although nobody is kept from the mutex.
- `SyncStartTask!SyncSpec`: weak fairness of `ThreadMain`'s steps, of the task, of the
  test and of an owner's steps inside a call. The test's `Wait(100)` ends because it
  has a timeout. Whether `pthread_create` succeeds is open.
- `LoadTest!LoadSpec`, `BlockTaskTest!BlockSpec`: weak fairness of the test and of
  every pool thread. `LoadTask::Run` sleeps and returns. In `BlockSpec` the test's
  timed `Add` does end, by its timeout if need be, which makes the violation stronger.
  `BlockTask::Run` is not helped by spurious wakeups: none has to occur.

## 5. The proofs

All are safety results and hold for all values of the constants that satisfy the
assumptions, hence for any number of threads, tasks and calls.

**Assumptions.** `ThreadsAssumption`: finitely many workers, no caller is one,
`None` is neither a worker nor a task. `SizesAssumption`: counts are natural
numbers and the workers fit a `size_t`. `CallsAssumption`: a manager is started by
`Start` or by `SimpleThreadManager::Start`, not both (they are two classes'
methods); without it `QueueBounded` is false, since `SetPendingTaskCountMax` could
lower the bound under a full queue. `RWAssumption`: `None` is not a thread.
`SplitterAssumption`: clients are not jobs, a job that can be read has a section.
`OwnerAssumption`, `SettingsAssumption`, `StarterAssumption`: the pthread is not an
owner, the settings are values of their enums, the test is an owner.
`ResolutionsAssumption`: each resolution divides the next, and a millisecond is an even
number of the finer ticks (1000, 1000000, 1000000000 per second are such).
`LoadTestAssumption`: the test is the only caller, no bound, finitely many tasks. TLC
evaluates each of them on every run of its module.

**Hypotheses.** Some results need threads that use the code as it must be used; such a
hypothesis is part of the theorem, not an assumption of the module, and the run that
checks the same property has an instance that satisfies it.

| Hypothesis | Says | Without it |
|---|---|---|
| `Owner(c)` | `c` alone calls `AddWorker`, `Stop`, `Join` and `SimpleThreadManager::Start`; nobody calls `RemoveWorker`. Anyone may `Start`, `Add`, `RemoveNextPending`, `ExpiredTaskCount`, and so may tasks | an increment and a decrement of `worker_count_` hold different mutexes and one is lost; a second `Stop` returns early; `RemoveWorker(1)` lets two workers go |
| `SingleUser(c)` | `c` is the only caller outside the pool, starts the pool once with `SimpleThreadManager::Start`, and feeds it, as tasks may | `AddWorker` starts a thread before its id is in `id_map_`: a worker that meanwhile runs somebody's task is not recognised by `Add` |
| `OneCaller("Start")`, `OneCaller("Join")`, `TestStarts` | one owner of a thread calls `Start`, or `Join`; in `SyncStartTask` it is the test that starts | `state_` and `detached_` are tested and set with no lock: two can pass the test |
| `Client = {c}`, `CountFits` | one client adds and waits; a `size_t` can count the jobs | one client's early completion offsets another's job |

**`ThreadManagerProofs`.**

- `TypeCorrect`, `IdleCountCorrect`: types alone are not inductive. `idle_count_--`
  stays in `Nat` only because the worker that decrements was counted, so
  `TypeInv` joins `TypeOK` with `IdleCountExact` (the counter is the number of
  workers between increment and decrement), with `AddersHaveTasks` and with
  `NewThreadsCreated` (a thread `AddWorker` has yet to start is not yet in `Run`, and
  no other `AddWorker` has it). The cardinality facts are `WaitingIsCounted` and
  `SameIdle`.
- `WorkersStayRegistered`: `RegistryInv` adds that whatever is in `dead_workers_` is
  in the last block of `Run` or past it. Reaping needs `worker_monitor_`'s mutex,
  which that block holds, so what is reaped has left. Holds under the race on
  `worker_count_`.
- `QueueStaysBounded`: `BoundInv` adds that the bound is set once, before anything
  can be pushed (`Unset`); a woken `Add` tests the size again.
- `DueNeverStart`: an action property, from `TypeInv`.

**`TaskPoolRefinement`.** `TaskInv` relates queue, statuses and locals: the queue
holds the pending tasks, each once (`Holds`); whoever sleeps in `Add` has a task
nobody else offers (`OffersInv`); whoever runs has a task nobody else runs
(`RunsInv`). Lemmas `HoldsPush`, `HoldsPop`, `HoldsOther` and `HoldsRemaining` say
what each queue operation does to `Holds`. From it follow `QueuedOnceHolds` and,
action by action (`PoolMoves`), `Refinement`: `Spec => ImplementsTaskPool`.
`ExpiredCounted` needs no hypothesis: a call that drops the first `n` tasks drops `n`
different ones that were not dropped before (`PrefixCount`, from `Holds`), so the
number of expired tasks and `expired_count_` grow alike (`DropCounted`).

**`ControlledPoolProofs`.** The heart is `ControlInv(c)`, under `Owner(c)`:

- `CountInv`: `worker_count_` is the number of workers that have counted themselves in
  and not out, a worker between load and store has loaded the current value, and one
  worker at most is at each of the two updates.
- `PhaseInv`: workers come (`Coming`) only while the owner is in `AddWorker` and depart
  (`Departing`) only while it waits in `Stop` or `Join`; outside that wait the count and
  those that are coming make up `worker_max_count_`. So the two updates, which different
  mutexes protect, never overlap. This is what makes `CountInv` inductive.
- `OwnerInv`: where the owner and the others can be.

`ControlInvariant` is its invariance. `StoppedQuiet` reads it off where `Stop` is past
its wait: the target is zero, so nobody is counted, coming or departing. `NoLostWakeup`
is inductive together with it: at the queue `SleepersHaveNoWork` counts those awake
against the tasks, one `Notify` per task makes up for one task, and a worker goes to
sleep only on an empty queue. `TotalCovers` compares the cardinalities of busy and of
counted workers, with `RunnersInv` (an executing task has its worker). `JoinDrainsQueue`
uses `OwedInv`: while a task that `Join` owes is queued, no worker departs and there is
one. `TasksNeverSleepInAdd`, under `SingleUser(c)`, uses `EnrolledInv`: as long as an id
may be missing from `id_map_` (`Enrolling`) no task has been accepted.

**`LoadTestProofs`.** `LoadImplementsManager` is a refinement with the identity as
mapping, so every theorem above holds in the test. `LoadTestWaits`: `tasks_left` is the
number of tasks that have not counted down (`LeftInv`). `LoadTestRunsAll` joins three
parts: all have counted down, a task that has counted down is executing or complete
(`ExecutedMoves`, from the refinement of `TaskPool`), and after `Stop` no worker is left
to be executing it (`StoppedQuiet`, `RunnersInvariant`).

**`SplitterProofs`.** `SchedulerTypeOK` holds for any clients. For one client:
`MonitorInv` says how broken the mutex is (while the client sleeps in a `Wait` that
unlocked it for a job, a second job can be inside, never a third, and never beside the
client), `CountInv` that `pending_job_count_`, read as a number that may be -1, lies
between the jobs that are not counted down and those that were added, and so does
every value somebody is about to store. A lost update therefore loses a decrement, never
an increment: the client may wait for ever (finding 3) and never returns early.
`ClientInv` and `OutputInv` draw the conclusions `WaitAllWaits` and `ObserverLives`.

**`SimpleThreadProofs`.** `ValidPriority` and `Lifetime` hold for any owners making any
calls. `JoinWaits` rests on `StartInv` (one pthread is created, and an owner whose `Join`
began after that is past its wait only when it has ended), `Reclaimed` on `ReclaimInv`
(while `detached_` is false nobody has reclaimed the pthread, except the owner that is
about to set it). `SyncImplementsThread` carries both to `SyncStartTaskTest`
(`SyncThreadSafe`). `TaskLeaves`: `HandshakeInv` lists the eight pairs of places test and
task can be in.

**`TimeUtilProofs`.** `ToTicks` rounds to the nearest tick (lemmas on `\div` and `%`, by
the solver's arithmetic, then `Round`), which keeps order (`MonotoneTime`) and whole
milliseconds (`ConversionsRoundTrip`), for clocks and timeouts of any size and all
resolutions. `TimeInv` adds where a deadline comes from, and that time measured since
the start covers the waits that ended (`NearestDeadline`, `MeasuredWaits`).

**`NoStarveProofs`.** `Inv` says who holds `mutex_` (`MutexInv`), that the flag is up
exactly while its owner waits with `mutex_` held (`FlagInv`), who holds the rwlock
(`RWLockInv`), and that who has overtaken the writer is not about to do it again
(`OvertookInv`). `WriterExclusion`, `GateClosed` and `BoundedOvertaking` follow.

**Only model-checked.** Every liveness property (the prover has no fairness and no
`ENABLED`): `AddWorkerReturns`, `StopReturns`, `TasksServed`, `BlockedAddReturns`,
`StartedRuns`, `SyncStartReturns`, `JoinReturns`, `LoadTestReturns`, and
`WriterNotStarved`, whose core `BoundedOvertaking` is proved. Of the first two the proofs
give the safety half: the count they wait for is exact. The violations of section 6
are counterexamples of TLC's. Every invariant and action property that a run checks
is proved, under the hypotheses above where it needs one.

## 6. Findings

1. `RemoveNextPending` throws when the manager *is* started and pops a task when it
   is not (`thread_manager.cc:418`); its exception says "ThreadManager not started".
   `Remove`, just above it, has the test the other way round.
2. `BlockTaskTest` can hang. `BlockTask::Run` calls `bmonitor_.Wait()` in no loop and
   under no condition (`thread_manager_unittest.cc:143`): a task that gets there after
   the `NotifyAll` meant for it sleeps for ever, and the test waits for its count for
   ever. The counterexample: the tasks are in a `std::set` of pointers, a task of the
   second group comes first, the first `NotifyAll` (line 218) wakes it, and the task of
   the first group arrives too late. With the groups in order, the worker that has
   taken the extra task may still be later than the last `NotifyAll` (line 256). (Its
   checks of `TotalTaskCount()` can fail as well, since that counts a worker that is
   between two tasks, line 266.)
3. `WaitAllJobDone` tests the count and waits without the lock
   (`splitter_job_scheduler.h:151`): the last completion's `NotifyAll` can fall
   between the two and the client sleeps for ever.

## 7. What is left out

Assumed everywhere: steps of threads interleave as if memory were sequentially
consistent; a racy read returns some value that was written; the loads of one
comparison are one step. The clock is not set back. Allocation and pthread calls
succeed, except `pthread_create` in `SimpleThread` (in `ThreadManager` it succeeds:
its result is ignored by the code, and `AddWorker` would wait for ever). pthread ids
are not reused.

- `ThreadManager`: the expire callback (it runs with `mutex_` held, so it deadlocks
  if it calls the manager); `RemoveExpiredTasks` called from outside, which takes no
  lock; a manager without a thread factory; `Remove`, which does nothing; the plain
  getters; the `STARTING` state, which is never assigned.
- `Mutex`, `Monitor`: construction, ownership of the mutex, the mutex
  initializers (nothing uses the adaptive and the recursive one).
- `NoStarveReadWriteMutex`: a thread that locks recursively (a second `AcquireRead`
  while a writer waits stops at `mutex_` for ever).
- `SplitterJobScheduler`: several clients. The module allows them, but then
  `WaitedJobsDone` is not expected: one client's early completion can offset
  another's job. The factories and `UnRegisterObserver`, which nothing calls.
- `SimpleThread`: two owners that call `Join` at once (both would call
  `pthread_join`), the stack size, `SetRunnable`.
- `TimeUtil`: negative times; `MonotonicTime`, which nothing calls; the conversion
  between equal resolutions, `ToUsec` of a `timeval` (`base/time_util.h:72`), whose
  rounding always adds a tick: it is one microsecond too large, and nothing calls it.
- Tests: `HelloWorldTest`; `ReapNTaskTest`, whose TEST calls it with its own result;
  the statistics of `LoadTest`; `observer_unittest.cc`, a smaller copy of the
  scheduler of `splitter/` that neither counts nor waits.
- `net/`: `socket.cc` is not in the Makefile and does not compile; the rest is
  interface declarations. Exceptions and macros have no behaviour of their own.

## 8. Plan

Done, in this order: `TaskPool` and `ThreadManager` with its runs; the proofs of its
types, counters, registry and bound; the refinement; the read-write lock with its
proofs; the scheduler on `TaskPool`; threads; time; then the factory, failing
`pthread_create`, the sections of a job, narrowed timeouts, and the tests composed
with the parts they test; then the proofs of all the runs' invariants and action
properties.

Next:

1. `BlockTaskTest` as a refinement of the thread manager, as `LoadTest` is, with what it
   does guarantee: its counts, and that it never destroys what a task still uses.
2. More action properties, and their theorems: the states of the manager follow their
   order, `Join` and `Stop` let go of no task that runs.
3. What the pool still guarantees when two threads resize it, beyond `TypeOK`,
   `IdleCountExact` and `LiveWorkersRegistered`.
4. The expire callback in `ThreadManager`; several clients in
   `SplitterJobScheduler`.
