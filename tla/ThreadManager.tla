---------------------------- MODULE ThreadManager ----------------------------
(***************************************************************************)
(* The thread pool of src/threads/thread_manager.cc: ThreadManager::Impl,  *)
(* its Task and Worker classes and SimpleThreadManager.                    *)
(*                                                                         *)
(* Locks.  mutex_ is shared by monitor_ (idle workers sleep on it) and     *)
(* max_monitor_ (callers of Add sleep on it while the queue is full);      *)
(* worker_monitor_ has a mutex of its own.  A critical section that calls  *)
(* no Wait is one step, except where it updates worker_count_: that field  *)
(* is incremented under mutex_ and decremented under worker_monitor_'s     *)
(* mutex, a data race, so its load, its store and the comparison that      *)
(* follows are three steps and the lock is held across them.               *)
(*                                                                         *)
(* Condition variables.  Each monitor is the set of threads asleep on it.  *)
(* Notify removes one, NotifyAll all of them, a spurious wakeup any one;   *)
(* a thread that is out of the set continues once it gets the mutex.       *)
(*                                                                         *)
(* A definition marked "Mutant" is used by no action: put in place of the  *)
(* definition that follows it, it is a plausible mistake in that code.     *)
(***************************************************************************)
EXTENDS Naturals, FiniteSets, Sequences

CONSTANTS
  Caller,               \* threads outside the pool that call the manager
  Worker,               \* the pool's threads; each is created at most once
  Task,                 \* the runnables; each is offered to Add at most once
  Calls,                \* Calls[t]: the operations thread t calls, in any order
  WorkerCounts,         \* arguments of AddWorker and RemoveWorker
  Timeouts,             \* arguments of Add: "forever" (0), "timed" (>0), "try" (<0)
  Expiring,             \* the tasks that are added with an expiration
  SimpleWorkerCount,    \* SimpleThreadManager's constructor arguments
  PendingTaskCountMax,
  SizeMax,              \* the largest size_t
  None

Thread == Caller \cup Worker

ASSUME ThreadsAssumption ==
  /\ IsFiniteSet(Worker)
  /\ Caller \cap Worker = {}
  /\ None \notin Worker \cup Task

ASSUME SizesAssumption ==
  /\ SizeMax \in Nat
  /\ Cardinality(Worker) < SizeMax
  /\ WorkerCounts \subseteq Nat
  /\ SimpleWorkerCount \in Nat
  /\ PendingTaskCountMax \in Nat

ASSUME CallsAssumption ==
  /\ DOMAIN Calls = Thread
  /\ \A s, t \in Thread : ~("Start" \in Calls[s] /\ "SimpleStart" \in Calls[t])
  /\ Timeouts \subseteq {"forever", "timed", "try"}
  /\ Expiring \subseteq Task

VARIABLES
  \* Fields of ThreadManager::Impl.
  state, worker_count, worker_max_count, idle_count, pending_task_count_max,
  expired_count, tasks, workers, dead_workers, id_map,
  \* Threads asleep on the three condition variables.
  monitor, max_monitor, worker_monitor,
  \* Control state and locals of the threads.
  pc,           \* where each thread is
  reg,          \* a size_t local: a loaded worker_count_, RemoveWorker's argument
  task,         \* a worker's local "task"
  adding,       \* the runnable a thread asleep in Add wants to push
  timed,        \* whether that Add has a positive timeout
  new_threads,  \* AddWorker's local "new_threads", less the ones started
  inserting,    \* the thread AddWorker has started but not put into id_map_
  \* What has become of each runnable, and which deadlines have passed.
  status, due,
  \* History: the tasks queued when Join was called on a pool with workers, the sum of
  \* what ExpiredTaskCount has returned, and the threads whose Add, since a worker last
  \* was at the queue, had been woken and timed out all the same beside a free slot.
  owed, reported, forfeited

counts == <<worker_count, worker_max_count>>
queue == <<tasks, expired_count, status>>
registry == <<workers, dead_workers, id_map>>
fields == <<state, counts, idle_count, pending_task_count_max, registry>>
manager == <<fields, queue>>
monitors == <<monitor, max_monitor, worker_monitor>>
offers == <<adding, timed>>
starting == <<new_threads, inserting>>
locals == <<reg, task, offers, starting>>
ghosts == <<due, owed, reported, forfeited>>
vars == <<manager, monitors, pc, locals, ghosts>>

States == {"UNINITIALIZED", "STARTING", "STARTED", "JOINING", "STOPPING", "STOPPED"}

CallerPCs == {"idle", "simple_start", "simple_add", "start_workers", "await_added",
              "await_removed", "await_stopped", "stop_read", "stop_remove",
              "set_stopped", "add_wait"}

WorkerPCs == {"none", "created", "starting", "counting", "counted", "notifying",
              "loop", "waiting", "running", "add_wait", "leaving", "uncounting",
              "uncounted", "exited"}

Statuses == {"new", "offered", "rejected", "pending", "executing", "complete",
             "failed", "expired", "returned"}

\* Every field, local and monitor has its type; in particular worker_count_ is
\* a size_t, and idle_count_ is never decremented below zero.
TypeOK ==
  /\ state \in States
  /\ worker_count \in 0..SizeMax
  /\ worker_max_count \in Nat
  /\ idle_count \in Nat
  /\ pending_task_count_max \in Nat
  /\ expired_count \in Nat
  /\ tasks \in Seq(Task)
  /\ workers \subseteq Worker /\ dead_workers \subseteq Worker /\ id_map \subseteq Worker
  /\ monitor \subseteq Worker /\ max_monitor \subseteq Thread
  /\ worker_monitor \subseteq Caller
  /\ pc \in [Thread -> CallerPCs \cup WorkerPCs]
  /\ \A c \in Caller : pc[c] \in CallerPCs
  /\ \A w \in Worker : pc[w] \in WorkerPCs
  /\ reg \in [Thread -> 0..SizeMax]
  /\ task \in [Worker -> Task \cup {None}]
  /\ adding \in [Thread -> Task \cup {None}]
  /\ timed \in [Thread -> BOOLEAN]
  /\ new_threads \in [Caller -> SUBSET Worker]
  /\ inserting \in [Caller -> Worker \cup {None}]
  /\ status \in [Task -> Statuses]
  /\ due \subseteq Task /\ owed \subseteq Task /\ reported \in Nat
  /\ forfeited \subseteq Thread

-----------------------------------------------------------------------------
(* Locks, condition variables and size_t arithmetic.                       *)

\* Only a worker that updates worker_count_ holds a lock between two steps.
MutexFree == \A w \in Worker : pc[w] \notin {"counting", "counted"}
WorkerMutexFree == \A w \in Worker : pc[w] \notin {"uncounting", "uncounted"}

\* The sets of waiters that Notify can leave behind, once or n times.
Notified(S) == IF S = {} THEN {S} ELSE {S \ {x} : x \in S}
NotifiedTimes(S, n) ==
  IF n >= Cardinality(S) THEN {{}}
  ELSE {S \ R : R \in {Q \in SUBSET S : Cardinality(Q) = n}}

\* Mutant: worker_count_-- on a signed integer.
DecrementSigned(x) == x - 1

Increment(x) == IF x = SizeMax THEN 0 ELSE x + 1
Decrement(x) == IF x = 0 THEN SizeMax ELSE x - 1

Goto(t, to) == pc' = [pc EXCEPT ![t] = to]

\* A caller calls from outside; a worker calls from inside the task it runs.
MayCall(t, op) ==
  /\ op \in Calls[t]
  /\ pc[t] = IF t \in Caller THEN "idle" ELSE "running"

-----------------------------------------------------------------------------
(* RemoveExpiredTasks: with mutex_ held, pops the queue's expired prefix.  *)

\* Mutant: the expired prefix is left in the queue.
RemoveNoExpiredTasks(n) == n = 0

\* The loop stops after n pops.
RemoveExpiredTasks(n) ==
  /\ \A i \in 1..n : tasks[i] \in due
  /\ n < Len(tasks) => tasks[n + 1] \notin due

Remaining(n) == SubSeq(tasks, n + 1, Len(tasks))

StatusWithout(n) ==
  [k \in Task |-> IF \E i \in 1..n : tasks[i] = k THEN "expired" ELSE status[k]]

\* The clock passes the expire time of a queued task.
Expire(k) ==
  /\ k \in Expiring \ due
  /\ status[k] = "pending"
  /\ due' = due \cup {k}
  /\ UNCHANGED <<manager, monitors, pc, locals, owed, reported, forfeited>>

-----------------------------------------------------------------------------
(* Add.                                                                    *)

\* Mutant: every thread may sleep, the pool's own included.
AlwaysCanSleep(t) == TRUE

CanSleep(t) == t \notin id_map

\* The queue, n expired tasks removed, is at its limit.
Full(n) ==
  /\ pending_task_count_max > 0
  /\ Len(tasks) - n >= pending_task_count_max

\* Mutant: the task is pushed, and no worker notified.
PushQuietly(k, n) ==
  /\ tasks' = Append(Remaining(n), k)
  /\ status' = [StatusWithout(n) EXCEPT ![k] = "pending"]
  /\ expired_count' = expired_count + n
  /\ UNCHANGED monitor

Push(k, n) ==
  /\ tasks' = Append(Remaining(n), k)
  /\ status' = [StatusWithout(n) EXCEPT ![k] = "pending"]
  /\ expired_count' = expired_count + n
  /\ monitor' \in IF idle_count > 0 THEN Notified(monitor) ELSE {monitor}

AddPush(t, k) ==
  /\ MayCall(t, "Add")
  /\ status[k] = "new"
  /\ MutexFree
  /\ state = "STARTED"
  /\ \E n \in 0..Len(tasks) : RemoveExpiredTasks(n) /\ ~Full(n) /\ Push(k, n)
  /\ UNCHANGED <<fields, max_monitor, worker_monitor, pc, locals, ghosts>>

\* The queue is full and the thread may sleep: it waits on max_monitor_.
AddBlock(t, k, timeout) ==
  /\ MayCall(t, "Add")
  /\ status[k] = "new"
  /\ MutexFree
  /\ state = "STARTED"
  /\ CanSleep(t) /\ timeout # "try"
  /\ \E n \in 0..Len(tasks) :
       /\ RemoveExpiredTasks(n) /\ Full(n)
       /\ tasks' = Remaining(n)
       /\ status' = [StatusWithout(n) EXCEPT ![k] = "offered"]
       /\ expired_count' = expired_count + n
  /\ max_monitor' = max_monitor \cup {t}
  /\ Goto(t, "add_wait")
  /\ adding' = [adding EXCEPT ![t] = k]
  /\ timed' = [timed EXCEPT ![t] = (timeout = "timed")]
  /\ UNCHANGED <<fields, monitor, worker_monitor, reg, task, starting, ghosts>>

\* Add throws: TimedOutException when the Guard does not get mutex_ (another
\* thread may hold it at any moment), IllegalStateException when the manager is
\* not started, TooManyPendingTasksException when the queue is full and the
\* thread may not sleep.
AddThrows(t, k, timeout) ==
  /\ MayCall(t, "Add")
  /\ status[k] = "new"
  /\ \E n \in 0..Len(tasks) :
       /\ \/ n = 0 /\ timeout # "forever"
          \/ n = 0 /\ MutexFree /\ state # "STARTED"
          \/ /\ MutexFree /\ state = "STARTED"
             /\ RemoveExpiredTasks(n) /\ Full(n)
             /\ ~CanSleep(t) \/ timeout = "try"
       /\ tasks' = Remaining(n)
       /\ status' = [StatusWithout(n) EXCEPT ![k] = "rejected"]
       /\ expired_count' = expired_count + n
  /\ UNCHANGED <<fields, monitors, pc, locals, ghosts>>

AddReturn(t) ==
  /\ Goto(t, IF t \in Caller THEN "idle" ELSE "running")
  /\ adding' = [adding EXCEPT ![t] = None]
  /\ timed' = [timed EXCEPT ![t] = FALSE]

\* Mutant: "if" for "while", so the size is not looked at again.
AddResumeUnchecked(t) ==
  /\ pc[t] = "add_wait" /\ t \notin max_monitor
  /\ MutexFree
  /\ Push(adding[t], 0)
  /\ AddReturn(t)
  /\ UNCHANGED <<fields, max_monitor, worker_monitor, reg, task, starting, ghosts>>

\* Woken in Add's while loop: the queue is still full, or the task is pushed.
\* Neither state_ nor expired tasks are looked at again.
AddResume(t) ==
  /\ pc[t] = "add_wait" /\ t \notin max_monitor
  /\ MutexFree
  /\ \/ /\ Full(0)
        /\ max_monitor' = max_monitor \cup {t}
        /\ UNCHANGED <<queue, monitor, pc, offers>>
     \/ /\ ~Full(0)
        /\ Push(adding[t], 0)
        /\ AddReturn(t)
        /\ UNCHANGED max_monitor
  /\ UNCHANGED <<fields, worker_monitor, reg, task, starting, ghosts>>

\* max_monitor_.Wait(timeout) times out and throws TimedOutException.  A thread that
\* has been notified may time out all the same: pthread_cond_timedwait may return
\* ETIMEDOUT and have consumed the signal, and Add does not pass it on.
AddTimedOut(t) ==
  /\ pc[t] = "add_wait" /\ timed[t]
  /\ MutexFree
  /\ max_monitor' = max_monitor \ {t}
  /\ status' = [status EXCEPT ![adding[t]] = "rejected"]
  /\ forfeited' = IF t \in max_monitor \/ Full(0) THEN forfeited ELSE forfeited \cup {t}
  /\ AddReturn(t)
  /\ UNCHANGED <<fields, expired_count, tasks, monitor, worker_monitor, reg, task,
                 starting, due, owed, reported>>

-----------------------------------------------------------------------------
(* The other operations on the queue.                                      *)

\* Mutant: front() without pop().
PeekNextPending(c) ==
  /\ MayCall(c, "RemoveNextPending")
  /\ MutexFree
  /\ state # "STARTED"
  /\ tasks # <<>>
  /\ status' = [status EXCEPT ![Head(tasks)] = "returned"]
  /\ UNCHANGED <<fields, expired_count, tasks, monitors, pc, locals, ghosts>>

RemoveNextPending(c) ==
  /\ MayCall(c, "RemoveNextPending")
  /\ MutexFree
  /\ state # "STARTED"
  /\ tasks # <<>>
  /\ tasks' = Tail(tasks)
  /\ status' = [status EXCEPT ![Head(tasks)] = "returned"]
  /\ UNCHANGED <<fields, expired_count, monitors, pc, locals, ghosts>>

\* Mutant: the count is not reset.
ExpiredTaskCountKept(c) ==
  /\ MayCall(c, "ExpiredTaskCount")
  /\ MutexFree
  /\ reported' = reported + expired_count
  /\ UNCHANGED <<manager, monitors, pc, locals, due, owed, forfeited>>

ExpiredTaskCount(c) ==
  /\ MayCall(c, "ExpiredTaskCount")
  /\ MutexFree
  /\ reported' = reported + expired_count
  /\ expired_count' = 0
  /\ UNCHANGED <<fields, tasks, monitors, pc, locals, status, due, owed, forfeited>>

TotalTaskCount == Len(tasks) + worker_count - idle_count

-----------------------------------------------------------------------------
(* Start, AddWorker, RemoveWorker, StopImpl.                               *)

\* ThreadManager::Impl::Start: no state change unless UNINITIALIZED.
ImplStart ==
  /\ MutexFree
  /\ state' = IF state = "UNINITIALIZED" THEN "STARTED" ELSE state
  /\ monitor' = IF state = "UNINITIALIZED" THEN {} ELSE monitor
  /\ UNCHANGED <<counts, idle_count, pending_task_count_max, queue, registry,
                 max_monitor, worker_monitor, locals, ghosts>>

Start(c) ==
  /\ MayCall(c, "Start")
  /\ ImplStart
  /\ UNCHANGED pc

\* SimpleThreadManager::Start calls SetPendingTaskCountMax, ...
SimpleStart(c) ==
  /\ MayCall(c, "SimpleStart")
  /\ MutexFree
  /\ pending_task_count_max' = PendingTaskCountMax
  /\ Goto(c, "simple_start")
  /\ UNCHANGED <<state, counts, idle_count, queue, registry, monitors, locals,
                 ghosts>>

\* ... ThreadManager::Impl::Start ...
SimpleImplStart(c) ==
  /\ pc[c] = "simple_start"
  /\ ImplStart
  /\ Goto(c, "simple_add")

\* AddWorker(value) creates the threads and registers them.
RegisterWorkers(c, value) ==
  /\ MutexFree
  /\ \E S \in SUBSET {w \in Worker : pc[w] = "none"} :
       /\ Cardinality(S) = value
       /\ worker_max_count' = worker_max_count + value
       /\ workers' = workers \cup S
       /\ new_threads' = [new_threads EXCEPT ![c] = S]
       /\ pc' = [t \in Thread |->
                   IF t \in S THEN "created"
                   ELSE IF t # c THEN pc[t]
                   ELSE IF S = {} THEN "await_added" ELSE "start_workers"]
  /\ UNCHANGED <<state, worker_count, idle_count, pending_task_count_max, queue,
                 dead_workers, id_map, monitors, reg, task, offers, inserting,
                 ghosts>>

AddWorker(c, value) == MayCall(c, "AddWorker") /\ RegisterWorkers(c, value)

\* ... and AddWorker(worker_count_).
SimpleAddWorker(c) ==
  pc[c] = "simple_add" /\ RegisterWorkers(c, SimpleWorkerCount)

\* One iteration of AddWorker's loop: Start the thread ...
StartWorker(c, w) ==
  /\ pc[c] = "start_workers" /\ inserting[c] = None
  /\ w \in new_threads[c]
  /\ Goto(w, "starting")
  /\ new_threads' = [new_threads EXCEPT ![c] = @ \ {w}]
  /\ inserting' = [inserting EXCEPT ![c] = w]
  /\ UNCHANGED <<manager, monitors, reg, task, offers, ghosts>>

\* ... then, with no lock held, put its id into id_map_.
InsertId(c) ==
  /\ pc[c] = "start_workers" /\ inserting[c] # None
  /\ id_map' = id_map \cup {inserting[c]}
  /\ inserting' = [inserting EXCEPT ![c] = None]
  /\ Goto(c, IF new_threads[c] = {} THEN "await_added" ELSE "start_workers")
  /\ UNCHANGED <<state, counts, idle_count, pending_task_count_max, queue, workers,
                 dead_workers, monitors, reg, task, offers, new_threads, ghosts>>

\* Mutant: nobody waits for the workers.
TargetAssumed == TRUE

\* The condition of the two loops that wait on worker_monitor_.
TargetReached == worker_count = worker_max_count

Awaiting == {"await_added", "await_removed", "await_stopped"}

\* The loop "while (worker_count_ != worker_max_count_) worker_monitor_.Wait()".
AwaitWorkers(c) ==
  /\ pc[c] \in Awaiting /\ c \notin worker_monitor
  /\ WorkerMutexFree
  /\ ~TargetReached
  /\ worker_monitor' = worker_monitor \cup {c}
  /\ UNCHANGED <<manager, monitor, max_monitor, pc, locals, ghosts>>

\* The end of AddWorker.
AddWorkerReturn(c) ==
  /\ pc[c] = "await_added" /\ c \notin worker_monitor
  /\ WorkerMutexFree
  /\ TargetReached
  /\ Goto(c, "idle")
  /\ UNCHANGED <<manager, monitors, locals, ghosts>>

\* Mutant: one Notify, however many workers are idle.
LowerTargetNotifyOne(value) ==
  /\ MutexFree
  /\ value <= worker_max_count
  /\ worker_max_count' = worker_max_count - value
  /\ monitor' \in Notified(monitor)
  /\ UNCHANGED <<state, worker_count, idle_count, pending_task_count_max, queue,
                 registry, max_monitor, worker_monitor, locals, ghosts>>

\* RemoveWorker's first block: lower the target, wake the idle workers.
LowerTarget(value) ==
  /\ MutexFree
  /\ value <= worker_max_count
  /\ worker_max_count' = worker_max_count - value
  /\ monitor' \in IF idle_count < value THEN NotifiedTimes(monitor, idle_count)
                  ELSE {{}}
  /\ UNCHANGED <<state, worker_count, idle_count, pending_task_count_max, queue,
                 registry, max_monitor, worker_monitor, locals, ghosts>>

RemoveWorker(c, value) ==
  /\ MayCall(c, "RemoveWorker")
  /\ LowerTarget(value)
  /\ Goto(c, "await_removed")

\* Mutant: the live workers are dropped with the dead ones.
ReapAllWorkers ==
  /\ id_map' = {}
  /\ workers' = {}
  /\ dead_workers' = {}

ReapDeadWorkers ==
  /\ id_map' = id_map \ dead_workers
  /\ workers' = workers \ dead_workers
  /\ dead_workers' = {}

\* RemoveWorker's second block, after the wait: reap the dead workers.
RemoveWorkerReturn(c) ==
  /\ pc[c] \in {"await_removed", "await_stopped"} /\ c \notin worker_monitor
  /\ WorkerMutexFree
  /\ TargetReached
  /\ ReapDeadWorkers
  /\ Goto(c, IF pc[c] = "await_removed" THEN "idle" ELSE "set_stopped")
  /\ UNCHANGED <<state, counts, idle_count, pending_task_count_max, queue, monitors,
                 locals, ghosts>>

\* StopImpl(join).  The caller that changes the state removes the workers; one
\* that finds another Stop or Join under way goes on to set STOPPED.
StopImpl(c, join) ==
  /\ MayCall(c, IF join THEN "Join" ELSE "Stop")
  /\ MutexFree
  /\ state # "STOPPED"
  /\ LET do_stop == state \notin {"STOPPING", "JOINING"}
     IN /\ state' = IF ~do_stop THEN state ELSE IF join THEN "JOINING" ELSE "STOPPING"
        /\ Goto(c, IF do_stop THEN "stop_read" ELSE "set_stopped")
        /\ owed' = IF do_stop /\ join /\ worker_count > 0
                   THEN {tasks[i] : i \in 1..Len(tasks)} ELSE owed
  /\ UNCHANGED <<counts, idle_count, pending_task_count_max, queue, registry,
                 monitors, locals, due, reported, forfeited>>

\* worker_count_ is read with no lock held as the argument of RemoveWorker.
StopReadCount(c) ==
  /\ pc[c] = "stop_read"
  /\ reg' = [reg EXCEPT ![c] = worker_count]
  /\ Goto(c, "stop_remove")
  /\ UNCHANGED <<manager, monitors, task, offers, starting, ghosts>>

StopRemoveWorkers(c) ==
  /\ pc[c] = "stop_remove"
  /\ LowerTarget(reg[c])
  /\ Goto(c, "await_stopped")

\* RemoveWorker throws InvalidArgumentException out of Stop or Join.
StopThrows(c) ==
  /\ pc[c] = "stop_remove"
  /\ MutexFree
  /\ reg[c] > worker_max_count
  /\ Goto(c, "idle")
  /\ UNCHANGED <<manager, monitors, locals, ghosts>>

StopSetStopped(c) ==
  /\ pc[c] = "set_stopped"
  /\ MutexFree
  /\ state' = "STOPPED"
  /\ Goto(c, "idle")
  /\ UNCHANGED <<counts, idle_count, pending_task_count_max, queue, registry,
                 monitors, locals, ghosts>>

-----------------------------------------------------------------------------
(* Worker::Run.                                                            *)

\* Mutant: JOINING does not keep workers at a queue that is not empty.
IsWanted == worker_count <= worker_max_count

IsActive ==
  \/ worker_count <= worker_max_count
  \/ state = "JOINING" /\ tasks # <<>>

\* The first block: a thread beyond the target is inactive from the start.
WorkerBegin(w) ==
  /\ pc[w] = "starting"
  /\ MutexFree
  /\ reg' = [reg EXCEPT ![w] = worker_count]
  /\ Goto(w, IF worker_count < worker_max_count THEN "counting" ELSE "leaving")
  /\ UNCHANGED <<manager, monitors, task, offers, starting, ghosts>>

WorkerCount(w) ==
  /\ pc[w] = "counting"
  /\ worker_count' = Increment(reg[w])
  /\ Goto(w, "counted")
  /\ UNCHANGED <<state, worker_max_count, idle_count, pending_task_count_max, queue,
                 registry, monitors, locals, ghosts>>

\* Mutant: the manager is not told that the last worker has started.
WorkerCountedQuietly(w) ==
  /\ pc[w] = "counted"
  /\ Goto(w, "loop")
  /\ UNCHANGED <<manager, monitors, locals, ghosts>>

WorkerCounted(w) ==
  /\ pc[w] = "counted"
  /\ Goto(w, IF worker_count = worker_max_count THEN "notifying" ELSE "loop")
  /\ UNCHANGED <<manager, monitors, locals, ghosts>>

WorkerNotifyStarted(w) ==
  /\ pc[w] = "notifying"
  /\ WorkerMutexFree
  /\ worker_monitor' \in Notified(worker_monitor)
  /\ Goto(w, "loop")
  /\ UNCHANGED <<manager, monitor, max_monitor, locals, ghosts>>

\* The worker has mutex_ and is about to evaluate IsActive: at the top of the
\* loop, or woken from monitor_.Wait().
AtQueue(w) == pc[w] = "loop" \/ (pc[w] = "waiting" /\ w \notin monitor)

\* Mutant: the decrement after monitor_.Wait() is missing.
IdleCountAsleep(w) == idle_count

\* idle_count_ once the woken worker has decremented it.
IdleCountAwake(w) == IF pc[w] = "waiting" THEN idle_count - 1 ELSE idle_count

WorkerWait(w) ==
  /\ AtQueue(w)
  /\ MutexFree
  /\ IsActive /\ tasks = <<>>
  /\ idle_count' = IdleCountAwake(w) + 1
  /\ monitor' = monitor \cup {w}
  /\ Goto(w, "waiting")
  /\ UNCHANGED <<state, counts, pending_task_count_max, queue, registry,
                 max_monitor, worker_monitor, locals, ghosts>>

WorkerLeave(w) ==
  /\ AtQueue(w)
  /\ MutexFree
  /\ ~IsActive
  /\ idle_count' = IdleCountAwake(w)
  /\ Goto(w, "leaving")
  /\ UNCHANGED <<state, counts, pending_task_count_max, queue, registry, monitors,
                 locals, ghosts>>

\* Mutant: "==" for "<=", as if every turn freed one slot.
OneSlotFree(q) ==
  /\ pending_task_count_max # 0
  /\ Len(q) = pending_task_count_max - 1

\* A worker that leaves this queue behind wakes one blocked Add.
SlotFree(q) ==
  /\ pending_task_count_max # 0
  /\ Len(q) <= pending_task_count_max - 1

\* Mutant: the newest task first.
TakeNewest(w, n) ==
  /\ n < Len(tasks)
  /\ tasks' = SubSeq(tasks, n + 1, Len(tasks) - 1)
  /\ status' = [StatusWithout(n) EXCEPT ![tasks[Len(tasks)]] = "executing"]
  /\ task' = [task EXCEPT ![w] = tasks[Len(tasks)]]
  /\ Goto(w, "running")

\* Pop the task behind the n that have expired.
Take(w, n) ==
  /\ n < Len(tasks)
  /\ tasks' = Remaining(n + 1)
  /\ status' = [StatusWithout(n) EXCEPT ![tasks[n + 1]] = "executing"]
  /\ task' = [task EXCEPT ![w] = tasks[n + 1]]
  /\ Goto(w, "running")

\* All of them have expired: the worker goes round its loop.
TakeNothing(w, n) ==
  /\ n = Len(tasks)
  /\ tasks' = <<>>
  /\ status' = StatusWithout(n)
  /\ Goto(w, "loop")
  /\ UNCHANGED task

\* Remove the expired tasks, pop one if any is left, wake one blocked Add.
WorkerTake(w) ==
  /\ AtQueue(w)
  /\ MutexFree
  /\ IsActive /\ tasks # <<>>
  /\ idle_count' = IdleCountAwake(w)
  /\ \E n \in 0..Len(tasks) :
       /\ RemoveExpiredTasks(n)
       /\ expired_count' = expired_count + n
       /\ Take(w, n) \/ TakeNothing(w, n)
  /\ max_monitor' \in IF SlotFree(tasks') THEN Notified(max_monitor) ELSE {max_monitor}
  /\ forfeited' = {}
  /\ UNCHANGED <<state, counts, pending_task_count_max, registry, monitor,
                 worker_monitor, reg, offers, starting, due, owed, reported>>

\* task->Run() returns, or throws: Worker::Run catches everything.
WorkerFinish(w) ==
  /\ pc[w] = "running"
  /\ \E result \in {"complete", "failed"} :
       status' = [status EXCEPT ![task[w]] = result]
  /\ task' = [task EXCEPT ![w] = None]
  /\ Goto(w, "loop")
  /\ UNCHANGED <<fields, expired_count, tasks, monitors, reg, offers, starting,
                 ghosts>>

\* The last block, under worker_monitor_'s mutex.
WorkerExit(w) ==
  /\ pc[w] = "leaving"
  /\ WorkerMutexFree
  /\ dead_workers' = dead_workers \cup {w}
  /\ reg' = [reg EXCEPT ![w] = worker_count]
  /\ Goto(w, "uncounting")
  /\ UNCHANGED <<state, counts, idle_count, pending_task_count_max, queue, workers,
                 id_map, monitors, task, offers, starting, ghosts>>

WorkerUncount(w) ==
  /\ pc[w] = "uncounting"
  /\ worker_count' = Decrement(reg[w])
  /\ Goto(w, "uncounted")
  /\ UNCHANGED <<state, worker_max_count, idle_count, pending_task_count_max, queue,
                 registry, monitors, locals, ghosts>>

WorkerExited(w) ==
  /\ pc[w] = "uncounted"
  /\ worker_monitor' \in IF worker_count = worker_max_count
                         THEN Notified(worker_monitor) ELSE {worker_monitor}
  /\ Goto(w, "exited")
  /\ UNCHANGED <<manager, monitor, max_monitor, locals, ghosts>>

-----------------------------------------------------------------------------

\* pthread_cond_wait may return without a signal.
SpuriousWakeup(t) ==
  /\ t \in monitor \cup max_monitor \cup worker_monitor
  /\ monitor' = monitor \ {t}
  /\ max_monitor' = max_monitor \ {t}
  /\ worker_monitor' = worker_monitor \ {t}
  /\ UNCHANGED <<manager, pc, locals, ghosts>>

Init ==
  /\ state = "UNINITIALIZED"
  /\ worker_count = 0 /\ worker_max_count = 0 /\ idle_count = 0
  /\ pending_task_count_max = 0 /\ expired_count = 0
  /\ tasks = <<>>
  /\ workers = {} /\ dead_workers = {} /\ id_map = {}
  /\ monitor = {} /\ max_monitor = {} /\ worker_monitor = {}
  /\ pc = [t \in Thread |-> IF t \in Caller THEN "idle" ELSE "none"]
  /\ reg = [t \in Thread |-> 0]
  /\ task = [w \in Worker |-> None]
  /\ adding = [t \in Thread |-> None]
  /\ timed = [t \in Thread |-> FALSE]
  /\ new_threads = [c \in Caller |-> {}]
  /\ inserting = [c \in Caller |-> None]
  /\ status = [k \in Task |-> "new"]
  /\ due = {} /\ owed = {} /\ reported = 0 /\ forfeited = {}

\* A caller starts a call ...
Call(c) ==
  \/ Start(c)
  \/ SimpleStart(c)
  \/ \E n \in WorkerCounts : AddWorker(c, n) \/ RemoveWorker(c, n)
  \/ \E join \in BOOLEAN : StopImpl(c, join)
  \/ RemoveNextPending(c)
  \/ ExpiredTaskCount(c)

\* ... and goes on with it.
Continue(c) ==
  \/ SimpleImplStart(c)
  \/ SimpleAddWorker(c)
  \/ \E w \in Worker : StartWorker(c, w)
  \/ InsertId(c)
  \/ AwaitWorkers(c)
  \/ AddWorkerReturn(c)
  \/ RemoveWorkerReturn(c)
  \/ StopReadCount(c)
  \/ StopRemoveWorkers(c)
  \/ StopThrows(c)
  \/ StopSetStopped(c)

\* Add, called by either kind of thread.
Offer(t) ==
  \E k \in Task :
    \/ AddPush(t, k)
    \/ \E timeout \in Timeouts : AddBlock(t, k, timeout) \/ AddThrows(t, k, timeout)

Wakeup(t) == AddResume(t) \/ AddTimedOut(t)

Run(w) ==
  \/ WorkerBegin(w) \/ WorkerCount(w) \/ WorkerCounted(w) \/ WorkerNotifyStarted(w)
  \/ WorkerWait(w) \/ WorkerLeave(w) \/ WorkerTake(w) \/ WorkerFinish(w)
  \/ WorkerExit(w) \/ WorkerUncount(w) \/ WorkerExited(w)

Next ==
  \/ \E c \in Caller : Call(c) \/ Continue(c)
  \/ \E t \in Thread : Offer(t) \/ Wakeup(t) \/ SpuriousWakeup(t)
  \/ \E w \in Worker : Run(w)
  \/ \E k \in Task : Expire(k)

Spec == Init /\ [][Next]_vars

\* Every thread that can go on with a call or with Worker::Run does so: the
\* threads are preemptively scheduled pthreads, and tasks return.  No timer has to
\* fire.
FairSpec ==
  /\ Spec
  /\ \A c \in Caller : WF_vars(Continue(c)) /\ WF_vars(AddResume(c))
  /\ \A w \in Worker : WF_vars(Run(w)) /\ WF_vars(AddResume(w))

-----------------------------------------------------------------------------
(* Properties.                                                             *)

Idle == {w \in Worker : pc[w] = "waiting"}

\* idle_count_ counts exactly the workers between the increment before
\* monitor_.Wait() and the decrement after it, and only they sleep on monitor_.
\* Add relies on it to decide whether to notify, RemoveWorker for how often.
IdleCountExact == idle_count = Cardinality(Idle) /\ monitor \subseteq Idle

\* The implementation's queue and tasks, seen as TaskPool's: an Add that sleeps
\* has not been answered, and a task that threw has finished as well.
OutcomeOf(x) ==
  CASE x = "offered" -> "new"
    [] x = "executing" -> "running"
    [] x \in {"complete", "failed"} -> "finished"
    [] OTHER -> x

Outcome == [k \in Task |-> OutcomeOf(status[k])]

Pool == INSTANCE TaskPool WITH queue <- tasks, outcome <- Outcome

\* The thread manager implements TaskPool: every accepted task leaves the queue
\* in FIFO order and has one outcome, whatever threads race with whatever calls.
ImplementsTaskPool == Pool!Spec

\* The queued tasks are the pending ones, each queued once: no task that was run,
\* has expired, or was handed back by RemoveNextPending comes up again.
QueuedOnce == Pool!PendingOnce

\* However many Adds wake up at once, the queue never exceeds
\* pending_task_count_max_: a woken Add looks at the size again.
QueueBounded ==
  pending_task_count_max > 0 => Len(tasks) <= pending_task_count_max

\* No wakeup is lost between Add and Worker::Run: while a worker sleeps on
\* monitor_, as many workers as there are queued tasks are on their way to the
\* queue, so no task waits for a busy worker while another one sleeps.
SleepersHaveNoWork ==
  monitor # {} => Cardinality({w \in Worker : AtQueue(w)}) >= Len(tasks)

\* The Thread of a worker that is still running is never reaped from workers_.
LiveWorkersRegistered ==
  \A w \in Worker : pc[w] \notin {"none", "exited"} => w \in workers

\* A started thread is inside Worker::Run and uses its manager.
Live(w) == pc[w] \notin {"none", "created", "exited"}

\* When RemoveWorker returns to Stop or Join no worker is left that could touch
\* the manager, which ~Impl then destroys.
StoppedPoolIsQuiet ==
  (\E c \in Caller : pc[c] = "set_stopped") => \A w \in Worker : ~Live(w)

\* When Join of a pool with workers has removed them, every task that was queued
\* when it was called has left the queue and has been run or has expired.
JoinDrains ==
  \A c \in Caller : pc[c] = "set_stopped" /\ state = "JOINING" =>
    \A k \in owed : status[k] \in {"complete", "failed", "expired", "returned"}

\* Every task that expires is counted once, whichever thread finds it: what the calls
\* of ExpiredTaskCount return adds up, with what is yet to be reported, to the tasks
\* that were dropped.
ExpiredCountedOnce ==
  expired_count + reported = Cardinality({k \in Task : status[k] = "expired"})

\* A task that a worker runs never sleeps in Add on the queue it is to empty.
NoWorkerSleepsInAdd == \A w \in Worker : pc[w] # "add_wait"

\* TotalTaskCount never misses a task that is queued or being run, though it
\* is computed from worker_count_ and idle_count_.
TotalTaskCountCovers ==
  TotalTaskCount >= Cardinality({k \in Task : status[k] \in {"pending", "executing"}})

\* RemoveNextPending takes a task only from a manager that is started, as the
\* message of the exception it throws says.
ReturnedWhileStarted ==
  [][\A k \in Task : status[k] = "pending" /\ status'[k] = "returned"
                     => state = "STARTED"]_vars

\* A task whose expire time has passed is never started.
DueTasksNeverStart ==
  [][\A k \in Task : status[k] # "executing" /\ status'[k] = "executing"
                     => k \notin due]_vars

\* AddWorker returns: the last worker to start finds the target reached and its
\* notification is not lost.
AddWorkerReturns ==
  \A c \in Caller : pc[c] = "start_workers" ~> pc[c] = "idle"

\* Stop and Join return, and from a stopped manager: every worker notices that the
\* target is zero, and RemoveWorker does not throw the count that Stop has read.
StopReturns ==
  \A c \in Caller : pc[c] = "stop_read" ~> pc[c] = "idle" /\ state = "STOPPED"

\* While the pool is neither stopped nor shrunk, every accepted task is started
\* or expires.
TasksServed ==
  \A k \in Task : status[k] = "pending" ~> status[k] # "pending"

\* ... and every Add that found the queue full returns or throws, though one Notify
\* answers for however many slots became free.  What can take a slot from it for good
\* is another Add that is woken and times out all the same, if no worker comes to the
\* queue any more.
BlockedAddReturns ==
  \/ \A t \in Thread : pc[t] = "add_wait" ~> pc[t] # "add_wait"
  \/ <>[](forfeited # {})

=============================================================================
