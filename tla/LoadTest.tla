------------------------------ MODULE LoadTest ------------------------------
(***************************************************************************)
(* LoadTest of src/threads/thread_manager_unittest.cc on the thread        *)
(* manager it tests: the test adds its tasks to a SimpleThreadManager      *)
(* without a bound, waits for the last one to count itself down, and lets  *)
(* the manager go, whose destructor stops it.                              *)
(***************************************************************************)
EXTENDS ThreadManager

CONSTANT ctl    \* the thread that runs the test

ASSUME LoadTestAssumption ==
  Caller = {ctl} /\ PendingTaskCountMax = 0 /\ Expiring = {} /\ IsFiniteSet(Task)

VARIABLES test,         \* where LoadTest is
          tasks_left,
          asleep,       \* whether the test sleeps on its monitor
          ended         \* the tasks that have counted themselves down

local == <<test, tasks_left, asleep, ended>>
allVars == <<vars, local>>

LoadInit ==
  /\ Init
  /\ test = "start" /\ tasks_left = Cardinality(Task) /\ asleep = FALSE
  /\ ended = {}

\* A step of the manager or of one of its threads; LoadTask::Run returns after it has
\* counted down, and does not throw.
PoolStep(A) ==
  /\ A
  /\ \A w \in Worker : pc[w] = "running" /\ pc'[w] # "running" => task[w] \in ended
  /\ \A k \in Task : status'[k] # "failed"
  /\ UNCHANGED local

-----------------------------------------------------------------------------
(* LoadTask::Run.                                                          *)

\* Mutant: the count is compared before it is decremented.
CountDownLate(w) ==
  /\ pc[w] = "running" /\ task[w] \notin ended
  /\ ended' = ended \cup {task[w]}
  /\ tasks_left' = tasks_left - 1
  /\ asleep' = (asleep /\ tasks_left # 0)
  /\ UNCHANGED <<vars, test>>

\* After the sleep: count down, and notify the test of the last one.
CountDown(w) ==
  /\ pc[w] = "running" /\ task[w] \notin ended
  /\ ended' = ended \cup {task[w]}
  /\ tasks_left' = tasks_left - 1
  /\ asleep' = (asleep /\ tasks_left' # 0)
  /\ UNCHANGED <<vars, test>>

-----------------------------------------------------------------------------
(* LoadTest.                                                               *)

TestStart ==
  /\ test = "start"
  /\ SimpleStart(ctl)
  /\ test' = "add"
  /\ UNCHANGED <<tasks_left, asleep, ended>>

\* The tasks are added in the order of their addresses.
TestAdd ==
  /\ test = "add"
  /\ \E k \in Task : AddPush(ctl, k)
  /\ test' = IF \A k \in Task : status'[k] # "new" THEN "wait" ELSE "add"
  /\ UNCHANGED <<tasks_left, asleep, ended>>

\* Mutant: "if" for "while".
TestWaitOnce ==
  /\ test \in {"wait", "waited"} /\ ~asleep
  /\ test' = IF tasks_left > 0 /\ test = "wait" THEN "waited" ELSE "stop"
  /\ asleep' = (tasks_left > 0 /\ test = "wait")
  /\ UNCHANGED <<vars, tasks_left, ended>>

\* while (tasks_left > 0) monitor.Wait().
TestWait ==
  /\ test = "wait" /\ ~asleep
  /\ test' = IF tasks_left > 0 THEN "wait" ELSE "stop"
  /\ asleep' = (tasks_left > 0)
  /\ UNCHANGED <<vars, tasks_left, ended>>

TestSpuriousWakeup == asleep /\ asleep' = FALSE /\ UNCHANGED <<vars, test, tasks_left, ended>>

\* The last shared_ptr to the manager goes: ~Impl calls Stop.
TestStop ==
  /\ test = "stop"
  /\ StopImpl(ctl, FALSE)
  /\ test' = "stopping"
  /\ UNCHANGED <<tasks_left, asleep, ended>>

TestReturn ==
  /\ test = "stopping" /\ pc[ctl] = "idle"
  /\ test' = "returned"
  /\ UNCHANGED <<vars, tasks_left, asleep, ended>>

Test == TestStart \/ TestAdd \/ TestWait \/ TestStop \/ TestReturn

-----------------------------------------------------------------------------

Work(w) == CountDown(w) \/ PoolStep(Run(w))

LoadNext ==
  \/ Test \/ TestSpuriousWakeup
  \/ PoolStep(Continue(ctl))
  \/ \E w \in Worker : Work(w) \/ PoolStep(SpuriousWakeup(w))
  \/ PoolStep(SpuriousWakeup(ctl))

\* The threads that can go on do.
LoadSpec ==
  /\ LoadInit /\ [][LoadNext]_allVars
  /\ WF_allVars(Test) /\ WF_allVars(PoolStep(Continue(ctl)))
  /\ \A w \in Worker : WF_allVars(Work(w))

-----------------------------------------------------------------------------
(* Properties.                                                             *)

\* LoadTest returns: no task is left in the queue, the last count down reaches the
\* test, and the manager's destructor finds every worker.
LoadTestReturns == <>(test = "returned")

\* Past its wait LoadTest reads times that every task has written, and the tasks never
\* use the monitor and the counter on its stack again.
LoadTestSeesAll == test \in {"stop", "stopping", "returned"} => ended = Task

\* When the destructor of the manager has returned, every task has been run once, to
\* its end: Stop leaves nothing behind, though it does not drain the queue.
LoadTestRanAll ==
  test = "returned" => \A k \in Task : status[k] = "complete"
=============================================================================
