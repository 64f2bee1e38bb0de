--------------------------- MODULE BlockTaskTest ---------------------------
(***************************************************************************)
(* BlockTaskTest of src/threads/thread_manager_unittest.cc on the thread   *)
(* manager it tests.  The tasks of two groups, as many as there are        *)
(* workers and as fit into the queue, wait on bmonitor until the test      *)
(* notifies them, and count their group down; an extra task is to be       *)
(* refused while they wait, and accepted later.                            *)
(*                                                                         *)
(* Add makes a new Task of the extra runnable each time, so the three      *)
(* calls offer three tasks.                                                *)
(***************************************************************************)
EXTENDS ThreadManager

\* Group0 has one task per worker and Group1 one per slot of the queue; Task is the
\* two groups and the extra task.
CONSTANTS ctl,                      \* the thread that runs the test, the only Caller
          Group0, Group1,           \* the tasks of active_counts[0] and [1]
          extra1, extra2, extra3    \* the extra task, of active_counts[2]

Extra == {extra1, extra2, extra3}

VARIABLES test,                 \* where BlockTaskTest is
          asleep,               \* whether it sleeps on its monitor
          bmonitor,             \* the workers asleep on bmonitor
          woken, counted        \* the tasks past bmonitor_.Wait(), past the count down

local == <<test, asleep, bmonitor, woken, counted>>
allVars == <<vars, local>>

\* active_counts[i] of the group once the tasks in done have counted down.
ActiveCount(group, done) ==
  (IF group = Extra THEN 1 ELSE Cardinality(group)) - Cardinality(group \cap done)

BlockInit ==
  /\ Init
  /\ test = "start" /\ asleep = FALSE
  /\ bmonitor = {} /\ woken = {} /\ counted = {}

\* A step of the manager or of one of its threads; BlockTask::Run returns after it has
\* counted down, and does not throw.
PoolStep(A) ==
  /\ A
  /\ \A w \in Worker : pc[w] = "running" /\ pc'[w] # "running" => task[w] \in counted
  /\ \A k \in Task : status'[k] # "failed"
  /\ UNCHANGED local

-----------------------------------------------------------------------------
(* BlockTask::Run.                                                         *)

\* bmonitor_.Wait(), whether or not the test has notified already ...
TaskWait(w) ==
  /\ pc[w] = "running" /\ task[w] \notin woken
  /\ bmonitor' = bmonitor \cup {w}
  /\ woken' = woken \cup {task[w]}
  /\ UNCHANGED <<vars, test, asleep, counted>>

\* ... then the count down.
CountDown(w) ==
  /\ pc[w] = "running" /\ task[w] \in woken \ counted /\ w \notin bmonitor
  /\ counted' = counted \cup {task[w]}
  /\ asleep' = (asleep /\ \A group \in {Group0, Group1, Extra} :
                            task[w] \in group => ActiveCount(group, counted') # 0)
  /\ UNCHANGED <<vars, test, bmonitor, woken>>

-----------------------------------------------------------------------------
(* BlockTaskTest.                                                          *)

At(from, to) == test = from /\ pc[ctl] = "idle" /\ test' = to

TestStart == At("start", "add") /\ SimpleStart(ctl) /\ UNCHANGED <<asleep, bmonitor, woken, counted>>

\* The two groups are added in the order of their tasks' addresses.
TestAdd ==
  /\ \E k \in Group0 \cup Group1 : AddPush(ctl, k) \/ AddBlock(ctl, k, "forever")
  /\ At("add", IF \A k \in Group0 \cup Group1 : status'[k] # "new" THEN "check" ELSE "add")
  /\ UNCHANGED <<asleep, bmonitor, woken, counted>>

TestCheck(from, expected, to) ==
  /\ At(from, IF TotalTaskCount = expected THEN to ELSE "failed")
  /\ UNCHANGED <<vars, asleep, bmonitor, woken, counted>>

\* Add(extra_task, 1).  mutex_ is free: the Guard does not time out.
TestOffer(from, k, to) ==
  /\ At(from, to)
  /\ AddPush(ctl, k) \/ AddBlock(ctl, k, "timed")
  /\ UNCHANGED <<asleep, bmonitor, woken, counted>>

\* Whether it was accepted, as the test expects the second time, or not, as the first.
TestOffered(from, k, refused, to) ==
  /\ At(from, IF (status[k] = "rejected") = refused THEN to ELSE "failed")
  /\ UNCHANGED <<vars, asleep, bmonitor, woken, counted>>

\* Add(extra_task, -1) throws TooManyPendingTasksException when the queue is full.
TestTry ==
  /\ At("try", IF Full(0) THEN "notify0" ELSE "failed")
  /\ AddPush(ctl, extra2) \/ (Full(0) /\ AddThrows(ctl, extra2, "try"))
  /\ UNCHANGED <<asleep, bmonitor, woken, counted>>

TestNotifyAll(from, to) ==
  /\ At(from, to)
  /\ bmonitor' = {}
  /\ UNCHANGED <<vars, asleep, woken, counted>>

\* while (active_counts[i] != 0) monitor.Wait().
TestWait(from, group, to) ==
  /\ ~asleep
  /\ At(from, IF ActiveCount(group, counted) # 0 THEN from ELSE to)
  /\ asleep' = (ActiveCount(group, counted) # 0)
  /\ UNCHANGED <<vars, bmonitor, woken, counted>>

Test ==
  \/ TestStart \/ TestAdd
  \/ TestCheck("check", PendingTaskCountMax + SimpleWorkerCount, "offer1")
  \/ TestOffer("offer1", extra1, "offered1")
  \/ TestOffered("offered1", extra1, TRUE, "try")
  \/ TestTry
  \/ TestNotifyAll("notify0", "wait0") \/ TestWait("wait0", Group0, "offer3")
  \/ TestOffer("offer3", extra3, "offered3")
  \/ TestOffered("offered3", extra3, FALSE, "notify1")
  \/ TestNotifyAll("notify1", "wait1") \/ TestWait("wait1", Group1, "notify2")
  \/ TestNotifyAll("notify2", "wait2") \/ TestWait("wait2", Extra, "last_check")
  \/ TestCheck("last_check", 0, "success")

-----------------------------------------------------------------------------

Work(w) == TaskWait(w) \/ CountDown(w) \/ PoolStep(Run(w))

Resume == PoolStep(Continue(ctl) \/ Wakeup(ctl))

BlockNext == Test \/ Resume \/ \E w \in Worker : Work(w)

\* Threads that can go on do, and a timed wait ends.
BlockSpec ==
  /\ BlockInit /\ [][BlockNext]_allVars
  /\ WF_allVars(Test) /\ WF_allVars(Resume)
  /\ \A w \in Worker : WF_allVars(Work(w))

-----------------------------------------------------------------------------
(* Properties.                                                             *)

\* BlockTaskTest of thread_manager_unittest.cc gets to its end, or throws one of its
\* Exceptions on the way: its TEST expects it to return true.
BlockTaskTestReturns == <>(test \in {"success", "failed"})
=============================================================================
