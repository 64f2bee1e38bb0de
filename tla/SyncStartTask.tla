--------------------------- MODULE SyncStartTask ---------------------------
(***************************************************************************)
(* SyncStartTaskTest of src/threads/simple_thread_factory_unittest.cc: a   *)
(* thread and its SyncStartTask start and stop each other over a Monitor.  *)
(* The test holds one reference to a SimpleThread; the other owners of     *)
(* SimpleThread's instance may join it or hold on to it meanwhile.         *)
(*                                                                         *)
(* holder has the monitor's mutex between two steps; a block that ends     *)
(* with Wait gives it back in the same step.                               *)
(***************************************************************************)
EXTENDS SimpleThread

CONSTANTS starter,   \* the owner that runs the test
          None

ASSUME StarterAssumption == starter \in Owner /\ None \notin Owner \cup {Main}

VARIABLES task_state,         \* the test's "state", which the task shares
          holder, sleepers,   \* the monitor: its mutex, and who waits on it
          task, test          \* where SyncStartTask::Run and SyncStartTaskTest are

local == <<task_state, holder, sleepers, task, test>>
allVars == <<vars, local>>

SyncInit ==
  /\ Init
  /\ task_state = "UNINITIALIZED"
  /\ holder = None /\ sleepers = {}
  /\ task = "start" /\ test = "begin"

Awake(x) == holder = None /\ x \notin sleepers

\* The state changes and is notified, if it is "from".
Change(from, to, notified) ==
  \/ task_state = from /\ task_state' = to /\ sleepers' \in notified
  \/ task_state # from /\ UNCHANGED <<task_state, sleepers>>

Notify == IF sleepers = {} THEN {{}} ELSE {sleepers \ {x} : x \in sleepers}

-----------------------------------------------------------------------------
(* SyncStartTask::Run.                                                     *)

\* Mutant: the test is not told that the task has started.
TaskStartedQuietly ==
  /\ pc[Main] = "running" /\ task = "start" /\ Awake(Main)
  /\ Change("STARTING", "STARTED", {sleepers})
  /\ holder' = Main /\ task' = "unlock_started"
  /\ UNCHANGED <<vars, test>>

\* The first block ...
TaskStarted ==
  /\ pc[Main] = "running" /\ task = "start" /\ Awake(Main)
  /\ Change("STARTING", "STARTED", Notify)
  /\ holder' = Main /\ task' = "unlock_started"
  /\ UNCHANGED <<vars, test>>

\* ... and the second, which waits while the state is STARTED ...
TaskWait ==
  /\ task = "run" /\ Awake(Main)
  /\ task_state = "STARTED"
  /\ sleepers' = sleepers \cup {Main}
  /\ UNCHANGED <<vars, task_state, holder, task, test>>

\* Mutant: the mutex is given back before the test is told.
TaskStoppedUnlocked ==
  /\ task = "run" /\ Awake(Main)
  /\ task_state # "STARTED"
  /\ Change("STOPPING", "STOPPED", {{}})
  /\ task' = "unlock_stopped"
  /\ UNCHANGED <<vars, holder, test>>

TaskStopped ==
  /\ task = "run" /\ Awake(Main)
  /\ task_state # "STARTED"
  /\ Change("STOPPING", "STOPPED", {{}})
  /\ holder' = Main /\ task' = "unlock_stopped"
  /\ UNCHANGED <<vars, test>>

TaskUnlock ==
  /\ task \in {"unlock_started", "unlock_stopped"}
  /\ holder' = None
  /\ task' = IF task = "unlock_started" THEN "run" ELSE "done"
  /\ UNCHANGED <<vars, task_state, sleepers, test>>

Task == TaskStarted \/ TaskWait \/ TaskStopped \/ TaskUnlock

-----------------------------------------------------------------------------
(* SyncStartTaskTest.                                                      *)

TestBegin ==
  /\ test = "begin" /\ state # "none" /\ task_state = "UNINITIALIZED"
  /\ task_state' = "STARTING"
  /\ test' = "start"
  /\ UNCHANGED <<vars, holder, sleepers, task>>

TestStart ==
  /\ test = "start"
  /\ Start(starter)
  /\ test' = "await_started"
  /\ UNCHANGED <<task_state, holder, sleepers, task>>

\* A block that waits while the state is "value".
TestAwait(from, value, to) ==
  /\ test = from /\ pc[starter] = "idle" /\ Awake(starter)
  /\ test' = IF task_state = value THEN from ELSE to
  /\ sleepers' = IF task_state = value THEN {starter} \cup sleepers ELSE sleepers
  /\ UNCHANGED <<vars, task_state, holder, task>>

\* monitor.Wait(100) ...
TestPause ==
  /\ test = "pause" /\ holder = None
  /\ sleepers' = sleepers \cup {starter}
  /\ test' = "paused"
  /\ UNCHANGED <<vars, task_state, holder, task>>

\* ... times out or is woken.  The task, the only other one that can be asleep, is
\* told to stop, and the test waits for it.
TestStop ==
  /\ test = "paused" /\ holder = None
  /\ Change("STARTED", "STOPPING", {{starter}})
  /\ test' = "await_stopped"
  /\ UNCHANGED <<vars, holder, task>>

Test ==
  \/ TestBegin \/ TestStart \/ TestAwait("await_started", "STARTING", "pause")
  \/ TestPause \/ TestStop \/ TestAwait("await_stopped", "STOPPING", "returned")

-----------------------------------------------------------------------------

\* Run returns once the task is done, and the test lets go of the thread when it
\* returns; what the other owners do is SimpleThread's.
ThreadBody == (pc[Main] = "running" => task = "done") /\ Body /\ UNCHANGED local

OwnerStep(o) ==
  /\ \/ Configure(o) \/ Continue(o)
     \/ o # starter /\ Call(o)
     \/ o = starter /\ test = "returned" /\ Release(o)
  /\ UNCHANGED local

SpuriousWakeup(x) ==
  /\ x \in sleepers
  /\ sleepers' = sleepers \ {x}
  /\ UNCHANGED <<vars, task_state, holder, task, test>>

SyncNext ==
  \/ ThreadBody \/ Task \/ Test
  \/ \E o \in Owner : OwnerStep(o) \/ SpuriousWakeup(o)
  \/ SpuriousWakeup(Main)

\* Threads that can go on do, and the timed wait ends.
SyncSpec ==
  /\ SyncInit /\ [][SyncNext]_allVars
  /\ WF_allVars(ThreadBody) /\ WF_allVars(Task) /\ WF_allVars(Test)
  /\ \A o \in Owner : WF_allVars(Continue(o) /\ UNCHANGED local)

-----------------------------------------------------------------------------
(* Properties.                                                             *)

\* The test returns, unless the pthread could not be created: neither of the two
\* notifies the other before it waits.
SyncStartReturns == test = "start" ~> test = "returned" \/ pc[Main] = "failed"

\* When the test returns, and the Monitor and the state on its stack are gone, the
\* task has left both for good and has stopped, as the test's last assertion says.
TaskLeftMonitor == test = "returned" => task = "done" /\ task_state = "STOPPED"

\* A Join returns, or meets a pthread that does not exist: it waits for Run, Run for
\* the test, and the test never for whoever joins.
JoinReturns == \A o \in Owner : pc[o] = "join" ~> pc[o] # "join"
=============================================================================
