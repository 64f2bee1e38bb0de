--------------------------- MODULE LoadTestProofs ---------------------------
(***************************************************************************)
(* Proofs about LoadTest: the test drives a thread manager, so that what   *)
(* ControlledPoolProofs shows holds here, and it ends with every task run. *)
(***************************************************************************)
EXTENDS LoadTest, ControlledPoolProofs

\* tasks_left counts the tasks that are still to count themselves down, and the test
\* goes past its wait when there are none.
LeftInv ==
  /\ ended \subseteq Task
  /\ tasks_left = Cardinality(Task \ ended)
  /\ test \in {"stop", "stopping", "returned"} => tasks_left = 0

\* A task that has counted down is in its last steps or complete, and when Stop has
\* returned to the test no worker is left.
RanInv ==
  /\ \A k \in ended : status[k] \in {"executing", "complete"}
  /\ test = "stopping" =>
       pc[ctl] \in {"stop_read", "stop_remove", "await_stopped", "set_stopped", "idle"}
  /\ (test = "stopping" /\ pc[ctl] = "idle") \/ test = "returned" =>
       pc[ctl] = "idle" /\ \A w \in Worker : ~Live(w)

-----------------------------------------------------------------------------
(* The test and its tasks are a thread manager.                            *)

\* The test is a caller, and the only one.
LEMMA TestIsCaller == ctl \in Caller /\ ctl \in Thread /\ \A d \in Caller : d = ctl
BY LoadTestAssumption DEF Thread

\* Every step of the test, of its tasks and of the manager under it is a step of the
\* manager or leaves it alone.
LEMMA LoadStepIsPoolStep == [LoadNext]_allVars => [Next]_vars
<1> SUFFICES ASSUME [LoadNext]_allVars PROVE [Next]_vars
  OBVIOUS
<1> USE TestIsCaller
<1>1. CASE TestStart BY <1>1 DEF TestStart, Next, Call
<1>2. CASE TestAdd BY <1>2 DEF TestAdd, Next, Offer
<1>3. CASE TestWait \/ TestReturn \/ TestSpuriousWakeup \/ \E w \in Worker : CountDown(w)
  BY <1>3 DEF TestWait, TestReturn, TestSpuriousWakeup, CountDown
<1>4. CASE TestStop BY <1>4 DEF TestStop, Next, Call
<1>5. CASE PoolStep(Continue(ctl)) \/ PoolStep(SpuriousWakeup(ctl))
  BY <1>5 DEF PoolStep, Next
<1>6. CASE \E w \in Worker : PoolStep(Run(w)) \/ PoolStep(SpuriousWakeup(w))
  BY <1>6 DEF PoolStep, Next, Thread
<1>7. CASE UNCHANGED allVars BY <1>7 DEF allVars
<1> QED BY <1>1, <1>2, <1>3, <1>4, <1>5, <1>6, <1>7 DEF LoadNext, Test, Work

\* LoadTest uses the thread manager as ThreadManager specifies it.
THEOREM LoadImplementsManager == LoadSpec => Spec
<1>1. LoadInit => Init BY DEF LoadInit
<1> QED BY <1>1, LoadStepIsPoolStep, PTL DEF LoadSpec, Spec

-----------------------------------------------------------------------------
(* The count of the tasks that are left.                                   *)

\* Every step keeps the count exact.
LEMMA LeftStep ==
  ASSUME TaskInv, LeftInv, [LoadNext]_allVars
  PROVE  LeftInv'
<1>t. IsFiniteSet(Task \ ended) /\ Cardinality(Task \ ended) \in Nat
  BY LoadTestAssumption, FS_Difference, FS_Subset, FS_CardinalityType
<1>1. CASE \E w \in Worker : CountDown(w)
  <2>1. PICK w \in Worker : CountDown(w) BY <1>1
  <2>2. task[w] \in Task \ ended
    BY <2>1 DEF CountDown, TaskInv, RunsInv, Busy
  <2>3. /\ ended' = ended \cup {task[w]} /\ tasks_left' = tasks_left - 1 /\ test' = test
    BY <2>1 DEF CountDown
  <2>4. Task \ ended' = (Task \ ended) \ {task[w]} BY <2>3
  <2>5. Cardinality((Task \ ended) \ {task[w]}) = Cardinality(Task \ ended) - 1
    BY <1>t, <2>2, FS_RemoveElement
  <2>6. Task \ ended # {} BY <2>2
  <2>7. Cardinality(Task \ ended) # 0 BY <1>t, <2>6, FS_EmptySet
  <2>8. test \notin {"stop", "stopping", "returned"} BY <2>7 DEF LeftInv
  <2>9. tasks_left' = Cardinality(Task \ ended') BY <2>3, <2>4, <2>5 DEF LeftInv
  <2> QED BY <2>2, <2>3, <2>8, <2>9 DEF LeftInv
<1>2. CASE TestWait
  BY <1>t, <1>2 DEF TestWait, LeftInv
<1>3. CASE \/ TestStart \/ TestAdd \/ TestStop \/ TestReturn \/ TestSpuriousWakeup
           \/ PoolStep(Continue(ctl)) \/ PoolStep(SpuriousWakeup(ctl))
           \/ (\E w \in Worker : PoolStep(Run(w)) \/ PoolStep(SpuriousWakeup(w)))
           \/ UNCHANGED allVars
  BY <1>3
  DEF TestStart, TestAdd, TestStop, TestReturn, TestSpuriousWakeup, PoolStep, allVars,
      local, LeftInv
<1> QED BY <1>1, <1>2, <1>3 DEF LoadNext, Test, Work

\* When LoadTest goes past its wait every task has counted itself down: none of them
\* uses the monitor and the counter on the test's stack again.
THEOREM LoadTestWaits == LoadSpec => []LoadTestSeesAll
<1>1. LoadInit => LeftInv
  <2>1. Task \ {} = Task OBVIOUS
  <2> QED BY <2>1 DEF LoadInit, LeftInv
<1>2. TaskInv /\ LeftInv /\ [LoadNext]_allVars => LeftInv'
  BY LeftStep
<1>3. ASSUME LeftInv
      PROVE  LoadTestSeesAll
  <2>1. IsFiniteSet(Task \ ended)
    BY LoadTestAssumption, FS_Difference
  <2>2. Cardinality(Task \ ended) = 0 => Task \ ended = {} BY <2>1, FS_EmptySet
  <2> QED BY <1>3, <2>2 DEF LeftInv, LoadTestSeesAll
<1> QED BY <1>1, <1>2, <1>3, LoadImplementsManager, TaskInvariant, PTL DEF LoadSpec

-----------------------------------------------------------------------------
(* The end of the test.                                                    *)

\* A task that is executed or complete can only go on executing, complete or fail.
LEMMA ExecutedMoves ==
  ASSUME TypeInv, TaskInv, [Next]_vars, NEW k \in Task,
         status[k] \in {"executing", "complete"}
  PROVE  status'[k] \in {"executing", "complete", "failed"}
<1>1. [Pool!Next]_Pool!vars BY PoolMoves
<1>2. /\ tasks \in Seq(Task) /\ Len(tasks) \in Nat
      /\ \A i \in 1..Len(tasks) : tasks[i] \in Task /\ tasks[i] # k
  <2>1. tasks \in Seq(Task) BY DEF TaskInv, Holds
  <2>2. \A i \in 1..Len(tasks) : status[tasks[i]] = "pending" BY DEF TaskInv, Holds
  <2>3. Len(tasks) \in Nat /\ \A i \in 1..Len(tasks) : tasks[i] \in Task BY <2>1
  <2> QED BY <2>1, <2>2, <2>3
<1>3. Outcome[k] \in {"running", "finished"} BY DEF Outcome, OutcomeOf
<1>4. \A n \in 0..Len(tasks) : Pool!Expired(n)[k] = Outcome[k]
  <2> SUFFICES ASSUME NEW n \in 0..Len(tasks) PROVE Pool!Expired(n)[k] = Outcome[k]
    OBVIOUS
  <2>1. \A i \in 1..n : tasks[i] # k BY <1>2
  <2> QED BY <2>1 DEF Pool!Expired
<1>5. DOMAIN Outcome = Task /\ \A n \in Nat : DOMAIN Pool!Expired(n) = Task
  BY DEF Outcome, Pool!Expired
<1>6. Outcome'[k] \in {"running", "finished"}
  <2>1. CASE UNCHANGED Pool!vars BY <1>3, <2>1 DEF Pool!vars
  <2>2. ASSUME NEW n \in 0..Len(tasks), Pool!Discard(n) \/ Pool!Dispatch(n)
        PROVE  Outcome'[k] \in {"running", "finished"}
    BY <1>2, <1>3, <1>4, <1>5, <2>2 DEF Pool!Discard, Pool!Dispatch
  <2>3. ASSUME NEW n \in 0..Len(tasks), NEW j \in Task, Pool!Accept(n, j) \/ Pool!Reject(n, j)
        PROVE  Outcome'[k] \in {"running", "finished"}
    <3>1. j # k BY <1>3, <2>3 DEF Pool!Accept, Pool!Reject
    <3> QED BY <1>2, <1>3, <1>4, <1>5, <2>3, <3>1 DEF Pool!Accept, Pool!Reject
  <2>4. ASSUME NEW j \in Task, Pool!Finish(j)
        PROVE  Outcome'[k] \in {"running", "finished"}
    BY <1>3, <1>5, <2>4 DEF Pool!Finish
  <2>5. CASE Pool!HandBack
    <3>1. tasks # <<>> /\ Head(tasks) = tasks[1] /\ 1 \in 1..Len(tasks)
      BY <1>2, <2>5, EmptySeq DEF Pool!HandBack
    <3>2. Head(tasks) # k BY <1>2, <3>1
    <3> QED BY <1>3, <1>5, <2>5, <3>2 DEF Pool!HandBack
  <2> QED BY <1>1, <2>1, <2>2, <2>3, <2>4, <2>5 DEF Pool!Next
<1>7. Outcome'[k] = OutcomeOf(status'[k]) BY DEF Outcome
<1>8. status'[k] \in Statuses
  <2>1. TypeOK' BY TypeStep
  <2> QED BY <2>1 DEF TypeOK
<1> QED BY <1>6, <1>7, <1>8 DEF OutcomeOf, Statuses

\* In LoadTest no task fails.
NoneFailed == \A k \in Task : status[k] # "failed"

\* Every step keeps the tasks from failing.
LEMMA NoneFailedStep ==
  ASSUME TypeInv, NoneFailed, [LoadNext]_allVars
  PROVE  NoneFailed'
<1> USE DEF manager, fields, counts, queue, registry, monitors, locals,
            offers, starting, ghosts
<1>1. CASE TestAdd
  <2>1. PICK k \in Task : AddPush(ctl, k) BY <1>1 DEF TestAdd
  <2>2. PICK n \in 0..Len(tasks) : Push(k, n) BY <2>1 DEF AddPush
  <2> QED BY <2>2 DEF Push, StatusWithout, NoneFailed
<1>2. CASE TestStart BY <1>2 DEF TestStart, SimpleStart, NoneFailed
<1>3. CASE TestStop BY <1>3 DEF TestStop, StopImpl, NoneFailed
<1>4. CASE TestWait \/ TestReturn \/ TestSpuriousWakeup \/ (\E w \in Worker : CountDown(w))
           \/ UNCHANGED allVars
  BY <1>4
  DEF TestWait, TestReturn, TestSpuriousWakeup, CountDown, allVars, vars, NoneFailed
<1>5. CASE \/ PoolStep(Continue(ctl)) \/ PoolStep(SpuriousWakeup(ctl))
           \/ \E w \in Worker : PoolStep(Run(w)) \/ PoolStep(SpuriousWakeup(w))
  BY <1>5 DEF PoolStep, NoneFailed
<1> QED BY <1>1, <1>2, <1>3, <1>4, <1>5 DEF LoadNext, Test, Work

\* Every step keeps the tasks on their way and the stopped pool quiet.
LEMMA RanStep ==
  ASSUME Owner(ctl), TypeInv, TaskInv, ControlInv(ctl), StoppedPoolIsQuiet,
         LeftInv, NoneFailed, NoneFailed', RanInv, [LoadNext]_allVars
  PROVE  RanInv'
<1> USE TestIsCaller, ThreadsAssumption
    DEF manager, fields, counts, queue, registry, monitors, locals,
        offers, starting, ghosts
<1>t. /\ pc \in [Thread -> CallerPCs \cup WorkerPCs] /\ Thread = Caller \cup Worker
      /\ worker_count \in Nat /\ worker_max_count \in Nat
      /\ \A w \in Worker : w # ctl
  BY SizesAssumption DEF TypeInv, TypeOK, Thread
<1>n. [Next]_vars BY LoadStepIsPoolStep
<1>e. ASSUME NEW k \in ended, k \in Task
      PROVE  status'[k] \in {"executing", "complete"}
  <2>1. status[k] \in {"executing", "complete"} BY DEF RanInv
  <2>2. status'[k] \in {"executing", "complete", "failed"} BY <1>n, <1>e, <2>1, ExecutedMoves
  <2> QED BY <1>e, <2>2 DEF NoneFailed
<1>k. ended' = ended => \A k \in ended' : status'[k] \in {"executing", "complete"}
  BY <1>e DEF LeftInv
<1>1. CASE \E w \in Worker : CountDown(w)
  <2>1. PICK w \in Worker : CountDown(w) BY <1>1
  <2>2. /\ ended' = ended \cup {task[w]} /\ UNCHANGED <<status, pc, test>>
        /\ status[task[w]] = "executing"
    BY <2>1 DEF CountDown, vars, TaskInv, RunsInv, Busy
  <2> QED BY <2>2 DEF RanInv, Live
<1>2. CASE TestStart \/ TestAdd
  <2>1. test' \in {"add", "wait"} /\ ended' = ended BY <1>2 DEF TestStart, TestAdd
  <2> QED BY <1>k, <2>1 DEF RanInv
<1>3. CASE TestWait
  <2>1. test' \in {"stop", "wait"} /\ ended' = ended BY <1>3 DEF TestWait
  <2> QED BY <1>k, <2>1 DEF RanInv
<1>4. CASE TestStop
  <2>1. /\ test' = "stopping" /\ ended' = ended
        /\ pc'[ctl] \in {"stop_read", "set_stopped"}
    BY <1>t, <1>4 DEF TestStop, StopImpl, Goto
  <2> QED BY <1>k, <2>1 DEF RanInv
<1>5. CASE TestReturn
  <2>1. /\ test = "stopping" /\ pc[ctl] = "idle" /\ test' = "returned"
        /\ UNCHANGED <<ended, pc>>
    BY <1>5 DEF TestReturn, vars
  <2> QED BY <1>k, <2>1 DEF RanInv, Live
<1>6. CASE TestSpuriousWakeup \/ UNCHANGED allVars
  BY <1>6 DEF TestSpuriousWakeup, allVars, local, vars, RanInv, Live
<1>7. CASE PoolStep(SpuriousWakeup(ctl)) \/ \E w \in Worker : PoolStep(SpuriousWakeup(w))
  <2>1. UNCHANGED <<test, ended, pc>> BY <1>7 DEF PoolStep, SpuriousWakeup, local
  <2> QED BY <1>k, <2>1 DEF RanInv, Live
<1>8. CASE \E w \in Worker : PoolStep(Run(w))
  <2>1. PICK w \in Worker : PoolStep(Run(w)) BY <1>8
  <2>2. UNCHANGED <<test, ended>> /\ Run(w) BY <2>1 DEF PoolStep, local
  <2>3. Live(w) /\ pc'[ctl] = pc[ctl]
    BY <1>t, <2>2
    DEF Run, WorkerBegin, WorkerCount, WorkerCounted, WorkerNotifyStarted, WorkerWait,
        WorkerLeave, WorkerTake, Take, TakeNothing, WorkerFinish, WorkerExit,
        WorkerUncount, WorkerExited, AtQueue, Goto, Live
  <2> QED BY <1>k, <2>2, <2>3 DEF RanInv
<1>9. CASE PoolStep(Continue(ctl))
  <2>1. UNCHANGED <<test, ended>> /\ Continue(ctl) BY <1>9 DEF PoolStep, local
  <2>2. pc[ctl] # "idle"
    BY <2>1
    DEF Continue, SimpleImplStart, SimpleAddWorker, StartWorker, InsertId, AwaitWorkers,
        AddWorkerReturn, RemoveWorkerReturn, StopReadCount, StopRemoveWorkers,
        StopThrows, StopSetStopped, Awaiting
  <2>3. test # "returned" BY <2>2 DEF RanInv
  <2>4. CASE test # "stopping" BY <1>k, <2>1, <2>3, <2>4 DEF RanInv
  <2>5. CASE test = "stopping"
    <3>1. pc[ctl] \in {"stop_read", "stop_remove", "await_stopped", "set_stopped"}
      BY <2>2, <2>5 DEF RanInv
    <3>2. ~StopThrows(ctl)
      <4>1. pc[ctl] = "stop_remove" => reg[ctl] = worker_count /\ worker_count <= worker_max_count
        BY <1>t, WorkersFinite DEF ControlInv, PhaseInv
      <4> QED BY <1>t, <4>1 DEF StopThrows
    <3>3. \/ pc'[ctl] \in {"stop_remove", "await_stopped", "set_stopped"}
          \/ StopSetStopped(ctl)
      <4>1. ctl \in DOMAIN pc BY <1>t
      <4>2. CASE AwaitWorkers(ctl) BY <3>1, <4>2 DEF AwaitWorkers, Awaiting
      <4>3. CASE RemoveWorkerReturn(ctl)
        <5>1. pc' = [pc EXCEPT ![ctl] = "set_stopped"]
          BY <3>1, <4>3 DEF RemoveWorkerReturn, Goto
        <5> QED BY <4>1, <5>1
      <4>4. CASE StopReadCount(ctl) BY <4>1, <4>4 DEF StopReadCount, Goto
      <4>5. CASE StopRemoveWorkers(ctl) BY <4>1, <4>5 DEF StopRemoveWorkers, Goto
      <4>6. /\ ~SimpleImplStart(ctl) /\ ~SimpleAddWorker(ctl) /\ ~InsertId(ctl)
            /\ ~AddWorkerReturn(ctl) /\ \A w \in Worker : ~StartWorker(ctl, w)
        BY <3>1
        DEF SimpleImplStart, SimpleAddWorker, InsertId, AddWorkerReturn, StartWorker
      <4> QED BY <2>1, <3>2, <4>2, <4>3, <4>4, <4>5, <4>6 DEF Continue
    <3>4. CASE StopSetStopped(ctl)
      <4>1. pc[ctl] = "set_stopped" /\ pc' = [pc EXCEPT ![ctl] = "idle"]
        BY <3>4 DEF StopSetStopped, Goto
      <4>2. \A w \in Worker : ~Live(w) BY <4>1 DEF StoppedPoolIsQuiet
      <4>3. pc'[ctl] = "idle" /\ \A w \in Worker : pc'[w] = pc[w] BY <1>t, <4>1
      <4> QED BY <1>k, <2>1, <2>5, <4>2, <4>3 DEF RanInv, Live
    <3>5. CASE pc'[ctl] \in {"stop_remove", "await_stopped", "set_stopped"}
      BY <1>k, <2>1, <2>5, <3>5 DEF RanInv
    <3> QED BY <3>3, <3>4, <3>5
  <2> QED BY <2>4, <2>5
<1> QED
  BY <1>1, <1>2, <1>3, <1>4, <1>5, <1>6, <1>7, <1>8, <1>9 DEF LoadNext, Test, Work

\* When the manager's destructor has returned to LoadTest, every task has been run to
\* its end: Stop, which does not drain the queue, leaves nothing behind.
THEOREM LoadTestRunsAll ==
  ASSUME "RemoveWorker" \notin Calls[ctl]
  PROVE  LoadSpec => []LoadTestRanAll
<1>o. Owner(ctl) BY TestIsCaller DEF Owner
<1>c. Spec => []ControlInv(ctl)
  <2>1. Init => ControlInv(ctl) BY <1>o, TestIsCaller, ControlInit
  <2>2. TypeInv /\ ControlInv(ctl) /\ [Next]_vars => ControlInv(ctl)'
    BY <1>o, TestIsCaller, ControlStep
  <2> QED BY <2>1, <2>2, TypeInvariant, PTL DEF Spec
<1>q. Spec => []StoppedPoolIsQuiet BY <1>o, TestIsCaller, StoppedQuiet
<1>1. LoadInit => LeftInv
  <2>1. Task \ {} = Task OBVIOUS
  <2> QED BY <2>1 DEF LoadInit, LeftInv
<1>2. TaskInv /\ LeftInv /\ [LoadNext]_allVars => LeftInv'
  BY LeftStep
<1>3. LoadInit => NoneFailed /\ RanInv
  BY DEF LoadInit, Init, NoneFailed, RanInv
<1>4. TypeInv /\ NoneFailed /\ [LoadNext]_allVars => NoneFailed'
  BY NoneFailedStep
<1>5. TypeInv /\ TaskInv /\ ControlInv(ctl) /\ StoppedPoolIsQuiet /\ LeftInv
        /\ NoneFailed /\ NoneFailed' /\ RanInv /\ [LoadNext]_allVars => RanInv'
  BY <1>o, RanStep
<1>6. ASSUME RunnersInv, LoadTestSeesAll, RanInv
      PROVE  LoadTestRanAll
  <2> SUFFICES ASSUME test = "returned", NEW k \in Task
               PROVE  status[k] = "complete"
    BY DEF LoadTestRanAll
  <2>1. k \in ended BY <1>6 DEF LoadTestSeesAll
  <2>2. status[k] # "executing" BY <1>6 DEF RanInv, RunnersInv, Live, Busy
  <2> QED BY <1>6, <2>1, <2>2 DEF RanInv
<1> QED
  BY <1>c, <1>q, <1>1, <1>2, <1>3, <1>4, <1>5, <1>6, LoadImplementsManager, LoadTestWaits,
     TypeInvariant, TaskInvariant, RunnersInvariant, PTL DEF LoadSpec
=============================================================================
