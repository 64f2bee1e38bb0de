------------------------- MODULE ThreadManagerProofs -------------------------
(***************************************************************************)
(* Proofs about ThreadManager, for every set of threads and tasks, every   *)
(* assignment of calls to threads and every bound.                         *)
(***************************************************************************)
EXTENDS ThreadManager, FiniteSetTheorems, SequenceTheorems, TLAPS

\* A thread asleep in Add, or about to resume, has a task to push.
AddersHaveTasks == \A t \in Thread : pc[t] = "add_wait" => adding[t] \in Task

\* The threads in AddWorker's new_threads have not been started, by any caller.
NewThreadsCreated ==
  /\ \A c \in Caller : \A w \in new_threads[c] : pc[w] = "created"
  /\ \A c, d \in Caller : c # d => new_threads[c] \cap new_threads[d] = {}

\* TypeOK is not inductive: idle_count_-- needs to know that the worker was
\* counted, Add's push that there is something to push, and Thread::Start that
\* the thread it starts is not already at the queue.
TypeInv == TypeOK /\ IdleCountExact /\ AddersHaveTasks /\ NewThreadsCreated

-----------------------------------------------------------------------------
(* Helpers.                                                                *)

\* Notify only removes threads from a monitor.
LEMMA NotifiedSubset ==
  ASSUME NEW S, NEW R \in Notified(S)
  PROVE  R \subseteq S
BY DEF Notified

\* So does any number of calls of Notify.
LEMMA NotifiedTimesSubset ==
  ASSUME NEW S, NEW n, NEW R \in NotifiedTimes(S, n)
  PROVE  R \subseteq S
BY DEF NotifiedTimes

\* Removing the expired prefix of the queue leaves a queue.
LEMMA RemainingType ==
  ASSUME TypeOK, NEW n \in 0..Len(tasks)
  PROVE  /\ Remaining(n) \in Seq(Task)
         /\ Len(Remaining(n)) = Len(tasks) - n
         /\ \A i \in 1..Len(Remaining(n)) : Remaining(n)[i] = tasks[i + n]
<1>1. tasks \in Seq(Task) BY DEF TypeOK
<1>2. Len(tasks) \in Nat BY <1>1
<1>3. CASE n + 1 <= Len(tasks)
  BY <1>1, <1>2, <1>3, SubSeqProperties DEF Remaining
<1>4. CASE n + 1 > Len(tasks)
  BY <1>1, <1>2, <1>4, SubSeqProperties DEF Remaining
<1> QED BY <1>2, <1>3, <1>4

\* The statuses after RemoveExpiredTasks are statuses.
LEMMA StatusWithoutType ==
  ASSUME TypeOK, NEW n \in 0..Len(tasks)
  PROVE  StatusWithout(n) \in [Task -> Statuses]
BY DEF TypeOK, StatusWithout, Statuses

\* A step that moves no worker into or out of monitor_.Wait() keeps the count.
LEMMA SameIdle ==
  ASSUME IdleCountExact, idle_count' = idle_count, monitor' \subseteq monitor,
         \A w \in Worker : pc'[w] = "waiting" <=> pc[w] = "waiting"
  PROVE  IdleCountExact'
<1>1. Idle' = Idle BY DEF Idle
<1> QED BY <1>1 DEF IdleCountExact

-----------------------------------------------------------------------------
(* Types and the idle count.                                               *)

\* A manager that has just been constructed satisfies the invariant.
LEMMA TypeInit == Init => TypeInv
<1> SUFFICES ASSUME Init PROVE TypeInv
  OBVIOUS
<1> USE ThreadsAssumption, SizesAssumption
<1>1. TypeOK
  BY DEF Init, TypeOK, States, CallerPCs, WorkerPCs, Statuses, Thread
<1>2. IdleCountExact
  <2>1. Idle = {} BY DEF Init, Idle, Thread
  <2> QED BY <2>1, FS_EmptySet DEF Init, IdleCountExact
<1>3. AddersHaveTasks BY DEF Init, AddersHaveTasks
<1>4. NewThreadsCreated BY DEF Init, NewThreadsCreated
<1> QED BY <1>1, <1>2, <1>3, <1>4 DEF TypeInv

\* A worker inside monitor_.Wait() is one of those that idle_count_ counts.
LEMMA WaitingIsCounted ==
  ASSUME TypeInv, NEW w \in Worker, pc[w] = "waiting"
  PROVE  /\ idle_count - 1 \in Nat
         /\ Cardinality(Idle \ {w}) = idle_count - 1
<1>1. IsFiniteSet(Idle) BY FS_Subset, ThreadsAssumption DEF Idle
<1>2. IsFiniteSet(Idle \ {w}) /\ Cardinality(Idle \ {w}) = Cardinality(Idle) - 1
  BY <1>1, FS_RemoveElement DEF Idle
<1>3. Cardinality(Idle \ {w}) \in Nat BY <1>2, FS_CardinalityType
<1> QED BY <1>2, <1>3 DEF TypeInv, IdleCountExact

\* Every step keeps every variable's type.
LEMMA TypeStep ==
  ASSUME TypeInv, [Next]_vars
  PROVE  TypeOK'
<1> USE ThreadsAssumption, SizesAssumption
    DEF TypeInv, TypeOK, States, CallerPCs, WorkerPCs, Statuses, Thread,
        manager, fields, counts, queue, registry, monitors, locals, offers,
        starting, ghosts
<1>1. ASSUME NEW c \in Caller, Start(c)
      PROVE  TypeOK'
  BY <1>1 DEF Start, ImplStart
<1>2. ASSUME NEW c \in Caller, SimpleStart(c)
      PROVE  TypeOK'
  BY <1>2 DEF SimpleStart, Goto
<1>3. ASSUME NEW c \in Caller, SimpleImplStart(c)
      PROVE  TypeOK'
  BY <1>3 DEF SimpleImplStart, ImplStart, Goto
<1>4. ASSUME NEW c \in Caller, NEW value \in Nat, pc[c] \in {"idle", "simple_add"}, RegisterWorkers(c, value)
      PROVE  TypeOK'
  BY <1>4 DEF RegisterWorkers
<1>5. ASSUME NEW c \in Caller, NEW w \in Worker, StartWorker(c, w)
      PROVE  TypeOK'
  BY <1>5 DEF StartWorker, Goto
<1>6. ASSUME NEW c \in Caller, InsertId(c)
      PROVE  TypeOK'
  BY <1>6 DEF InsertId, Goto
<1>7. ASSUME NEW c \in Caller, AwaitWorkers(c)
      PROVE  TypeOK'
  BY <1>7 DEF AwaitWorkers
<1>8. ASSUME NEW c \in Caller, AddWorkerReturn(c)
      PROVE  TypeOK'
  BY <1>8 DEF AddWorkerReturn, Goto
<1>9. ASSUME NEW c \in Caller, NEW value \in Nat, RemoveWorker(c, value)
      PROVE  TypeOK'
  BY <1>9, NotifiedTimesSubset DEF RemoveWorker, LowerTarget, Goto
<1>10. ASSUME NEW c \in Caller, RemoveWorkerReturn(c)
      PROVE  TypeOK'
  BY <1>10 DEF RemoveWorkerReturn, ReapDeadWorkers, Goto
<1>11. ASSUME NEW c \in Caller, NEW join \in BOOLEAN, StopImpl(c, join)
      PROVE  TypeOK'
  BY <1>11 DEF StopImpl, Goto
<1>12. ASSUME NEW c \in Caller, StopReadCount(c)
      PROVE  TypeOK'
  BY <1>12 DEF StopReadCount, Goto
<1>13. ASSUME NEW c \in Caller, StopRemoveWorkers(c)
      PROVE  TypeOK'
  BY <1>13, NotifiedTimesSubset DEF StopRemoveWorkers, LowerTarget, Goto
<1>14. ASSUME NEW c \in Caller, StopThrows(c)
      PROVE  TypeOK'
  BY <1>14 DEF StopThrows, Goto
<1>15. ASSUME NEW c \in Caller, StopSetStopped(c)
      PROVE  TypeOK'
  BY <1>15 DEF StopSetStopped, Goto
<1>16. ASSUME NEW c \in Caller, RemoveNextPending(c)
      PROVE  TypeOK'
  BY <1>16 DEF RemoveNextPending
<1>17. ASSUME NEW c \in Caller, ExpiredTaskCount(c)
      PROVE  TypeOK'
  BY <1>17 DEF ExpiredTaskCount
<1>18. ASSUME NEW t \in Thread, NEW k \in Task, AddPush(t, k)
      PROVE  TypeOK'
  BY <1>18, NotifiedSubset, RemainingType, StatusWithoutType DEF AddPush, Push
<1>19. ASSUME NEW t \in Thread, NEW k \in Task, NEW timeout, AddBlock(t, k, timeout)
      PROVE  TypeOK'
  BY <1>19, RemainingType, StatusWithoutType DEF AddBlock, Goto
<1>20. ASSUME NEW t \in Thread, NEW k \in Task, NEW timeout, AddThrows(t, k, timeout)
      PROVE  TypeOK'
  BY <1>20, RemainingType, StatusWithoutType DEF AddThrows
<1>21. ASSUME NEW t \in Thread, AddResume(t)
      PROVE  TypeOK'
  <2>1. pc[t] = "add_wait" BY <1>21 DEF AddResume
  <2>2. adding[t] \in Task BY <2>1 DEF AddersHaveTasks
  <2>3. Append(Remaining(0), adding[t]) \in Seq(Task)
    BY <2>2, RemainingType, AppendProperties
  <2>4. StatusWithout(0) \in [Task -> Statuses] /\ Len(tasks) \in Nat
    BY StatusWithoutType
  <2>5. CASE Full(0) /\ max_monitor' = max_monitor \cup {t}
    BY <1>21, <2>5 DEF AddResume
  <2>6. CASE Push(adding[t], 0) /\ AddReturn(t) /\ UNCHANGED max_monitor
    BY <1>21, <2>2, <2>3, <2>4, <2>6, NotifiedSubset
    DEF AddResume, AddReturn, Push, Goto
  <2> QED BY <1>21, <2>5, <2>6 DEF AddResume
<1>22. ASSUME NEW t \in Thread, AddTimedOut(t)
      PROVE  TypeOK'
  <2>1. [status EXCEPT ![adding[t]] = "rejected"] \in [Task -> Statuses] OBVIOUS
  <2> QED BY <1>22, <2>1 DEF AddTimedOut, AddReturn, Goto
<1>23. ASSUME NEW w \in Worker, WorkerBegin(w)
      PROVE  TypeOK'
  BY <1>23 DEF WorkerBegin, Goto
<1>24. ASSUME NEW w \in Worker, WorkerCount(w)
      PROVE  TypeOK'
  BY <1>24 DEF WorkerCount, Goto, Increment
<1>25. ASSUME NEW w \in Worker, WorkerCounted(w)
      PROVE  TypeOK'
  BY <1>25 DEF WorkerCounted, Goto
<1>26. ASSUME NEW w \in Worker, WorkerNotifyStarted(w)
      PROVE  TypeOK'
  BY <1>26, NotifiedSubset DEF WorkerNotifyStarted, Goto
<1>27. ASSUME NEW w \in Worker, WorkerWait(w)
      PROVE  TypeOK'
  BY <1>27 DEF WorkerWait, AtQueue, IdleCountAwake, Goto
<1>28. ASSUME NEW w \in Worker, WorkerLeave(w)
      PROVE  TypeOK'
  BY <1>28, WaitingIsCounted DEF WorkerLeave, AtQueue, IdleCountAwake, Goto
<1>29. ASSUME NEW w \in Worker, WorkerTake(w)
      PROVE  TypeOK'
  <2>1. IdleCountAwake(w) \in Nat
    BY <1>29, WaitingIsCounted DEF WorkerTake, IdleCountAwake
  <2>2. PICK n \in 0..Len(tasks) : /\ expired_count' = expired_count + n
                                   /\ Take(w, n) \/ TakeNothing(w, n)
    BY <1>29 DEF WorkerTake
  <2>3. max_monitor' \subseteq max_monitor
    BY <1>29, NotifiedSubset DEF WorkerTake
  <2>4. CASE Take(w, n)
    <3>1. Remaining(n + 1) \in Seq(Task) /\ tasks[n + 1] \in Task
      BY <2>4, RemainingType DEF Take
    <3> QED
      BY <1>29, <2>1, <2>2, <2>3, <2>4, <3>1, StatusWithoutType
      DEF WorkerTake, Take, Goto
  <2>5. CASE TakeNothing(w, n)
    BY <1>29, <2>1, <2>2, <2>3, <2>5, StatusWithoutType
    DEF WorkerTake, TakeNothing, Goto
  <2> QED BY <2>2, <2>4, <2>5
<1>30. ASSUME NEW w \in Worker, WorkerFinish(w)
      PROVE  TypeOK'
  <2>1. PICK result \in {"complete", "failed"} :
          status' = [status EXCEPT ![task[w]] = result]
    BY <1>30 DEF WorkerFinish
  <2>2. status' \in [Task -> Statuses] BY <2>1
  <2> QED BY <1>30, <2>2 DEF WorkerFinish, Goto
<1>31. ASSUME NEW w \in Worker, WorkerExit(w)
      PROVE  TypeOK'
  BY <1>31 DEF WorkerExit, Goto
<1>32. ASSUME NEW w \in Worker, WorkerUncount(w)
      PROVE  TypeOK'
  BY <1>32 DEF WorkerUncount, Goto, Decrement
<1>33. ASSUME NEW w \in Worker, WorkerExited(w)
      PROVE  TypeOK'
  BY <1>33, NotifiedSubset DEF WorkerExited, Goto
<1>34. ASSUME NEW t \in Thread, SpuriousWakeup(t)
      PROVE  TypeOK'
  BY <1>34 DEF SpuriousWakeup
<1>35. ASSUME NEW k \in Task, Expire(k)
      PROVE  TypeOK'
  BY <1>35 DEF Expire
<1>36. CASE UNCHANGED vars BY <1>36 DEF vars
<1> HIDE DEF TypeInv, TypeOK
<1> QED
  BY <1>1, <1>2, <1>3, <1>4, <1>5, <1>6, <1>7, <1>8, <1>9, <1>10, <1>11,
     <1>12, <1>13, <1>14, <1>15, <1>16, <1>17, <1>18, <1>19, <1>20, <1>21,
     <1>22, <1>23, <1>24, <1>25, <1>26, <1>27, <1>28, <1>29, <1>30, <1>31,
     <1>32, <1>33, <1>34, <1>35, <1>36
  DEF Next, Call, Continue, Offer, Wakeup, Run, AddWorker, SimpleAddWorker, MayCall

\* Every step keeps idle_count_ exact.
LEMMA IdleStep ==
  ASSUME TypeInv, [Next]_vars
  PROVE  IdleCountExact'
<1> USE ThreadsAssumption
    DEF Thread, manager, fields, counts, queue, registry, monitors, locals,
        offers, starting, ghosts
<1>t. /\ IdleCountExact /\ NewThreadsCreated
      /\ IsFiniteSet(Idle) /\ idle_count \in Nat
      /\ pc \in [Thread -> CallerPCs \cup WorkerPCs]
  BY FS_Subset DEF TypeInv, TypeOK, Idle
<1>1. ASSUME NEW c \in Caller, Call(c)
      PROVE  IdleCountExact'
  <2>1. idle_count' = idle_count /\ monitor' \subseteq monitor
    BY <1>1, NotifiedTimesSubset
    DEF Call, Start, ImplStart, SimpleStart, AddWorker, RegisterWorkers, RemoveWorker,
        LowerTarget, StopImpl, RemoveNextPending, ExpiredTaskCount
  <2>2. \A w \in Worker : pc'[w] = "waiting" <=> pc[w] = "waiting"
    BY <1>t, <1>1
    DEF Call, Start, SimpleStart, AddWorker, RegisterWorkers, RemoveWorker,
        StopImpl, RemoveNextPending, ExpiredTaskCount, Goto
  <2> QED BY <1>t, <2>1, <2>2, SameIdle
<1>2. ASSUME NEW c \in Caller, Continue(c)
      PROVE  IdleCountExact'
  <2>1. idle_count' = idle_count /\ monitor' \subseteq monitor
    BY <1>2, NotifiedTimesSubset
    DEF Continue, SimpleImplStart, ImplStart, SimpleAddWorker, RegisterWorkers,
        StartWorker, InsertId, AwaitWorkers, AddWorkerReturn, RemoveWorkerReturn,
        StopReadCount, StopRemoveWorkers, LowerTarget, StopThrows, StopSetStopped
  <2>2. \A w \in Worker : pc'[w] = "waiting" <=> pc[w] = "waiting"
    <3>1. CASE \E v \in Worker : StartWorker(c, v)
      BY <1>t, <3>1 DEF StartWorker, NewThreadsCreated, Goto
    <3> QED
      BY <1>t, <1>2, <3>1
      DEF Continue, SimpleImplStart, SimpleAddWorker, RegisterWorkers, InsertId,
          AwaitWorkers, AddWorkerReturn, RemoveWorkerReturn, StopReadCount,
          StopRemoveWorkers, StopThrows, StopSetStopped, Goto
  <2> QED BY <1>t, <2>1, <2>2, SameIdle
<1>3. ASSUME NEW t \in Thread, Offer(t) \/ Wakeup(t) \/ SpuriousWakeup(t)
      PROVE  IdleCountExact'
  <2>1. idle_count' = idle_count /\ monitor' \subseteq monitor
    BY <1>3, NotifiedSubset
    DEF Offer, Wakeup, AddPush, Push, AddBlock, AddThrows, AddResume, AddTimedOut,
        SpuriousWakeup
  <2>2. \A w \in Worker : pc'[w] = "waiting" <=> pc[w] = "waiting"
    BY <1>t, <1>3
    DEF Offer, Wakeup, AddPush, AddBlock, AddThrows, AddResume, AddTimedOut,
        AddReturn, SpuriousWakeup, MayCall, Goto
  <2> QED BY <1>t, <2>1, <2>2, SameIdle
<1>4. ASSUME NEW w \in Worker, WorkerWait(w)
      PROVE  IdleCountExact'
  <2>1. monitor' \subseteq Idle' BY <1>t, <1>4 DEF WorkerWait, IdleCountExact, Idle, Goto
  <2>2. CASE pc[w] = "waiting"
    <3>1. Idle' = Idle BY <1>t, <1>4, <2>2 DEF WorkerWait, Idle, Goto
    <3> QED
      BY <1>t, <1>4, <2>1, <2>2, <3>1, WaitingIsCounted
      DEF WorkerWait, IdleCountAwake, IdleCountExact
  <2>3. CASE pc[w] # "waiting"
    <3>1. Idle' = Idle \cup {w} BY <1>t, <1>4 DEF WorkerWait, Idle, Goto
    <3>2. Cardinality(Idle') = Cardinality(Idle) + 1
      BY <1>t, <2>3, <3>1, FS_AddElement DEF Idle
    <3> QED
      BY <1>t, <1>4, <2>1, <2>3, <3>2 DEF WorkerWait, IdleCountAwake, IdleCountExact
  <2> QED BY <2>2, <2>3
<1>5. ASSUME NEW w \in Worker, WorkerLeave(w) \/ WorkerTake(w)
      PROVE  IdleCountExact'
  <2>1. /\ AtQueue(w) /\ idle_count' = IdleCountAwake(w) /\ monitor' = monitor
        /\ pc' = [pc EXCEPT ![w] = pc'[w]]
        /\ pc'[w] # "waiting"
    BY <1>t, <1>5 DEF WorkerLeave, WorkerTake, Take, TakeNothing, Goto
  <2>2. Idle' = Idle \ {w} BY <1>t, <2>1 DEF Idle
  <2>3. monitor' \subseteq Idle' BY <1>t, <2>1, <2>2 DEF AtQueue, IdleCountExact, Idle
  <2>4. CASE pc[w] = "waiting"
    BY <2>1, <2>2, <2>3, <2>4, WaitingIsCounted DEF IdleCountAwake, IdleCountExact
  <2>5. CASE pc[w] # "waiting"
    <3>1. Idle' = Idle BY <2>2, <2>5 DEF Idle
    <3> QED BY <1>t, <2>1, <2>3, <2>5, <3>1 DEF IdleCountAwake, IdleCountExact
  <2> QED BY <2>4, <2>5
<1>6. ASSUME NEW w \in Worker,
             \/ WorkerBegin(w) \/ WorkerCount(w) \/ WorkerCounted(w)
             \/ WorkerNotifyStarted(w) \/ WorkerFinish(w) \/ WorkerExit(w)
             \/ WorkerUncount(w) \/ WorkerExited(w)
      PROVE  IdleCountExact'
  <2>1. idle_count' = idle_count /\ monitor' \subseteq monitor
    BY <1>6
    DEF WorkerBegin, WorkerCount, WorkerCounted, WorkerNotifyStarted, WorkerFinish,
        WorkerExit, WorkerUncount, WorkerExited
  <2>2. \A v \in Worker : pc'[v] = "waiting" <=> pc[v] = "waiting"
    BY <1>t, <1>6
    DEF WorkerBegin, WorkerCount, WorkerCounted, WorkerNotifyStarted, WorkerFinish,
        WorkerExit, WorkerUncount, WorkerExited, Goto
  <2> QED BY <1>t, <2>1, <2>2, SameIdle
<1>7. ASSUME NEW k \in Task, Expire(k)
      PROVE  IdleCountExact'
  BY <1>t, <1>7, SameIdle DEF Expire
<1>8. CASE UNCHANGED vars
  BY <1>t, <1>8, SameIdle DEF vars
<1> QED
  BY <1>1, <1>2, <1>3, <1>4, <1>5, <1>6, <1>7, <1>8 DEF Next, Run

\* Only Add's own steps send a thread to sleep in Add or change what it adds.
LEMMA AddersStep ==
  ASSUME TypeInv, [Next]_vars
  PROVE  AddersHaveTasks'
<1> USE ThreadsAssumption
    DEF Thread, manager, fields, counts, queue, registry, monitors, locals,
        offers, starting, ghosts
<1>t. /\ AddersHaveTasks
      /\ pc \in [Thread -> CallerPCs \cup WorkerPCs]
      /\ adding \in [Thread -> Task \cup {None}]
  BY DEF TypeInv, TypeOK
<1>1. ASSUME NEW c \in Caller, Call(c) \/ Continue(c)
      PROVE  AddersHaveTasks'
  <2>1. adding' = adding
    BY <1>1
    DEF Call, Start, ImplStart, SimpleStart, AddWorker, RegisterWorkers, RemoveWorker,
        LowerTarget, StopImpl, RemoveNextPending, ExpiredTaskCount,
        Continue, SimpleImplStart, SimpleAddWorker, StartWorker, InsertId,
        AwaitWorkers, AddWorkerReturn, RemoveWorkerReturn, StopReadCount,
        StopRemoveWorkers, StopThrows, StopSetStopped
  <2>2. \A t \in Thread : pc'[t] = "add_wait" => pc[t] = "add_wait"
    BY <1>t, <1>1
    DEF Call, Start, SimpleStart, AddWorker, RegisterWorkers, RemoveWorker,
        StopImpl, RemoveNextPending, ExpiredTaskCount, Goto,
        Continue, SimpleImplStart, SimpleAddWorker, StartWorker, InsertId,
        AwaitWorkers, AddWorkerReturn, RemoveWorkerReturn, StopReadCount,
        StopRemoveWorkers, StopThrows, StopSetStopped
  <2> QED BY <1>t, <2>1, <2>2 DEF AddersHaveTasks
<1>2. ASSUME NEW t \in Thread, NEW k \in Task, NEW timeout, AddBlock(t, k, timeout)
      PROVE  AddersHaveTasks'
  BY <1>t, <1>2 DEF AddBlock, Goto, AddersHaveTasks
<1>3. ASSUME NEW t \in Thread, AddResume(t) \/ AddTimedOut(t)
      PROVE  AddersHaveTasks'
  BY <1>t, <1>3 DEF AddResume, AddTimedOut, AddReturn, Goto, AddersHaveTasks
<1>4. ASSUME NEW t \in Thread, NEW k \in Task, NEW timeout,
             AddPush(t, k) \/ AddThrows(t, k, timeout)
      PROVE  AddersHaveTasks'
  BY <1>t, <1>4 DEF AddPush, AddThrows, AddersHaveTasks
<1>5. ASSUME NEW w \in Worker, Run(w)
      PROVE  AddersHaveTasks'
  <2>1. adding' = adding /\ \A t \in Thread : pc'[t] = "add_wait" => pc[t] = "add_wait"
    BY <1>t, <1>5
    DEF Run, WorkerBegin, WorkerCount, WorkerCounted, WorkerNotifyStarted, WorkerWait,
        WorkerLeave, WorkerTake, Take, TakeNothing, WorkerFinish, WorkerExit,
        WorkerUncount, WorkerExited, Goto
  <2> QED BY <1>t, <2>1 DEF AddersHaveTasks
<1>6. CASE UNCHANGED vars BY <1>t, <1>6 DEF vars, AddersHaveTasks
<1>7. ASSUME NEW t \in Thread, SpuriousWakeup(t) PROVE AddersHaveTasks'
  BY <1>t, <1>7 DEF SpuriousWakeup, AddersHaveTasks
<1>8. ASSUME NEW k \in Task, Expire(k) PROVE AddersHaveTasks'
  BY <1>t, <1>8 DEF Expire, AddersHaveTasks
<1> QED
  BY <1>1, <1>2, <1>3, <1>4, <1>5, <1>6, <1>7, <1>8 DEF Next, Offer, Wakeup

\* A thread leaves "created" only as it leaves new_threads.
LEMMA CreatedStep ==
  ASSUME TypeInv, [Next]_vars
  PROVE  NewThreadsCreated'
<1> USE ThreadsAssumption
    DEF Thread, manager, fields, counts, queue, registry, monitors, locals,
        offers, starting, ghosts
<1>t. /\ NewThreadsCreated
      /\ pc \in [Thread -> CallerPCs \cup WorkerPCs]
      /\ new_threads \in [Caller -> SUBSET Worker]
  BY DEF TypeInv, TypeOK
<1>1. ASSUME NEW c \in Caller, NEW value, RegisterWorkers(c, value)
      PROVE  NewThreadsCreated'
  BY <1>t, <1>1 DEF RegisterWorkers, NewThreadsCreated
<1>2. ASSUME NEW c \in Caller, NEW w \in Worker, StartWorker(c, w)
      PROVE  NewThreadsCreated'
  BY <1>t, <1>2 DEF StartWorker, Goto, NewThreadsCreated
<1>3. ASSUME new_threads' = new_threads,
             \A w \in Worker : pc[w] = "created" => pc'[w] = "created"
      PROVE  NewThreadsCreated'
  BY <1>t, <1>3 DEF NewThreadsCreated
<1>4. ASSUME NEW c \in Caller,
             \/ Start(c) \/ SimpleStart(c) \/ (\E n \in WorkerCounts : RemoveWorker(c, n))
             \/ (\E join \in BOOLEAN : StopImpl(c, join))
             \/ RemoveNextPending(c) \/ ExpiredTaskCount(c)
             \/ SimpleImplStart(c) \/ InsertId(c) \/ AwaitWorkers(c)
             \/ AddWorkerReturn(c) \/ RemoveWorkerReturn(c) \/ StopReadCount(c)
             \/ StopRemoveWorkers(c) \/ StopThrows(c) \/ StopSetStopped(c)
      PROVE  NewThreadsCreated'
  BY <1>t, <1>3, <1>4
  DEF Start, ImplStart, SimpleStart, RemoveWorker, LowerTarget, StopImpl,
      RemoveNextPending, ExpiredTaskCount, SimpleImplStart, InsertId, AwaitWorkers,
      AddWorkerReturn, RemoveWorkerReturn, StopReadCount, StopRemoveWorkers,
      StopThrows, StopSetStopped, Goto
<1>5. ASSUME NEW t \in Thread, Offer(t) \/ Wakeup(t) \/ SpuriousWakeup(t)
      PROVE  NewThreadsCreated'
  BY <1>t, <1>3, <1>5
  DEF Offer, Wakeup, AddPush, AddBlock, AddThrows, AddResume, AddTimedOut,
      AddReturn, SpuriousWakeup, MayCall, Goto
<1>6. ASSUME NEW w \in Worker, Run(w)
      PROVE  NewThreadsCreated'
  BY <1>t, <1>3, <1>6
  DEF Run, WorkerBegin, WorkerCount, WorkerCounted, WorkerNotifyStarted, WorkerWait,
      WorkerLeave, WorkerTake, Take, TakeNothing, AtQueue, WorkerFinish, WorkerExit,
      WorkerUncount, WorkerExited, Goto
<1>7. ASSUME NEW k \in Task, Expire(k)
      PROVE  NewThreadsCreated'
  BY <1>3, <1>7 DEF Expire
<1>8. CASE UNCHANGED vars
  BY <1>3, <1>8 DEF vars
<1> QED
  BY <1>1, <1>2, <1>4, <1>5, <1>6, <1>7, <1>8
  DEF Next, Call, Continue, AddWorker, SimpleAddWorker

\* The inductive invariant behind the two theorems that follow.
THEOREM TypeInvariant == Spec => []TypeInv
<1>1. TypeInv /\ [Next]_vars => TypeInv'
  BY TypeStep, IdleStep, AddersStep, CreatedStep DEF TypeInv
<1> QED BY TypeInit, <1>1, PTL DEF Spec

\* Whatever calls race with whatever calls, every variable keeps its type.
THEOREM TypeCorrect == Spec => []TypeOK
<1>1. TypeInv => TypeOK BY DEF TypeInv
<1> QED BY TypeInvariant, <1>1, PTL

\* idle_count_ is the number of workers inside monitor_.Wait(), for every pool.
THEOREM IdleCountCorrect == Spec => []IdleCountExact
<1>1. TypeInv => IdleCountExact BY DEF TypeInv
<1> QED BY TypeInvariant, <1>1, PTL

-----------------------------------------------------------------------------
(* The registry of workers.                                                *)

\* What makes LiveWorkersRegistered inductive: a worker enters dead_workers_
\* inside the last block of Worker::Run, which holds worker_monitor_'s mutex.
DeadWorkersLeft == \A w \in dead_workers : pc[w] \in {"uncounting", "uncounted", "exited"}
RegistryInv == LiveWorkersRegistered /\ DeadWorkersLeft

\* Every step keeps workers_ and dead_workers_ in line with where the workers are:
\* only a worker that has left Run's loop is in dead_workers_, and is reaped.
LEMMA RegistryStep ==
  ASSUME TypeInv, RegistryInv, [Next]_vars
  PROVE  RegistryInv'
<1> USE ThreadsAssumption
    DEF Thread, manager, fields, counts, queue, registry, monitors, locals,
        offers, starting, ghosts, RegistryInv
<1>t. /\ NewThreadsCreated
      /\ pc \in [Thread -> CallerPCs \cup WorkerPCs]
      /\ new_threads \in [Caller -> SUBSET Worker]
      /\ workers \subseteq Worker /\ dead_workers \subseteq Worker
  BY DEF TypeInv, TypeOK
<1> DEFINE Left == {"uncounting", "uncounted", "exited"}
\* Most steps leave the registry alone and bring no thread to life.
<1>s. ASSUME workers' = workers, dead_workers' = dead_workers,
             \A w \in Worker : pc[w] \in {"none", "exited"} => pc'[w] \in {"none", "exited"},
             \A w \in Worker : pc[w] \in Left => pc'[w] \in Left
      PROVE  RegistryInv'
  BY <1>t, <1>s DEF LiveWorkersRegistered, DeadWorkersLeft
<1>1. ASSUME NEW c \in Caller, NEW value, RegisterWorkers(c, value)
      PROVE  RegistryInv'
  BY <1>t, <1>1 DEF RegisterWorkers, LiveWorkersRegistered, DeadWorkersLeft
<1>2. ASSUME NEW c \in Caller, NEW w \in Worker, StartWorker(c, w)
      PROVE  RegistryInv'
  BY <1>t, <1>s, <1>2 DEF StartWorker, Goto, NewThreadsCreated
<1>3. ASSUME NEW c \in Caller, RemoveWorkerReturn(c)
      PROVE  RegistryInv'
  <2>1. \A w \in dead_workers : pc[w] = "exited"
    BY <1>t, <1>3 DEF RemoveWorkerReturn, WorkerMutexFree, DeadWorkersLeft
  <2>2. \A w \in Worker : pc'[w] = pc[w]
    BY <1>t, <1>3 DEF RemoveWorkerReturn, Goto
  <2> QED
    BY <1>t, <1>3, <2>1, <2>2
    DEF RemoveWorkerReturn, ReapDeadWorkers, LiveWorkersRegistered, DeadWorkersLeft
<1>4. ASSUME NEW c \in Caller,
             \/ Start(c) \/ SimpleStart(c) \/ (\E n \in WorkerCounts : RemoveWorker(c, n))
             \/ (\E join \in BOOLEAN : StopImpl(c, join))
             \/ RemoveNextPending(c) \/ ExpiredTaskCount(c)
             \/ SimpleImplStart(c) \/ InsertId(c) \/ AwaitWorkers(c)
             \/ AddWorkerReturn(c) \/ StopReadCount(c)
             \/ StopRemoveWorkers(c) \/ StopThrows(c) \/ StopSetStopped(c)
      PROVE  RegistryInv'
  BY <1>t, <1>s, <1>4
  DEF Start, ImplStart, SimpleStart, RemoveWorker, LowerTarget, StopImpl,
      RemoveNextPending, ExpiredTaskCount, SimpleImplStart, InsertId, AwaitWorkers,
      AddWorkerReturn, StopReadCount, StopRemoveWorkers, StopThrows, StopSetStopped, Goto
<1>5. ASSUME NEW t \in Thread, Offer(t) \/ Wakeup(t) \/ SpuriousWakeup(t)
      PROVE  RegistryInv'
  BY <1>t, <1>s, <1>5
  DEF Offer, Wakeup, AddPush, AddBlock, AddThrows, AddResume, AddTimedOut,
      AddReturn, SpuriousWakeup, MayCall, Goto
<1>6. ASSUME NEW w \in Worker, WorkerExit(w)
      PROVE  RegistryInv'
  BY <1>t, <1>6 DEF WorkerExit, Goto, LiveWorkersRegistered, DeadWorkersLeft
<1>7. ASSUME NEW w \in Worker,
             \/ WorkerBegin(w) \/ WorkerCount(w) \/ WorkerCounted(w)
             \/ WorkerNotifyStarted(w) \/ WorkerWait(w) \/ WorkerLeave(w)
             \/ WorkerTake(w) \/ WorkerFinish(w)
      PROVE  RegistryInv'
  BY <1>t, <1>s, <1>7
  DEF WorkerBegin, WorkerCount, WorkerCounted, WorkerNotifyStarted, WorkerWait,
      WorkerLeave, WorkerTake, Take, TakeNothing, AtQueue, WorkerFinish, Goto
<1>8. ASSUME NEW w \in Worker, WorkerUncount(w) \/ WorkerExited(w)
      PROVE  RegistryInv'
  BY <1>t, <1>s, <1>8 DEF WorkerUncount, WorkerExited, Goto
<1>9. ASSUME NEW k \in Task, Expire(k)
      PROVE  RegistryInv'
  BY <1>s, <1>9 DEF Expire
<1>10. CASE UNCHANGED vars
  BY <1>s, <1>10 DEF vars
<1> HIDE DEF RegistryInv
<1> QED
  BY <1>1, <1>2, <1>3, <1>4, <1>5, <1>6, <1>7, <1>8, <1>9, <1>10
  DEF Next, Call, Continue, Run, AddWorker, SimpleAddWorker

\* No running worker's Thread is erased from workers_, though threads that resize
\* and stop the pool at the same time reap each other's workers.
THEOREM WorkersStayRegistered == Spec => []LiveWorkersRegistered
<1>1. Init => RegistryInv
  BY ThreadsAssumption DEF Init, RegistryInv, LiveWorkersRegistered, DeadWorkersLeft, Thread
<1>2. TypeInv /\ RegistryInv /\ [Next]_vars => RegistryInv'
  BY RegistryStep
<1>3. RegistryInv => LiveWorkersRegistered
  BY DEF RegistryInv
<1> QED BY <1>1, <1>2, <1>3, TypeInvariant, PTL DEF Spec

-----------------------------------------------------------------------------
(* The bound on the queue.                                                 *)

\* pending_task_count_max_ is still to be set: SimpleThreadManager::Start, the
\* only way to start such a manager, has not been called.
Unset ==
  /\ pending_task_count_max = 0 /\ PendingTaskCountMax > 0
  /\ \E t \in Thread : "SimpleStart" \in Calls[t]

\* What makes QueueBounded inductive: the bound is set before anything can be
\* pushed, and once.
BoundInv ==
  /\ QueueBounded
  /\ pending_task_count_max \in {0, PendingTaskCountMax}
  /\ \A c \in Caller : pc[c] = "simple_start" => pending_task_count_max = PendingTaskCountMax
  /\ Unset => state # "STARTED" /\ tasks = <<>> /\ \A t \in Thread : pc[t] # "add_wait"

\* Every step keeps the queue within its limit, and no task is queued or offered
\* before SimpleThreadManager::Start has set that limit.
LEMMA BoundStep ==
  ASSUME TypeInv, BoundInv, [Next]_vars
  PROVE  BoundInv'
<1> USE ThreadsAssumption, SizesAssumption
    DEF Thread, manager, fields, counts, queue, registry, monitors, locals,
        offers, starting, ghosts, Unset
<1>t. /\ pc \in [Thread -> CallerPCs \cup WorkerPCs]
      /\ tasks \in Seq(Task) /\ Len(tasks) \in Nat
      /\ pending_task_count_max \in Nat
      /\ AddersHaveTasks
  BY DEF TypeInv, TypeOK
\* A step that does not set the bound, start the manager or make the queue longer.
<1>s. ASSUME pending_task_count_max' = pending_task_count_max,
             state' = "STARTED" => state = "STARTED",
             tasks' \in Seq(Task), Len(tasks') <= Len(tasks),
             \A t \in Thread : pc'[t] \in {"add_wait", "simple_start"} => pc'[t] = pc[t]
      PROVE  BoundInv'
  <2>1. tasks = <<>> => tasks' = <<>> BY <1>t, <1>s, EmptySeq
  <2>2. Len(tasks') \in Nat BY <1>s
  <2> QED BY <1>t, <1>s, <2>1, <2>2 DEF BoundInv, QueueBounded
<1>1. ASSUME NEW c \in Caller, Start(c)
      PROVE  BoundInv'
  <2>1. \A t \in Thread : "SimpleStart" \notin Calls[t]
    BY <1>1, CallsAssumption DEF Start, MayCall
  <2> QED BY <1>1, <2>1 DEF Start, ImplStart, BoundInv, QueueBounded
<1>2. ASSUME NEW c \in Caller, SimpleStart(c)
      PROVE  BoundInv'
  <2>1. "SimpleStart" \in Calls[c] BY <1>2 DEF SimpleStart, MayCall
  <2>2. CASE Unset
    BY <1>t, <1>2, <2>2 DEF SimpleStart, Goto, BoundInv, QueueBounded
  <2>3. CASE ~Unset
    BY <1>t, <1>2, <2>1, <2>3 DEF SimpleStart, Goto, BoundInv, QueueBounded
  <2> QED BY <2>2, <2>3
<1>3. ASSUME NEW c \in Caller, SimpleImplStart(c)
      PROVE  BoundInv'
  BY <1>t, <1>3 DEF SimpleImplStart, ImplStart, Goto, BoundInv, QueueBounded
<1>4. ASSUME NEW t \in Thread, NEW k \in Task, AddPush(t, k)
      PROVE  BoundInv'
  <2>1. PICK n \in 0..Len(tasks) : ~Full(n) /\ Push(k, n) BY <1>4 DEF AddPush
  <2>2. Len(tasks') = Len(tasks) - n + 1
    <3>1. tasks' = Append(Remaining(n), k) BY <2>1 DEF Push
    <3>2. Remaining(n) \in Seq(Task) /\ Len(Remaining(n)) = Len(tasks) - n
      BY RemainingType DEF TypeInv
    <3> QED BY <3>1, <3>2, AppendProperties
  <2>3. ~Unset BY <1>4 DEF AddPush, BoundInv
  <2> QED BY <1>t, <1>4, <2>1, <2>2, <2>3 DEF AddPush, Full, BoundInv, QueueBounded
<1>5. ASSUME NEW t \in Thread, NEW k \in Task, NEW timeout, AddBlock(t, k, timeout)
      PROVE  BoundInv'
  <2>1. PICK n \in 0..Len(tasks) : tasks' = Remaining(n) BY <1>5 DEF AddBlock
  <2>2. Len(tasks') = Len(tasks) - n BY <2>1, RemainingType DEF TypeInv
  <2>3. ~Unset BY <1>5 DEF AddBlock, BoundInv
  <2> QED BY <1>t, <1>5, <2>1, <2>2, <2>3 DEF AddBlock, Goto, BoundInv, QueueBounded
<1>6. ASSUME NEW t \in Thread, NEW k \in Task, NEW timeout, AddThrows(t, k, timeout)
      PROVE  BoundInv'
  <2>1. PICK n \in 0..Len(tasks) : tasks' = Remaining(n) BY <1>6 DEF AddThrows
  <2>2. tasks' \in Seq(Task) /\ Len(tasks') = Len(tasks) - n
    BY <2>1, RemainingType DEF TypeInv
  <2> QED BY <1>t, <1>6, <1>s, <2>1, <2>2 DEF AddThrows
<1>7. ASSUME NEW t \in Thread, AddResume(t)
      PROVE  BoundInv'
  <2>1. pc[t] = "add_wait" /\ adding[t] \in Task
    BY <1>t, <1>7 DEF AddResume, AddersHaveTasks
  <2>2. CASE Full(0) /\ UNCHANGED <<tasks, pc>>
    BY <1>t, <1>7, <1>s, <2>2 DEF AddResume
  <2>3. CASE ~Full(0) /\ Push(adding[t], 0) /\ AddReturn(t)
    <3>1. Len(tasks') = Len(tasks) + 1
      BY <1>t, <2>1, <2>3, RemainingType, AppendProperties DEF Push, TypeInv
    <3>2. ~Unset BY <2>1 DEF BoundInv
    <3> QED
      BY <1>t, <1>7, <2>3, <3>1, <3>2
      DEF AddResume, AddReturn, Goto, Full, BoundInv, QueueBounded
  <2> QED BY <1>7, <2>2, <2>3 DEF AddResume
<1>8. ASSUME NEW w \in Worker, WorkerTake(w)
      PROVE  BoundInv'
  <2>1. PICK n \in 0..Len(tasks) : Take(w, n) \/ TakeNothing(w, n)
    BY <1>8 DEF WorkerTake
  <2>2. tasks' \in Seq(Task) /\ Len(tasks') <= Len(tasks)
    <3>1. CASE Take(w, n)
      BY <1>t, <3>1, RemainingType DEF Take, TypeInv
    <3>2. CASE TakeNothing(w, n)
      BY <1>t, <3>2 DEF TakeNothing
    <3> QED BY <2>1, <3>1, <3>2
  <2>3. \A t \in Thread : pc'[t] \in {"add_wait", "simple_start"} => pc'[t] = pc[t]
    BY <1>t, <2>1 DEF Take, TakeNothing, Goto
  <2> QED BY <1>t, <1>8, <1>s, <2>2, <2>3 DEF WorkerTake
<1>9. ASSUME NEW c \in Caller, RemoveNextPending(c)
      PROVE  BoundInv'
  <2>1. tasks' \in Seq(Task) /\ Len(tasks') <= Len(tasks)
    BY <1>t, <1>9, HeadTailProperties DEF RemoveNextPending
  <2> QED BY <1>t, <1>9, <1>s, <2>1 DEF RemoveNextPending
<1>10. ASSUME NEW c \in Caller,
              \/ (\E n \in WorkerCounts : RemoveWorker(c, n) \/ AddWorker(c, n))
              \/ (\E join \in BOOLEAN : StopImpl(c, join))
              \/ ExpiredTaskCount(c) \/ SimpleAddWorker(c)
              \/ (\E w \in Worker : StartWorker(c, w)) \/ InsertId(c)
              \/ AwaitWorkers(c) \/ AddWorkerReturn(c) \/ RemoveWorkerReturn(c)
              \/ StopReadCount(c) \/ StopRemoveWorkers(c) \/ StopThrows(c)
              \/ StopSetStopped(c)
      PROVE  BoundInv'
  BY <1>t, <1>s, <1>10
  DEF RemoveWorker, LowerTarget, AddWorker, RegisterWorkers, StopImpl,
      ExpiredTaskCount, SimpleAddWorker, StartWorker, InsertId, AwaitWorkers,
      AddWorkerReturn, RemoveWorkerReturn, StopReadCount, StopRemoveWorkers,
      StopThrows, StopSetStopped, Goto
<1>11. ASSUME NEW t \in Thread, AddTimedOut(t) \/ SpuriousWakeup(t)
      PROVE  BoundInv'
  BY <1>t, <1>s, <1>11 DEF AddTimedOut, AddReturn, SpuriousWakeup, Goto
<1>12. ASSUME NEW w \in Worker,
              \/ WorkerBegin(w) \/ WorkerCount(w) \/ WorkerCounted(w)
              \/ WorkerNotifyStarted(w) \/ WorkerWait(w) \/ WorkerLeave(w)
              \/ WorkerFinish(w) \/ WorkerExit(w) \/ WorkerUncount(w) \/ WorkerExited(w)
      PROVE  BoundInv'
  BY <1>t, <1>s, <1>12
  DEF WorkerBegin, WorkerCount, WorkerCounted, WorkerNotifyStarted, WorkerWait,
      WorkerLeave, WorkerFinish, WorkerExit, WorkerUncount, WorkerExited, Goto
<1>13. ASSUME NEW k \in Task, Expire(k)
      PROVE  BoundInv'
  BY <1>t, <1>s, <1>13 DEF Expire
<1>14. CASE UNCHANGED vars
  BY <1>t, <1>s, <1>14 DEF vars
<1> HIDE DEF Unset
<1> QED
  BY <1>1, <1>2, <1>3, <1>4, <1>5, <1>6, <1>7, <1>8, <1>9, <1>10, <1>11, <1>12,
     <1>13, <1>14
  DEF Next, Call, Continue, Offer, Wakeup, Run

\* The queue never holds more than pending_task_count_max_ tasks, however many
\* blocked calls of Add are woken together.
THEOREM QueueStaysBounded == Spec => []QueueBounded
<1>1. Init => BoundInv
  BY SizesAssumption DEF Init, BoundInv, QueueBounded, Unset, Thread
<1>2. TypeInv /\ BoundInv /\ [Next]_vars => BoundInv'
  BY BoundStep
<1>3. BoundInv => QueueBounded
  BY DEF BoundInv
<1> QED BY <1>1, <1>2, <1>3, TypeInvariant, PTL DEF Spec

-----------------------------------------------------------------------------
(* Expired tasks.                                                          *)

\* No step of any thread starts a task whose expire time has passed: every pop
\* comes after RemoveExpiredTasks in the same critical section.
THEOREM DueNeverStart == Spec => DueTasksNeverStart
<1>1. ASSUME TypeInv, Next, NEW k \in Task, status[k] # "executing", status'[k] = "executing"
      PROVE  k \notin due
  <2> USE DEF manager, fields, counts, queue, registry, monitors, locals,
              offers, starting, ghosts
  <2>t. status \in [Task -> Statuses] BY <1>1 DEF TypeInv, TypeOK
  <2>s. \A n \in Nat : StatusWithout(n) \in [Task -> Statuses \cup {"expired"}]
                       /\ StatusWithout(n)[k] # "executing"
    BY <1>1, <2>t DEF StatusWithout
  <2>1. ASSUME NEW w \in Worker, WorkerTake(w)
        PROVE  k \notin due
    <3>1. PICK n \in 0..Len(tasks) :
            RemoveExpiredTasks(n) /\ (Take(w, n) \/ TakeNothing(w, n))
      BY <2>1 DEF WorkerTake
    <3>2. Len(tasks) \in Nat /\ n \in Nat BY <1>1, <3>1 DEF TypeInv, TypeOK
    <3>3. k = tasks[n + 1] /\ n < Len(tasks)
      BY <1>1, <2>s, <3>1, <3>2 DEF Take, TakeNothing
    <3> QED BY <3>1, <3>2, <3>3 DEF RemoveExpiredTasks
  <2>2. ASSUME NEW c \in Caller, Call(c) \/ Continue(c)
        PROVE  FALSE
    BY <1>1, <2>t, <2>2
    DEF Call, Start, ImplStart, SimpleStart, AddWorker, RegisterWorkers, RemoveWorker,
        LowerTarget, StopImpl, RemoveNextPending, ExpiredTaskCount,
        Continue, SimpleImplStart, SimpleAddWorker, StartWorker, InsertId,
        AwaitWorkers, AddWorkerReturn, RemoveWorkerReturn, StopReadCount,
        StopRemoveWorkers, StopThrows, StopSetStopped
  <2>3. ASSUME NEW t \in Thread, Offer(t)
        PROVE  FALSE
    <3>1. \A n \in 0..Len(tasks) : n \in Nat OBVIOUS
    <3> QED
      BY <1>1, <2>s, <2>3, <3>1 DEF Offer, AddPush, Push, AddBlock, AddThrows
  <2>4. ASSUME NEW t \in Thread, Wakeup(t) \/ SpuriousWakeup(t)
        PROVE  FALSE
    BY <1>1, <2>t, <2>s, <2>4 DEF Wakeup, AddResume, Push, AddTimedOut, SpuriousWakeup
  <2>5. ASSUME NEW w \in Worker, Run(w), ~WorkerTake(w)
        PROVE  FALSE
    BY <1>1, <2>t, <2>5
    DEF Run, WorkerBegin, WorkerCount, WorkerCounted, WorkerNotifyStarted, WorkerWait,
        WorkerLeave, WorkerFinish, WorkerExit, WorkerUncount, WorkerExited
  <2>6. ASSUME NEW j \in Task, Expire(j)
        PROVE  FALSE
    BY <1>1, <2>6 DEF Expire
  <2> QED BY <1>1, <2>1, <2>2, <2>3, <2>4, <2>5, <2>6 DEF Next
<1>2. TypeInv /\ [Next]_vars =>
        [\A k \in Task : status[k] # "executing" /\ status'[k] = "executing"
                         => k \notin due]_vars
  BY <1>1
<1> QED BY <1>2, TypeInvariant, PTL DEF Spec, DueTasksNeverStart
=============================================================================
