------------------------ MODULE ControlledPoolProofs ------------------------
(***************************************************************************)
(* Proofs about a ThreadManager whose owner alone starts it, grows it and  *)
(* stops it, while any number of threads and tasks use its queue.          *)
(***************************************************************************)
EXTENDS TaskPoolRefinement

\* Thread c owns the manager: nobody else starts, grows or stops it, and nobody
\* removes single workers.  It is how SimpleThreadManager and the tests use the
\* manager, and what the unlocked parts of AddWorker and Stop rely on.
Owner(c) ==
  /\ \A d \in Caller : "RemoveWorker" \notin Calls[d]
  /\ \A d \in Caller \ {c} : Calls[d] \cap {"SimpleStart", "AddWorker", "Stop", "Join"} = {}

\* Workers that worker_max_count_ counts and worker_count_ does not yet.
Coming == {w \in Worker : pc[w] \in {"created", "starting", "counting"}}

\* Workers on their way out of Worker::Run.
Departing == {w \in Worker : pc[w] \in {"leaving", "uncounting", "uncounted"}}

\* Workers that have incremented worker_count_ and not decremented it.
Counted ==
  {w \in Worker : pc[w] \in {"counted", "notifying", "loop", "waiting", "running",
                             "add_wait", "leaving", "uncounting"}}

\* Where the owner may be: the others only add, take and count tasks.
OwnerInv(c) ==
  /\ \A d \in Caller \ {c} : pc[d] \in {"idle", "add_wait"}
  /\ pc[c] # "await_removed"
  /\ state \in {"STOPPING", "JOINING"} =>
       pc[c] \in {"stop_read", "stop_remove", "await_stopped", "set_stopped"}

\* worker_count_ is exact: the load that precedes a store is not stale.
CountInv ==
  /\ worker_count = Cardinality(Counted)
  /\ \A w \in Worker : pc[w] \in {"counting", "uncounting"} => reg[w] = worker_count
  /\ \A v, w \in Worker :
       pc[v] \in {"counting", "counted"} /\ pc[w] \in {"counting", "counted"} => v = w
  /\ \A v, w \in Worker :
       pc[v] \in {"uncounting", "uncounted"} /\ pc[w] \in {"uncounting", "uncounted"} => v = w

\* Workers come only while the owner is in AddWorker and depart only while it waits
\* for them in Stop or Join, so that increments and decrements never overlap.
PhaseInv(c) ==
  /\ Coming # {} => pc[c] \in {"start_workers", "await_added"}
  /\ IF pc[c] = "await_stopped"
     THEN worker_max_count = 0 /\ monitor = {}
     ELSE Departing = {} /\ worker_count + Cardinality(Coming) = worker_max_count
  /\ pc[c] = "stop_remove" => reg[c] = worker_count
  /\ pc[c] = "set_stopped" => worker_max_count = 0

ControlInv(c) == OwnerInv(c) /\ CountInv /\ PhaseInv(c)

\* Every task that is being executed is executed by a worker.
RunnersInv ==
  \A k \in Task : status[k] = "executing" => \E w \in Worker : pc[w] \in Busy /\ task[w] = k

\* What Join owes: tasks that were accepted, and as long as one of them is queued
\* no worker leaves.
OwedInv ==
  /\ owed # {} => state \in {"JOINING", "STOPPED"}
  /\ \A k \in owed : status[k] \notin {"new", "offered", "rejected"}
  /\ state = "JOINING" /\ (\E k \in owed : status[k] = "pending") =>
       Departing = {} /\ worker_count > 0

-----------------------------------------------------------------------------
(* The counts.                                                             *)

\* Where a worker is counted and neither comes nor departs.
Inside == {"notifying", "loop", "waiting", "running", "add_wait"}

\* The three sets of workers are finite.
LEMMA WorkersFinite ==
  /\ IsFiniteSet(Counted) /\ Cardinality(Counted) \in Nat
  /\ Cardinality(Counted) < SizeMax
  /\ IsFiniteSet(Coming) /\ Cardinality(Coming) \in Nat
<1>1. IsFiniteSet(Worker) /\ Cardinality(Worker) \in Nat /\ Cardinality(Worker) < SizeMax
      /\ SizeMax \in Nat
  BY ThreadsAssumption, SizesAssumption, FS_CardinalityType
<1>2. Counted \in SUBSET Worker /\ Coming \in SUBSET Worker BY DEF Counted, Coming
<1>3. /\ IsFiniteSet(Counted) /\ Cardinality(Counted) <= Cardinality(Worker)
      /\ IsFiniteSet(Coming)
  BY <1>1, <1>2, FS_Subset
<1>4. Cardinality(Counted) \in Nat /\ Cardinality(Coming) \in Nat
  BY <1>3, FS_CardinalityType
<1> QED BY <1>1, <1>3, <1>4

\* A step at the queue or of a thread that waits: no worker comes or departs, and
\* the owner stays where it is unless it goes into or out of Add.
LEMMA QueueKeepsControl ==
  ASSUME NEW c \in Caller, TypeOK, ControlInv(c),
         UNCHANGED <<worker_count, worker_max_count>>,
         \A w \in Worker : pc[w] \in {"counting", "uncounting"} => reg'[w] = reg[w],
         pc[c] = "stop_remove" => reg'[c] = reg[c],
         state' \in {"STOPPING", "JOINING"} => state' = state,
         pc[c] = "await_stopped" => monitor' \subseteq monitor,
         \A d \in Caller : pc'[d] = pc[d] \/ {pc[d], pc'[d]} \subseteq {"idle", "add_wait"},
         \A w \in Worker :
           pc'[w] = pc[w] \/ (pc[w] \in Inside \cup {"counted"} /\ pc'[w] \in Inside)
  PROVE  ControlInv(c)'
<1>1. Counted' = Counted /\ Coming' = Coming /\ Departing' = Departing
  BY DEF Counted, Coming, Departing, Inside
<1>2. OwnerInv(c)' BY DEF ControlInv, OwnerInv
<1>3. CountInv'
  <2>1. \A w \in Worker : /\ pc'[w] \in {"counting", "uncounting"} => pc'[w] = pc[w]
                          /\ pc'[w] \in {"counted", "uncounted"} => pc'[w] = pc[w]
    BY DEF Inside
  <2> QED BY <1>1, <2>1 DEF ControlInv, CountInv
<1>4. PhaseInv(c)' BY <1>1 DEF ControlInv, PhaseInv
<1> QED BY <1>2, <1>3, <1>4 DEF ControlInv

\* A step of the owner that moves no worker keeps worker_count_ exact.
LEMMA OwnerKeepsCount ==
  ASSUME NEW c \in Caller, ControlInv(c), UNCHANGED worker_count,
         \A w \in Worker : pc'[w] = pc[w] /\ reg'[w] = reg[w]
  PROVE  CountInv' /\ Coming' = Coming /\ Departing' = Departing
<1>1. Counted' = Counted /\ Coming' = Coming /\ Departing' = Departing
  BY DEF Counted, Coming, Departing
<1> QED BY <1>1 DEF ControlInv, CountInv

\* Lowering the target by as many workers as there are, when all are counted and
\* idle_count_ is exact, wakes every sleeper.
LEMMA StopWakesAll ==
  ASSUME TypeInv, NEW n \in Nat, LowerTarget(n)
  PROVE  monitor' = {}
<1>1. idle_count = Cardinality(Idle) /\ monitor \subseteq Idle
  BY DEF TypeInv, IdleCountExact
<1>2. IsFiniteSet(Idle) BY FS_Subset, ThreadsAssumption DEF Idle
<1>3. Cardinality(monitor) <= idle_count BY <1>1, <1>2, FS_Subset
<1>4. IsFiniteSet(monitor) /\ Cardinality(monitor) \in Nat /\ idle_count \in Nat
  BY <1>1, <1>2, FS_Subset, FS_CardinalityType
<1>5. NotifiedTimes(monitor, idle_count) = {{}} BY <1>3, <1>4 DEF NotifiedTimes
<1> QED BY <1>5 DEF LowerTarget

\* Every step of every thread keeps the counts exact while one thread owns the pool.
LEMMA ControlStep ==
  ASSUME NEW c \in Caller, Owner(c), TypeInv, ControlInv(c), [Next]_vars
  PROVE  ControlInv(c)'
<1> USE ThreadsAssumption
    DEF Thread, manager, fields, counts, queue, registry, monitors, locals,
        offers, starting, ghosts
<1>t. /\ TypeOK /\ NewThreadsCreated
      /\ pc \in [Thread -> CallerPCs \cup WorkerPCs]
      /\ reg \in [Thread -> 0..SizeMax] /\ SizeMax \in Nat
      /\ worker_count \in Nat /\ worker_max_count \in Nat /\ idle_count \in Nat
      /\ monitor \subseteq Worker
      /\ \A d \in Caller : pc[d] \in CallerPCs
      /\ \A w \in Worker : pc[w] \in WorkerPCs /\ w # c
      /\ \A n \in WorkerCounts \cup {SimpleWorkerCount} : n \in Nat
  BY SizesAssumption DEF TypeInv, TypeOK
<1>i. OwnerInv(c) /\ CountInv /\ PhaseInv(c) BY DEF ControlInv
<1>f. /\ IsFiniteSet(Counted) /\ Cardinality(Counted) \in Nat
      /\ Cardinality(Counted) < SizeMax
      /\ IsFiniteSet(Coming) /\ Cardinality(Coming) \in Nat
  BY WorkersFinite
<1>z. /\ Coming = {} <=> Cardinality(Coming) = 0
      /\ Counted = {} <=> Cardinality(Counted) = 0
  BY <1>f, FS_EmptySet

\* A counted worker and one that comes, in numbers.
<1>n. /\ \A w \in Counted : worker_count > 0
      /\ \A w \in Coming : pc[c] # "await_stopped" => worker_count < worker_max_count
  BY <1>t, <1>i, <1>f, <1>z DEF CountInv, PhaseInv
<1>1. ASSUME NEW d \in Caller, Start(d)
      PROVE  ControlInv(c)'
  BY <1>t, <1>1, QueueKeepsControl DEF Start, ImplStart
<1>2. ASSUME NEW d \in Caller, RemoveNextPending(d) \/ ExpiredTaskCount(d)
      PROVE  ControlInv(c)'
  BY <1>t, <1>2, QueueKeepsControl DEF RemoveNextPending, ExpiredTaskCount
<1>3. ASSUME NEW t \in Thread, Offer(t)
      PROVE  ControlInv(c)'
  <2>1. /\ UNCHANGED <<state, worker_count, worker_max_count, reg>>
        /\ monitor' \subseteq monitor
    BY <1>3, NotifiedSubset DEF Offer, AddPush, Push, AddBlock, AddThrows
  <2>2. \/ pc' = pc
        \/ /\ pc' = [pc EXCEPT ![t] = "add_wait"]
           /\ pc[t] = IF t \in Caller THEN "idle" ELSE "running"
    BY <1>3 DEF Offer, AddPush, AddBlock, AddThrows, Goto, MayCall
  <2> QED BY <1>t, <2>1, <2>2, QueueKeepsControl DEF Inside
<1>4. ASSUME NEW t \in Thread, Wakeup(t)
      PROVE  ControlInv(c)'
  <2>1. /\ UNCHANGED <<state, worker_count, worker_max_count, reg>>
        /\ monitor' \subseteq monitor
    BY <1>4, NotifiedSubset DEF Wakeup, AddResume, Push, AddTimedOut
  <2>2. \/ pc' = pc
        \/ /\ pc' = [pc EXCEPT ![t] = IF t \in Caller THEN "idle" ELSE "running"]
           /\ pc[t] = "add_wait"
    BY <1>4 DEF Wakeup, AddResume, AddTimedOut, AddReturn, Goto
  <2> QED BY <1>t, <2>1, <2>2, QueueKeepsControl DEF Inside
<1>5. ASSUME NEW t \in Thread, SpuriousWakeup(t)
      PROVE  ControlInv(c)'
  BY <1>t, <1>5, QueueKeepsControl DEF SpuriousWakeup
<1>6. ASSUME NEW k \in Task, Expire(k)
      PROVE  ControlInv(c)'
  BY <1>t, <1>6, QueueKeepsControl DEF Expire
<1>7. CASE UNCHANGED vars
  BY <1>t, <1>7, QueueKeepsControl DEF vars
<1>8. ASSUME NEW d \in Caller, AwaitWorkers(d)
      PROVE  ControlInv(c)'
  BY <1>t, <1>8, QueueKeepsControl DEF AwaitWorkers
<1>9. ASSUME NEW w \in Worker,
             WorkerCounted(w) \/ WorkerNotifyStarted(w) \/ WorkerTake(w) \/ WorkerFinish(w)
      PROVE  ControlInv(c)'
  <2>1. /\ UNCHANGED <<state, worker_count, worker_max_count, reg, monitor>>
        /\ pc[w] \in Inside \cup {"counted"}
    BY <1>9
    DEF WorkerCounted, WorkerNotifyStarted, WorkerTake, WorkerFinish, AtQueue, Inside
  <2>2. pc' = [pc EXCEPT ![w] = pc'[w]] /\ pc'[w] \in Inside
    BY <1>t, <1>9
    DEF WorkerCounted, WorkerNotifyStarted, WorkerTake, Take, TakeNothing,
        WorkerFinish, Goto, Inside
  <2> QED BY <1>t, <2>1, <2>2, QueueKeepsControl
<1>10. ASSUME NEW w \in Worker, WorkerWait(w)
      PROVE  ControlInv(c)'
  <2>1. pc[w] \in {"loop", "waiting"} BY <1>10 DEF WorkerWait, AtQueue
  <2>2. w \in Counted BY <2>1 DEF Counted
  <2>3. pc[c] # "await_stopped"
    BY <1>t, <1>i, <1>n, <1>10, <2>2 DEF WorkerWait, IsActive, PhaseInv
  <2> QED BY <1>t, <1>10, <2>1, <2>3, QueueKeepsControl DEF WorkerWait, Goto, Inside
<1>11. ASSUME NEW d \in Caller, SimpleStart(d) \/ SimpleImplStart(d)
      PROVE  ControlInv(c)'
  <2>1. d = c
    BY <1>i, <1>11 DEF SimpleStart, SimpleImplStart, MayCall, Owner, OwnerInv
  <2>2. /\ UNCHANGED <<worker_count, worker_max_count, reg>>
        /\ state' \in {"STOPPING", "JOINING"} => state' = state
        /\ pc[c] \in {"idle", "simple_start"}
        /\ pc' = [pc EXCEPT ![c] = pc'[c]] /\ pc'[c] \in {"simple_start", "simple_add"}
    BY <1>t, <1>11, <2>1 DEF SimpleStart, SimpleImplStart, ImplStart, MayCall, Goto
  <2>3. CountInv' /\ Coming' = Coming /\ Departing' = Departing
    BY <1>t, <2>2, OwnerKeepsCount
  <2>4. OwnerInv(c)' BY <1>t, <1>i, <2>2 DEF OwnerInv
  <2>5. PhaseInv(c)' BY <1>t, <1>i, <2>2, <2>3 DEF PhaseInv
  <2> QED BY <2>3, <2>4, <2>5 DEF ControlInv
<1>12. ASSUME NEW d \in Caller,
              (\E n \in WorkerCounts : AddWorker(d, n)) \/ SimpleAddWorker(d)
      PROVE  ControlInv(c)'
  <2>1. d = c /\ pc[c] \in {"idle", "simple_add"}
    BY <1>i, <1>12 DEF AddWorker, SimpleAddWorker, MayCall, Owner, OwnerInv
  <2>2. PICK n \in Nat : RegisterWorkers(c, n)
    BY <1>t, <1>12, <2>1 DEF AddWorker, SimpleAddWorker
  <2>3. PICK S \in SUBSET {w \in Worker : pc[w] = "none"} :
          /\ Cardinality(S) = n
          /\ worker_max_count' = worker_max_count + n
          /\ pc' = [t \in Thread |->
                      IF t \in S THEN "created"
                      ELSE IF t # c THEN pc[t]
                      ELSE IF S = {} THEN "await_added" ELSE "start_workers"]
    BY <2>2 DEF RegisterWorkers
  <2>4. UNCHANGED <<state, worker_count, reg>> BY <2>2 DEF RegisterWorkers
  <2>5. /\ \A w \in Worker : pc'[w] = IF w \in S THEN "created" ELSE pc[w]
        /\ pc'[c] \in {"await_added", "start_workers"}
        /\ \A d2 \in Caller \ {c} : pc'[d2] = pc[d2]
    BY <1>t, <2>3
  <2>6. Counted' = Counted /\ Departing' = Departing
    BY <2>3, <2>5 DEF Counted, Departing
  <2>7. Coming' = Coming \cup S /\ Coming \cap S = {}
    BY <2>3, <2>5 DEF Coming
  <2>8. Cardinality(Coming') = Cardinality(Coming) + n
    <3>1. IsFiniteSet(S) BY <2>3, FS_Subset
    <3>2. Cardinality({}) = 0 BY FS_EmptySet
    <3>3. Cardinality(Coming \cup S) = Cardinality(Coming) + Cardinality(S) - Cardinality({})
      BY <1>f, <2>7, <3>1, FS_Union
    <3> QED BY <1>f, <2>3, <2>7, <3>2, <3>3
  <2>9. OwnerInv(c)' BY <1>i, <2>1, <2>4, <2>5 DEF OwnerInv
  <2>10. CountInv'
    <3>1. \A w \in Worker : pc'[w] \in {"counting", "uncounting", "counted", "uncounted"}
                            => pc'[w] = pc[w]
      BY <2>5
    <3> QED BY <1>i, <2>4, <2>6, <3>1 DEF CountInv
  <2>11. PhaseInv(c)'
    <3>1. Departing = {} /\ worker_count + Cardinality(Coming) = worker_max_count
      BY <1>i, <2>1 DEF PhaseInv
    <3>2. worker_count' + Cardinality(Coming)' = worker_max_count'
      BY <1>t, <1>f, <2>3, <2>4, <2>8, <3>1
    <3> QED BY <2>5, <2>6, <3>1, <3>2 DEF PhaseInv
  <2> QED BY <2>9, <2>10, <2>11 DEF ControlInv
<1>13. ASSUME NEW d \in Caller, NEW w \in Worker, StartWorker(d, w)
      PROVE  ControlInv(c)'
  <2>1. d = c /\ pc[c] = "start_workers" /\ pc[w] = "created"
    BY <1>t, <1>i, <1>13 DEF StartWorker, OwnerInv, NewThreadsCreated
  <2>2. /\ UNCHANGED <<state, worker_count, worker_max_count, reg, monitor>>
        /\ pc' = [pc EXCEPT ![w] = "starting"]
    BY <1>13 DEF StartWorker, Goto
  <2>3. Counted' = Counted /\ Departing' = Departing /\ Coming' = Coming
    BY <1>t, <2>1, <2>2 DEF Counted, Departing, Coming
  <2>4. OwnerInv(c)' BY <1>t, <1>i, <2>1, <2>2 DEF OwnerInv
  <2>5. CountInv'
    <3>1. \A v \in Worker : pc'[v] \in {"counting", "uncounting", "counted", "uncounted"}
                            => pc'[v] = pc[v]
      BY <1>t, <2>2
    <3> QED BY <1>i, <2>2, <2>3, <3>1 DEF CountInv
  <2>6. PhaseInv(c)' BY <1>t, <1>i, <2>1, <2>2, <2>3 DEF PhaseInv
  <2> QED BY <2>4, <2>5, <2>6 DEF ControlInv
<1>14. ASSUME NEW d \in Caller, InsertId(d)
      PROVE  ControlInv(c)'
  <2>1. d = c /\ pc[c] = "start_workers"
    BY <1>i, <1>14 DEF InsertId, OwnerInv
  <2>2. /\ UNCHANGED <<state, worker_count, worker_max_count, reg, monitor>>
        /\ pc' = [pc EXCEPT ![c] = pc'[c]] /\ pc'[c] \in {"start_workers", "await_added"}
    BY <1>t, <1>14, <2>1 DEF InsertId, Goto
  <2>3. CountInv' /\ Coming' = Coming /\ Departing' = Departing
    BY <1>t, <2>2, OwnerKeepsCount
  <2>4. OwnerInv(c)' BY <1>t, <1>i, <2>1, <2>2 DEF OwnerInv
  <2>5. PhaseInv(c)' BY <1>t, <1>i, <2>1, <2>2, <2>3 DEF PhaseInv
  <2> QED BY <2>3, <2>4, <2>5 DEF ControlInv
<1>15. ASSUME NEW d \in Caller, AddWorkerReturn(d)
      PROVE  ControlInv(c)'
  <2>1. d = c /\ pc[c] = "await_added" /\ worker_count = worker_max_count
    BY <1>i, <1>15 DEF AddWorkerReturn, TargetReached, OwnerInv
  <2>2. /\ UNCHANGED <<state, worker_count, worker_max_count, reg, monitor>>
        /\ pc' = [pc EXCEPT ![c] = "idle"]
    BY <1>15, <2>1 DEF AddWorkerReturn, Goto
  <2>3. CountInv' /\ Coming' = Coming /\ Departing' = Departing
    BY <1>t, <2>2, OwnerKeepsCount
  <2>4. Coming = {} BY <1>t, <1>i, <1>f, <1>z, <2>1 DEF PhaseInv
  <2>5. OwnerInv(c)' BY <1>t, <1>i, <2>1, <2>2 DEF OwnerInv
  <2>6. PhaseInv(c)' BY <1>t, <1>i, <2>1, <2>2, <2>3, <2>4 DEF PhaseInv
  <2> QED BY <2>3, <2>5, <2>6 DEF ControlInv
<1>16. ASSUME NEW d \in Caller, RemoveWorkerReturn(d)
      PROVE  ControlInv(c)'
  <2>1. /\ d = c /\ pc[c] = "await_stopped" /\ worker_count = worker_max_count
        /\ WorkerMutexFree
    BY <1>i, <1>16 DEF RemoveWorkerReturn, TargetReached, OwnerInv
  <2>2. /\ UNCHANGED <<state, worker_count, worker_max_count, reg, monitor>>
        /\ pc' = [pc EXCEPT ![c] = "set_stopped"]
    BY <1>16, <2>1 DEF RemoveWorkerReturn, Goto
  <2>3. CountInv' /\ Coming' = Coming /\ Departing' = Departing
    BY <1>t, <2>2, OwnerKeepsCount
  <2>4. worker_count = 0 /\ worker_max_count = 0 /\ Coming = {} /\ Counted = {}
    BY <1>i, <1>z, <2>1 DEF PhaseInv, CountInv
  <2>5. Departing = {} BY <2>1, <2>4 DEF Departing, Counted, WorkerMutexFree
  <2>6. OwnerInv(c)' BY <1>t, <1>i, <2>1, <2>2 DEF OwnerInv
  <2>7. PhaseInv(c)' BY <1>t, <1>z, <2>2, <2>3, <2>4, <2>5 DEF PhaseInv
  <2> QED BY <2>3, <2>6, <2>7 DEF ControlInv
<1>17. ASSUME NEW d \in Caller, NEW join \in BOOLEAN, StopImpl(d, join)
      PROVE  ControlInv(c)'
  <2>1. d = c /\ pc[c] = "idle"
    BY <1>i, <1>17 DEF StopImpl, MayCall, Owner
  <2>2. state \notin {"STOPPING", "JOINING"} BY <1>i, <2>1 DEF OwnerInv
  <2>3. /\ UNCHANGED <<worker_count, worker_max_count, reg, monitor>>
        /\ pc' = [pc EXCEPT ![c] = "stop_read"]
    BY <1>17, <2>1, <2>2 DEF StopImpl, Goto
  <2>4. CountInv' /\ Coming' = Coming /\ Departing' = Departing
    BY <1>t, <2>3, OwnerKeepsCount
  <2>5. OwnerInv(c)' BY <1>t, <1>i, <2>3 DEF OwnerInv
  <2>6. PhaseInv(c)' BY <1>t, <1>i, <2>1, <2>3, <2>4 DEF PhaseInv
  <2> QED BY <2>4, <2>5, <2>6 DEF ControlInv
<1>18. ASSUME NEW d \in Caller, StopReadCount(d)
      PROVE  ControlInv(c)'
  <2>1. d = c /\ pc[c] = "stop_read" BY <1>i, <1>18 DEF StopReadCount, OwnerInv
  <2>2. /\ UNCHANGED <<state, worker_count, worker_max_count, monitor>>
        /\ pc' = [pc EXCEPT ![c] = "stop_remove"] /\ reg' = [reg EXCEPT ![c] = worker_count]
    BY <1>18, <2>1 DEF StopReadCount, Goto
  <2>3. CountInv' /\ Coming' = Coming /\ Departing' = Departing
    BY <1>t, <2>2, OwnerKeepsCount
  <2>4. OwnerInv(c)' BY <1>t, <1>i, <2>1, <2>2 DEF OwnerInv
  <2>5. PhaseInv(c)' BY <1>t, <1>i, <2>1, <2>2, <2>3 DEF PhaseInv
  <2> QED BY <2>3, <2>4, <2>5 DEF ControlInv
<1>19. ASSUME NEW d \in Caller, StopRemoveWorkers(d)
      PROVE  ControlInv(c)'
  <2>1. d = c /\ pc[c] = "stop_remove" BY <1>i, <1>19 DEF StopRemoveWorkers, OwnerInv
  <2>2. /\ Coming = {} /\ Cardinality(Coming) = 0
        /\ reg[c] = worker_count /\ worker_count = worker_max_count
    BY <1>t, <1>i, <1>z, <2>1 DEF PhaseInv
  <2>3. /\ UNCHANGED <<state, worker_count, reg>> /\ worker_max_count' = 0
        /\ pc' = [pc EXCEPT ![c] = "await_stopped"]
    BY <1>t, <1>19, <2>1, <2>2 DEF StopRemoveWorkers, LowerTarget, Goto
  <2>4. monitor' = {} BY <1>t, <1>19, <2>1, <2>2, StopWakesAll DEF StopRemoveWorkers
  <2>5. CountInv' /\ Coming' = Coming /\ Departing' = Departing
    BY <1>t, <2>3, OwnerKeepsCount
  <2>6. OwnerInv(c)' BY <1>t, <1>i, <2>1, <2>3 DEF OwnerInv
  <2>7. PhaseInv(c)' BY <1>t, <2>2, <2>3, <2>4, <2>5 DEF PhaseInv
  <2> QED BY <2>5, <2>6, <2>7 DEF ControlInv
<1>20. ASSUME NEW d \in Caller, StopThrows(d)
      PROVE  FALSE
  <2>1. d = c /\ pc[c] = "stop_remove" BY <1>i, <1>20 DEF StopThrows, OwnerInv
  <2>2. reg[c] = worker_max_count BY <1>t, <1>i, <1>z, <2>1 DEF PhaseInv
  <2> QED BY <1>t, <1>20, <2>1, <2>2 DEF StopThrows
<1>21. ASSUME NEW d \in Caller, StopSetStopped(d)
      PROVE  ControlInv(c)'
  <2>1. d = c /\ pc[c] = "set_stopped" BY <1>i, <1>21 DEF StopSetStopped, OwnerInv
  <2>2. /\ UNCHANGED <<worker_count, worker_max_count, reg, monitor>>
        /\ state' = "STOPPED" /\ pc' = [pc EXCEPT ![c] = "idle"]
    BY <1>21, <2>1 DEF StopSetStopped, Goto
  <2>3. CountInv' /\ Coming' = Coming /\ Departing' = Departing
    BY <1>t, <2>2, OwnerKeepsCount
  <2>4. OwnerInv(c)' BY <1>t, <1>i, <2>1, <2>2 DEF OwnerInv
  <2>5. PhaseInv(c)' BY <1>t, <1>i, <2>1, <2>2, <2>3 DEF PhaseInv
  <2> QED BY <2>3, <2>4, <2>5 DEF ControlInv
<1>22. ASSUME NEW d \in Caller, NEW n, RemoveWorker(d, n)
      PROVE  FALSE
  BY <1>22 DEF RemoveWorker, MayCall, Owner
<1>23. ASSUME NEW w \in Worker, WorkerBegin(w)
      PROVE  ControlInv(c)'
  <2>1. pc[w] = "starting" /\ w \in Coming /\ MutexFree
    BY <1>23 DEF WorkerBegin, Coming
  <2>2. pc[c] \in {"start_workers", "await_added"} BY <1>i, <2>1 DEF PhaseInv
  <2>3. /\ UNCHANGED <<state, worker_count, worker_max_count, monitor>>
        /\ pc' = [pc EXCEPT ![w] = "counting"] /\ reg' = [reg EXCEPT ![w] = worker_count]
    BY <1>n, <1>23, <2>1, <2>2 DEF WorkerBegin, Goto
  <2>4. Counted' = Counted /\ Departing' = Departing /\ Coming' = Coming
    BY <1>t, <2>1, <2>3 DEF Counted, Departing, Coming
  <2>5. OwnerInv(c)' BY <1>t, <1>i, <2>2, <2>3 DEF OwnerInv
  <2>6. CountInv'
    BY <1>t, <1>i, <2>1, <2>3, <2>4 DEF CountInv, MutexFree
  <2>7. PhaseInv(c)' BY <1>t, <1>i, <2>2, <2>3, <2>4 DEF PhaseInv
  <2> QED BY <2>5, <2>6, <2>7 DEF ControlInv
<1>24. ASSUME NEW w \in Worker, WorkerCount(w)
      PROVE  ControlInv(c)'
  <2>1. pc[w] = "counting" /\ w \in Coming /\ w \notin Counted /\ reg[w] = worker_count
    BY <1>i, <1>24 DEF WorkerCount, Coming, Counted, CountInv
  <2>2. pc[c] \in {"start_workers", "await_added"} BY <1>i, <2>1 DEF PhaseInv
  <2>3. Increment(reg[w]) = worker_count + 1
    BY <1>t, <1>i, <1>f, <2>1 DEF Increment, CountInv
  <2>4. /\ UNCHANGED <<state, worker_max_count, reg, monitor>>
        /\ worker_count' = worker_count + 1
        /\ pc' = [pc EXCEPT ![w] = "counted"]
    BY <1>24, <2>3 DEF WorkerCount, Goto
  <2>5. Counted' = Counted \cup {w} /\ Departing' = Departing /\ Coming' = Coming \ {w}
    BY <1>t, <2>1, <2>4 DEF Counted, Departing, Coming
  <2>6. Cardinality(Counted') = Cardinality(Counted) + 1
    BY <1>f, <2>1, <2>5, FS_AddElement
  <2>7. Cardinality(Coming') = Cardinality(Coming) - 1
    BY <1>f, <2>1, <2>5, FS_RemoveElement
  <2>8. OwnerInv(c)' BY <1>t, <1>i, <2>2, <2>4 DEF OwnerInv
  <2>9. Departing = {} /\ worker_count + Cardinality(Coming) = worker_max_count
    BY <1>i, <2>2 DEF PhaseInv
  <2>10. CountInv'
    <3>1. worker_count' = Cardinality(Counted)' BY <1>i, <2>4, <2>6 DEF CountInv
    <3>2. \A v \in Worker : pc'[v] \notin {"counting", "uncounting", "uncounted"}
      BY <1>t, <1>i, <2>1, <2>4, <2>9 DEF CountInv, Departing
    <3>3. \A v \in Worker : pc'[v] = "counted" => v = w
      BY <1>t, <1>i, <2>1, <2>4 DEF CountInv
    <3> QED BY <3>1, <3>2, <3>3 DEF CountInv
  <2>11. PhaseInv(c)'
    <3>1. worker_count' + Cardinality(Coming)' = worker_max_count'
      BY <1>t, <1>f, <2>4, <2>7, <2>9
    <3> QED BY <1>t, <2>2, <2>4, <2>5, <2>9, <3>1 DEF PhaseInv
  <2> QED BY <2>8, <2>10, <2>11 DEF ControlInv
<1>25. ASSUME NEW w \in Worker, WorkerLeave(w)
      PROVE  ControlInv(c)'
  <2>1. pc[w] \in {"loop", "waiting"} /\ worker_count > worker_max_count
    BY <1>t, <1>25 DEF WorkerLeave, AtQueue, IsActive
  <2>2. pc[c] = "await_stopped" BY <1>t, <1>i, <1>f, <2>1 DEF PhaseInv
  <2>3. /\ UNCHANGED <<state, worker_count, worker_max_count, reg, monitor>>
        /\ pc' = [pc EXCEPT ![w] = "leaving"]
    BY <1>25 DEF WorkerLeave, Goto
  <2>4. Counted' = Counted /\ Coming' = Coming
    BY <1>t, <2>1, <2>3 DEF Counted, Coming
  <2>5. OwnerInv(c)' BY <1>t, <1>i, <2>2, <2>3 DEF OwnerInv
  <2>6. CountInv' BY <1>t, <1>i, <2>1, <2>3, <2>4 DEF CountInv
  <2>7. PhaseInv(c)' BY <1>t, <1>i, <2>2, <2>3, <2>4 DEF PhaseInv
  <2> QED BY <2>5, <2>6, <2>7 DEF ControlInv
<1>26. ASSUME NEW w \in Worker, WorkerExit(w) \/ WorkerExited(w)
      PROVE  ControlInv(c)'
  <2>1. pc[w] \in {"leaving", "uncounted"} /\ w \in Departing
    BY <1>26 DEF WorkerExit, WorkerExited, Departing
  <2>2. pc[c] = "await_stopped" BY <1>i, <2>1 DEF PhaseInv
  <2>3. UNCHANGED <<state, worker_count, worker_max_count, monitor>>
    BY <1>26 DEF WorkerExit, WorkerExited
  <2>4. \/ /\ pc[w] = "leaving" /\ WorkerMutexFree
           /\ pc' = [pc EXCEPT ![w] = "uncounting"]
           /\ reg' = [reg EXCEPT ![w] = worker_count]
        \/ /\ pc[w] = "uncounted" /\ pc' = [pc EXCEPT ![w] = "exited"] /\ reg' = reg
    BY <1>26 DEF WorkerExit, WorkerExited, Goto
  <2>5. Counted' = Counted /\ Coming' = Coming
    BY <1>t, <2>4 DEF Counted, Coming
  <2>6. OwnerInv(c)' BY <1>t, <1>i, <2>2, <2>3, <2>4 DEF OwnerInv
  <2>7. CountInv' BY <1>t, <1>i, <2>3, <2>4, <2>5 DEF CountInv, WorkerMutexFree
  <2>8. PhaseInv(c)' BY <1>t, <1>i, <2>2, <2>3, <2>4, <2>5 DEF PhaseInv
  <2> QED BY <2>6, <2>7, <2>8 DEF ControlInv
<1>27. ASSUME NEW w \in Worker, WorkerUncount(w)
      PROVE  ControlInv(c)'
  <2>1. /\ pc[w] = "uncounting" /\ w \in Counted /\ w \in Departing
        /\ reg[w] = worker_count
    BY <1>i, <1>27 DEF WorkerUncount, Counted, Departing, CountInv
  <2>2. pc[c] = "await_stopped" BY <1>i, <2>1 DEF PhaseInv
  <2>3. Decrement(reg[w]) = worker_count - 1
    BY <1>t, <1>n, <2>1 DEF Decrement
  <2>4. /\ UNCHANGED <<state, worker_max_count, reg, monitor>>
        /\ worker_count' = worker_count - 1
        /\ pc' = [pc EXCEPT ![w] = "uncounted"]
    BY <1>27, <2>3 DEF WorkerUncount, Goto
  <2>5. Counted' = Counted \ {w} /\ Coming' = Coming
    BY <1>t, <2>1, <2>4 DEF Counted, Coming
  <2>6. Cardinality(Counted') = Cardinality(Counted) - 1
    BY <1>f, <2>1, <2>5, FS_RemoveElement
  <2>7. OwnerInv(c)' BY <1>t, <1>i, <2>2, <2>4 DEF OwnerInv
  <2>8. CountInv'
    <3>1. worker_count' = Cardinality(Counted)' BY <1>i, <2>4, <2>6 DEF CountInv
    <3>2. Coming = {} BY <1>i, <2>2 DEF PhaseInv
    <3>3. \A v \in Worker : pc'[v] \notin {"counting", "uncounting"}
      BY <1>t, <1>i, <2>1, <2>4, <3>2 DEF CountInv, Coming
    <3>4. \A v \in Worker : /\ pc'[v] = "uncounted" => v = w
                            /\ pc'[v] = "counted" => pc[v] = "counted"
      BY <1>t, <1>i, <2>1, <2>4 DEF CountInv
    <3> QED BY <1>i, <3>1, <3>3, <3>4 DEF CountInv
  <2>9. PhaseInv(c)' BY <1>t, <1>i, <2>2, <2>4, <2>5 DEF PhaseInv
  <2> QED BY <2>7, <2>8, <2>9 DEF ControlInv
<1> QED
  BY <1>1, <1>2, <1>3, <1>4, <1>5, <1>6, <1>7, <1>8, <1>9, <1>10, <1>11, <1>12,
     <1>13, <1>14, <1>15, <1>16, <1>17, <1>18, <1>19, <1>20, <1>21, <1>22, <1>23,
     <1>24, <1>25, <1>26, <1>27
  DEF Next, Call, Continue, Run

\* A manager that has just been constructed.
LEMMA ControlInit ==
  ASSUME NEW c \in Caller, Init
  PROVE  ControlInv(c)
<1>1. Counted = {} /\ Coming = {} /\ Departing = {}
  BY ThreadsAssumption DEF Init, Thread, Counted, Coming, Departing
<1>2. \A w \in Worker : pc[w] = "none"
  BY ThreadsAssumption DEF Init, Thread
<1>3. \A d \in Caller : pc[d] = "idle" BY DEF Init, Thread
<1>4. Cardinality({}) = 0 BY FS_EmptySet
<1>5. OwnerInv(c) BY <1>3 DEF Init, OwnerInv
<1>6. CountInv BY <1>1, <1>2, <1>4 DEF Init, CountInv
<1>7. PhaseInv(c) BY <1>1, <1>3, <1>4 DEF Init, PhaseInv
<1> QED BY <1>5, <1>6, <1>7 DEF ControlInv

\* worker_count_ is exact at every moment although it is updated under two different
\* mutexes, and the workers come and depart in the owner's phases only.
THEOREM ControlInvariant ==
  ASSUME NEW c \in Caller, Owner(c)
  PROVE  Spec => []ControlInv(c)
<1>1. Init => ControlInv(c)
  BY ControlInit
<1>2. TypeInv /\ ControlInv(c) /\ [Next]_vars => ControlInv(c)'
  BY ControlStep
<1> QED BY <1>1, <1>2, TypeInvariant, PTL DEF Spec

\* When Stop or Join has waited for the workers, none of them is left inside
\* Worker::Run, so that ~Impl may destroy the manager.
THEOREM StoppedQuiet ==
  ASSUME NEW c \in Caller, Owner(c)
  PROVE  Spec => []StoppedPoolIsQuiet
<1>1. ASSUME TypeInv, ControlInv(c)
      PROVE  StoppedPoolIsQuiet
  <2> SUFFICES ASSUME NEW d \in Caller, pc[d] = "set_stopped", NEW w \in Worker
               PROVE  ~Live(w)
    BY DEF StoppedPoolIsQuiet
  <2>1. d = c BY <1>1 DEF ControlInv, OwnerInv
  <2>2. /\ worker_count = 0 /\ Coming = {} /\ Departing = {}
    <3>1. /\ Coming = {} /\ Departing = {} /\ worker_max_count = 0
          /\ worker_count + Cardinality(Coming) = worker_max_count
      BY <1>1, <2>1 DEF ControlInv, PhaseInv
    <3>2. worker_count \in Nat BY <1>1, SizesAssumption DEF TypeInv, TypeOK
    <3>3. Cardinality(Coming) \in Nat BY WorkersFinite
    <3> QED BY <3>1, <3>2, <3>3
  <2>3. Counted = {} BY <1>1, <2>2, WorkersFinite, FS_EmptySet DEF ControlInv, CountInv
  <2>4. pc[w] \in WorkerPCs BY <1>1 DEF TypeInv, TypeOK
  <2> QED BY <2>2, <2>3, <2>4 DEF Live, WorkerPCs, Coming, Departing, Counted
<1> QED BY <1>1, TypeInvariant, ControlInvariant, PTL

-----------------------------------------------------------------------------
(* Sleepers.                                                               *)

\* The workers on their way to the queue.
Queueing == {w \in Worker : AtQueue(w)}

\* A step that takes no worker away from the queue, adds no task and lets no worker
\* go to sleep.
LEMMA SleepersKept ==
  ASSUME TypeInv, SleepersHaveNoWork, monitor' \subseteq monitor,
         Len(tasks') \in Nat, Len(tasks') <= Len(tasks), Queueing \subseteq Queueing'
  PROVE  SleepersHaveNoWork'
<1>1. Len(tasks) \in Nat BY DEF TypeInv, TypeOK
<1>2. IsFiniteSet(Queueing') /\ Queueing \in SUBSET Queueing'
  BY ThreadsAssumption, FS_Subset DEF Queueing
<1>3. Cardinality(Queueing) <= Cardinality(Queueing') BY <1>2, FS_Subset
<1>4. Cardinality(Queueing) \in Nat /\ Cardinality(Queueing') \in Nat
  BY <1>2, FS_Subset, FS_CardinalityType
<1>5. monitor' # {} => Cardinality(Queueing) >= Len(tasks)
  BY DEF SleepersHaveNoWork, Queueing
<1>6. monitor' # {} => Cardinality(Queueing') >= Len(tasks')
  BY <1>1, <1>3, <1>4, <1>5
<1> QED BY <1>6 DEF SleepersHaveNoWork, Queueing

\* Pushing a task wakes a worker for it.
LEMMA SleepersPush ==
  ASSUME TypeInv, SleepersHaveNoWork, NEW k \in Task, NEW n \in 0..Len(tasks), Push(k, n),
         \A w \in Worker : pc[w] \in {"loop", "waiting"} => pc'[w] = pc[w]
  PROVE  SleepersHaveNoWork'
<1>1. Len(tasks) \in Nat /\ n \in Nat /\ n <= Len(tasks) BY DEF TypeInv, TypeOK
<1>2. Len(tasks') = Len(tasks) - n + 1
  <2>1. Remaining(n) \in Seq(Task) /\ Len(Remaining(n)) = Len(tasks) - n
    BY RemainingType DEF TypeInv
  <2>2. tasks' = Append(Remaining(n), k) BY DEF Push
  <2>3. Len(tasks') = Len(Remaining(n)) + 1 BY <2>1, <2>2, AppendProperties
  <2> QED BY <2>1, <2>3
<1>3. SUFFICES ASSUME monitor' # {}
               PROVE  Cardinality(Queueing') >= Len(tasks')
  BY DEF SleepersHaveNoWork, Queueing
<1>4. idle_count = Cardinality(Idle) /\ monitor \subseteq Idle /\ IsFiniteSet(Idle)
  BY FS_Subset, ThreadsAssumption DEF TypeInv, IdleCountExact, Idle
<1>5. monitor' \subseteq monitor BY NotifiedSubset DEF Push
<1>6. idle_count > 0
  <2>1. Idle # {} BY <1>3, <1>4, <1>5
  <2> QED BY <1>4, <2>1, FS_EmptySet, FS_CardinalityType
<1>7. PICK x \in monitor : monitor' = monitor \ {x}
  BY <1>3, <1>5, <1>6 DEF Push, Notified
<1>8. x \in Worker /\ pc[x] = "waiting" /\ x \notin Queueing /\ x \in Queueing'
  BY <1>4, <1>7 DEF Idle, Queueing, AtQueue
<1>9. Queueing \cup {x} \subseteq Queueing'
  BY <1>7, <1>8 DEF Queueing, AtQueue
<1>10. IsFiniteSet(Queueing) /\ IsFiniteSet(Queueing')
  BY ThreadsAssumption, FS_Subset DEF Queueing
<1>11. Cardinality(Queueing \cup {x}) = Cardinality(Queueing) + 1
  BY <1>8, <1>10, FS_AddElement
<1>12. Cardinality(Queueing \cup {x}) <= Cardinality(Queueing')
  BY <1>9, <1>10, FS_Subset
<1>13. Cardinality(Queueing) \in Nat /\ Cardinality(Queueing') \in Nat
  BY <1>10, FS_CardinalityType
<1>14. Cardinality(Queueing) >= Len(tasks)
  BY <1>3, <1>5 DEF SleepersHaveNoWork, Queueing
<1> QED BY <1>1, <1>2, <1>11, <1>12, <1>13, <1>14

\* No step loses a wakeup.
LEMMA SleepersStep ==
  ASSUME NEW c \in Caller, Owner(c), TypeInv, ControlInv(c), SleepersHaveNoWork, [Next]_vars
  PROVE  SleepersHaveNoWork'
<1> USE ThreadsAssumption
    DEF Thread, manager, fields, counts, queue, registry, monitors, locals,
        offers, starting, ghosts
<1>t. /\ TypeOK /\ NewThreadsCreated /\ AddersHaveTasks
      /\ pc \in [Thread -> CallerPCs \cup WorkerPCs]
      /\ tasks \in Seq(Task) /\ Len(tasks) \in Nat
      /\ worker_count \in Nat /\ worker_max_count \in Nat
  BY SizesAssumption DEF TypeInv, TypeOK
<1>s. ASSUME monitor' \subseteq monitor, Len(tasks') \in Nat, Len(tasks') <= Len(tasks),
             \A w \in Worker : pc[w] \in {"loop", "waiting"} => pc'[w] = pc[w]
      PROVE  SleepersHaveNoWork'
  <2>1. Queueing \subseteq Queueing' BY <1>s DEF Queueing, AtQueue
  <2> QED BY <1>s, <2>1, SleepersKept
<1>1. ASSUME NEW t \in Thread, NEW k \in Task, AddPush(t, k)
      PROVE  SleepersHaveNoWork'
  <2>1. PICK n \in 0..Len(tasks) : Push(k, n) BY <1>1 DEF AddPush
  <2> QED BY <1>1, <2>1, SleepersPush DEF AddPush
<1>2. ASSUME NEW t \in Thread, NEW k \in Task, NEW timeout,
             AddBlock(t, k, timeout) \/ AddThrows(t, k, timeout)
      PROVE  SleepersHaveNoWork'
  <2>1. PICK n \in 0..Len(tasks) : tasks' = Remaining(n)
    BY <1>2 DEF AddBlock, AddThrows
  <2>2. Len(tasks') = Len(tasks) - n BY <1>t, <2>1, RemainingType
  <2>3. \A w \in Worker : pc[w] \in {"loop", "waiting"} => pc'[w] = pc[w]
    BY <1>t, <1>2 DEF AddBlock, AddThrows, MayCall, Goto
  <2> QED BY <1>t, <1>s, <1>2, <2>2, <2>3 DEF AddBlock, AddThrows
<1>3. ASSUME NEW t \in Thread, AddResume(t)
      PROVE  SleepersHaveNoWork'
  <2>1. \A w \in Worker : pc[w] \in {"loop", "waiting"} => pc'[w] = pc[w]
    BY <1>t, <1>3 DEF AddResume, AddReturn, Goto
  <2>2. adding[t] \in Task /\ 0 \in 0..Len(tasks)
    BY <1>t, <1>3 DEF AddResume, AddersHaveTasks
  <2>3. CASE UNCHANGED <<queue, monitor>> BY <1>t, <1>s, <2>1, <2>3
  <2>4. CASE Push(adding[t], 0) BY <2>1, <2>2, <2>4, SleepersPush
  <2> QED BY <1>3, <2>3, <2>4 DEF AddResume
<1>4. ASSUME NEW t \in Thread, AddTimedOut(t) \/ SpuriousWakeup(t)
      PROVE  SleepersHaveNoWork'
  BY <1>t, <1>s, <1>4 DEF AddTimedOut, AddReturn, SpuriousWakeup, Goto
<1>5. ASSUME NEW d \in Caller, RemoveNextPending(d)
      PROVE  SleepersHaveNoWork'
  <2>1. Len(tasks') \in Nat /\ Len(tasks') <= Len(tasks)
    BY <1>t, <1>5, HeadTailProperties DEF RemoveNextPending
  <2> QED BY <1>s, <1>5, <2>1 DEF RemoveNextPending
<1>6. ASSUME NEW d \in Caller,
             \/ Start(d) \/ SimpleStart(d)
             \/ (\E n \in WorkerCounts : RemoveWorker(d, n) \/ AddWorker(d, n))
             \/ (\E join \in BOOLEAN : StopImpl(d, join))
             \/ ExpiredTaskCount(d)
      PROVE  SleepersHaveNoWork'
  <2>1. monitor' \subseteq monitor /\ tasks' = tasks
    BY <1>6, NotifiedTimesSubset
    DEF Start, ImplStart, SimpleStart, RemoveWorker, LowerTarget, AddWorker,
        RegisterWorkers, StopImpl, ExpiredTaskCount
  <2>2. \A w \in Worker : pc[w] \in {"loop", "waiting"} => pc'[w] = pc[w]
    BY <1>t, <1>6
    DEF Start, SimpleStart, RemoveWorker, AddWorker, RegisterWorkers, StopImpl,
        ExpiredTaskCount, Goto
  <2> QED BY <1>t, <1>s, <2>1, <2>2
<1>7. ASSUME NEW d \in Caller, Continue(d)
      PROVE  SleepersHaveNoWork'
  <2>1. monitor' \subseteq monitor /\ tasks' = tasks
    BY <1>7, NotifiedTimesSubset
    DEF Continue, SimpleImplStart, ImplStart, SimpleAddWorker, RegisterWorkers,
        StartWorker, InsertId, AwaitWorkers, AddWorkerReturn, RemoveWorkerReturn,
        StopReadCount, StopRemoveWorkers, LowerTarget, StopThrows, StopSetStopped
  <2>2. \A w \in Worker : pc[w] \in {"loop", "waiting"} => pc'[w] = pc[w]
    <3>1. CASE \E v \in Worker : StartWorker(d, v)
      BY <1>t, <3>1 DEF StartWorker, NewThreadsCreated, Goto
    <3> QED
      BY <1>t, <1>7, <3>1
      DEF Continue, SimpleImplStart, SimpleAddWorker, RegisterWorkers, InsertId,
          AwaitWorkers, AddWorkerReturn, RemoveWorkerReturn, StopReadCount,
          StopRemoveWorkers, StopThrows, StopSetStopped, Goto
  <2> QED BY <1>t, <1>s, <2>1, <2>2
<1>8. ASSUME NEW w \in Worker, WorkerWait(w)
      PROVE  SleepersHaveNoWork'
  <2>1. tasks' = <<>> BY <1>8 DEF WorkerWait
  <2>2. Len(tasks') = 0 BY <2>1
  <2>3. Cardinality(Queueing') \in Nat
    BY FS_Subset, FS_CardinalityType DEF Queueing
  <2>4. Cardinality(Queueing') >= Len(tasks') BY <2>2, <2>3
  <2> QED BY <2>4 DEF SleepersHaveNoWork, Queueing
<1>9. ASSUME NEW w \in Worker, WorkerLeave(w)
      PROVE  SleepersHaveNoWork'
  <2>1. worker_count > worker_max_count /\ monitor' = monitor
    BY <1>t, <1>9 DEF WorkerLeave, IsActive
  <2>2. monitor = {}
    BY <1>t, <2>1, WorkersFinite DEF ControlInv, PhaseInv
  <2> QED BY <2>1, <2>2 DEF SleepersHaveNoWork
<1>10. ASSUME NEW w \in Worker, WorkerTake(w)
      PROVE  SleepersHaveNoWork'
  <2>1. PICK n \in 0..Len(tasks) : Take(w, n) \/ TakeNothing(w, n)
    BY <1>10 DEF WorkerTake
  <2>2. monitor' = monitor /\ w \in Queueing BY <1>10 DEF WorkerTake, Queueing
  <2>3. IsFiniteSet(Queueing) /\ IsFiniteSet(Queueing')
        /\ Cardinality(Queueing) \in Nat /\ Cardinality(Queueing') \in Nat
    BY FS_Subset, FS_CardinalityType DEF Queueing
  <2>4. CASE TakeNothing(w, n)
    <3>1. tasks' = <<>> BY <2>4 DEF TakeNothing
    <3>2. Len(tasks') = 0 BY <3>1
    <3>3. Cardinality(Queueing') >= Len(tasks') BY <2>3, <3>2
    <3> QED BY <3>3 DEF SleepersHaveNoWork, Queueing
  <2>5. CASE Take(w, n)
    <3>1. n < Len(tasks) /\ n + 1 \in 0..Len(tasks) BY <1>t, <2>5 DEF Take
    <3>2. Len(tasks') = Len(tasks) - (n + 1)
      BY <1>t, <2>5, <3>1, RemainingType DEF Take
    <3>3. Queueing' = Queueing \ {w}
      BY <1>t, <2>2, <2>5 DEF Queueing, AtQueue, Take, Goto
    <3>4. Cardinality(Queueing') = Cardinality(Queueing) - 1
      BY <2>2, <2>3, <3>3, FS_RemoveElement
    <3>5. monitor' # {} => Cardinality(Queueing) >= Len(tasks)
      BY <2>2 DEF SleepersHaveNoWork, Queueing
    <3>6. monitor' # {} => Cardinality(Queueing') >= Len(tasks')
      BY <1>t, <2>3, <3>1, <3>2, <3>4, <3>5
    <3> QED BY <3>6 DEF SleepersHaveNoWork, Queueing
  <2> QED BY <2>1, <2>4, <2>5
<1>11. ASSUME NEW w \in Worker,
              \/ WorkerBegin(w) \/ WorkerCount(w) \/ WorkerCounted(w)
              \/ WorkerNotifyStarted(w) \/ WorkerFinish(w) \/ WorkerExit(w)
              \/ WorkerUncount(w) \/ WorkerExited(w)
      PROVE  SleepersHaveNoWork'
  BY <1>t, <1>s, <1>11
  DEF WorkerBegin, WorkerCount, WorkerCounted, WorkerNotifyStarted, WorkerFinish,
      WorkerExit, WorkerUncount, WorkerExited, Goto
<1>12. ASSUME NEW k \in Task, Expire(k)
      PROVE  SleepersHaveNoWork'
  BY <1>t, <1>s, <1>12 DEF Expire
<1>13. CASE UNCHANGED vars
  BY <1>t, <1>s, <1>13 DEF vars
<1> QED
  BY <1>1, <1>2, <1>3, <1>4, <1>5, <1>6, <1>7, <1>8, <1>9, <1>10, <1>11, <1>12, <1>13
  DEF Next, Call, Offer, Wakeup, Run

\* No wakeup is lost: a worker sleeps only while as many others as there are queued
\* tasks are on their way to the queue, whoever adds, takes back or expires tasks.
THEOREM NoLostWakeup ==
  ASSUME NEW c \in Caller, Owner(c)
  PROVE  Spec => []SleepersHaveNoWork
<1>1. Init => SleepersHaveNoWork BY DEF Init, SleepersHaveNoWork
<1>2. TypeInv /\ ControlInv(c) /\ SleepersHaveNoWork /\ [Next]_vars => SleepersHaveNoWork'
  BY SleepersStep
<1> QED BY <1>1, <1>2, TypeInvariant, ControlInvariant, PTL DEF Spec

-----------------------------------------------------------------------------
(* Tasks that are executed, and what Join owes.                            *)

\* A step that starts no task and ends none that goes on executing.
LEMMA RunnersKept ==
  ASSUME TypeOK, RunnersInv,
         \A k \in Task : status'[k] = "executing" => status[k] = "executing",
         \A w \in Worker : pc[w] \in Busy /\ status'[task[w]] = "executing" =>
           pc'[w] \in Busy /\ task'[w] = task[w]
  PROVE  RunnersInv'
<1> SUFFICES ASSUME NEW k \in Task, status'[k] = "executing"
             PROVE  \E w \in Worker : pc'[w] \in Busy /\ task'[w] = k
  BY DEF RunnersInv
<1>1. PICK w \in Worker : pc[w] \in Busy /\ task[w] = k BY DEF RunnersInv
<1> QED BY <1>1

\* Every step keeps a worker with every executing task.
LEMMA RunnersStep ==
  ASSUME TypeInv, TaskInv, RunnersInv, [Next]_vars
  PROVE  RunnersInv'
<1> USE ThreadsAssumption
    DEF Thread, manager, fields, counts, queue, registry, monitors, locals,
        offers, starting, ghosts
<1>t. /\ TypeOK /\ NewThreadsCreated /\ AddersHaveTasks
      /\ pc \in [Thread -> CallerPCs \cup WorkerPCs]
      /\ task \in [Worker -> Task \cup {None}]
      /\ status \in [Task -> Statuses] /\ tasks \in Seq(Task) /\ Len(tasks) \in Nat
  BY DEF TypeInv, TypeOK
<1>i. Holds(tasks, status) /\ OffersInv /\ RunsInv BY DEF TaskInv
<1>d. \A n \in 0..Len(tasks) :
        /\ StatusWithout(n) \in [Task -> Statuses]
        /\ \A k \in Task : StatusWithout(n)[k] = "executing" => status[k] = "executing"
  BY <1>t, StatusWithoutType DEF StatusWithout
<1>s. ASSUME status' = status, task' = task,
             \A w \in Worker : pc[w] \in Busy => pc'[w] \in Busy
      PROVE  RunnersInv'
  BY <1>t, <1>s, RunnersKept
<1>1. ASSUME NEW t \in Thread, Offer(t)
      PROVE  RunnersInv'
  <2>1. PICK k \in Task, n \in 0..Len(tasks), x \in {"pending", "rejected", "offered"} :
          status' = [StatusWithout(n) EXCEPT ![k] = x]
    BY <1>1 DEF Offer, AddPush, Push, AddBlock, AddThrows
  <2>2. task' = task /\ \A w \in Worker : pc[w] \in Busy => pc'[w] \in Busy
    BY <1>t, <1>1 DEF Offer, AddPush, AddBlock, AddThrows, Goto, Busy
  <2>3. \A j \in Task : status'[j] = "executing" => status[j] = "executing"
    BY <1>d, <2>1
  <2> QED BY <1>t, <2>2, <2>3, RunnersKept
<1>2. ASSUME NEW t \in Thread, Wakeup(t)
      PROVE  RunnersInv'
  <2>1. /\ pc[t] = "add_wait" /\ adding[t] \in Task
        /\ task' = task /\ \A w \in Worker : pc[w] \in Busy => pc'[w] \in Busy
    BY <1>t, <1>2 DEF Wakeup, AddResume, AddTimedOut, AddReturn, AddersHaveTasks, Goto, Busy
  <2>2. \A j \in Task : status'[j] = "executing" => status[j] = "executing"
    <3>1. 0 \in 0..Len(tasks) BY <1>t
    <3>2. CASE AddTimedOut(t) BY <1>t, <2>1, <3>2 DEF AddTimedOut
    <3>3. CASE AddResume(t) BY <1>t, <1>d, <2>1, <3>1, <3>3 DEF AddResume, Push
    <3> QED BY <1>2, <3>2, <3>3 DEF Wakeup
  <2> QED BY <1>t, <2>1, <2>2, RunnersKept
<1>3. ASSUME NEW d \in Caller, RemoveNextPending(d)
      PROVE  RunnersInv'
  <2>1. \A j \in Task : status'[j] = "executing" => status[j] = "executing"
    BY <1>t, <1>3 DEF RemoveNextPending
  <2> QED BY <1>t, <1>3, <2>1, RunnersKept DEF RemoveNextPending
<1>4. ASSUME NEW w \in Worker, WorkerTake(w)
      PROVE  RunnersInv'
  <2>1. PICK n \in 0..Len(tasks) : Take(w, n) \/ TakeNothing(w, n)
    BY <1>4 DEF WorkerTake
  <2>2. pc[w] \notin Busy BY <1>4 DEF WorkerTake, AtQueue, Busy
  <2>3. CASE TakeNothing(w, n)
    BY <1>t, <1>d, <2>1, <2>2, <2>3, RunnersKept DEF TakeNothing, Goto
  <2>4. CASE Take(w, n)
    <3> DEFINE k == tasks[n + 1]
    <3>1. /\ pc' = [pc EXCEPT ![w] = "running"] /\ task' = [task EXCEPT ![w] = k]
          /\ status' = [StatusWithout(n) EXCEPT ![k] = "executing"]
      BY <2>4 DEF Take, Goto
    <3> HIDE DEF k
    <3> SUFFICES ASSUME NEW j \in Task, status'[j] = "executing"
                 PROVE  \E v \in Worker : pc'[v] \in Busy /\ task'[v] = j
      BY DEF RunnersInv
    <3>2. CASE j = k BY <1>t, <3>1, <3>2 DEF Busy
    <3>3. CASE j # k
      <4>1. status[j] = "executing" BY <1>d, <2>1, <3>1, <3>3
      <4>2. PICK v \in Worker : pc[v] \in Busy /\ task[v] = j BY <4>1 DEF RunnersInv
      <4> QED BY <1>t, <2>2, <3>1, <4>2
    <3> QED BY <3>2, <3>3
  <2> QED BY <2>1, <2>3, <2>4
<1>5. ASSUME NEW w \in Worker, WorkerFinish(w)
      PROVE  RunnersInv'
  <2>1. PICK result \in {"complete", "failed"} :
          status' = [status EXCEPT ![task[w]] = result]
    BY <1>5 DEF WorkerFinish
  <2>2. /\ pc[w] = "running" /\ pc' = [pc EXCEPT ![w] = "loop"]
        /\ task' = [task EXCEPT ![w] = None]
    BY <1>5 DEF WorkerFinish, Goto
  <2>3. task[w] \in Task BY <1>i, <2>2 DEF RunsInv, Busy
  <2>4. /\ status'[task[w]] # "executing"
        /\ \A j \in Task : status'[j] = "executing" => status[j] = "executing"
    BY <1>t, <2>1, <2>3
  <2>5. \A v \in Worker : pc[v] \in Busy /\ status'[task[v]] = "executing" =>
          pc'[v] \in Busy /\ task'[v] = task[v]
    BY <1>t, <2>2, <2>4
  <2> QED BY <1>t, <2>4, <2>5, RunnersKept
<1>6. ASSUME NEW d \in Caller,
             \/ Start(d) \/ SimpleStart(d)
             \/ (\E n \in WorkerCounts : RemoveWorker(d, n) \/ AddWorker(d, n))
             \/ (\E join \in BOOLEAN : StopImpl(d, join))
             \/ ExpiredTaskCount(d)
      PROVE  RunnersInv'
  BY <1>t, <1>s, <1>6
  DEF Start, ImplStart, SimpleStart, RemoveWorker, LowerTarget, AddWorker,
      RegisterWorkers, StopImpl, ExpiredTaskCount, Goto, Busy
<1>7. ASSUME NEW d \in Caller, Continue(d)
      PROVE  RunnersInv'
  <2>1. status' = status /\ task' = task
    BY <1>7
    DEF Continue, SimpleImplStart, ImplStart, SimpleAddWorker, RegisterWorkers,
        StartWorker, InsertId, AwaitWorkers, AddWorkerReturn, RemoveWorkerReturn,
        StopReadCount, StopRemoveWorkers, LowerTarget, StopThrows, StopSetStopped
  <2>2. \A w \in Worker : pc[w] \in Busy => pc'[w] \in Busy
    <3>1. CASE \E v \in Worker : StartWorker(d, v)
      BY <1>t, <3>1 DEF StartWorker, NewThreadsCreated, Goto, Busy
    <3> QED
      BY <1>t, <1>7, <3>1
      DEF Continue, SimpleImplStart, SimpleAddWorker, RegisterWorkers, InsertId,
          AwaitWorkers, AddWorkerReturn, RemoveWorkerReturn, StopReadCount,
          StopRemoveWorkers, StopThrows, StopSetStopped, Goto, Busy
  <2> QED BY <1>s, <2>1, <2>2
<1>8. ASSUME NEW w \in Worker,
             \/ WorkerBegin(w) \/ WorkerCount(w) \/ WorkerCounted(w)
             \/ WorkerNotifyStarted(w) \/ WorkerWait(w) \/ WorkerLeave(w)
             \/ WorkerExit(w) \/ WorkerUncount(w) \/ WorkerExited(w)
      PROVE  RunnersInv'
  BY <1>t, <1>s, <1>8
  DEF WorkerBegin, WorkerCount, WorkerCounted, WorkerNotifyStarted, WorkerWait,
      WorkerLeave, WorkerExit, WorkerUncount, WorkerExited, AtQueue, Goto, Busy
<1>9. ASSUME NEW t \in Thread, SpuriousWakeup(t)
      PROVE  RunnersInv'
  BY <1>s, <1>9 DEF SpuriousWakeup
<1>10. ASSUME NEW k \in Task, Expire(k)
      PROVE  RunnersInv'
  BY <1>s, <1>10 DEF Expire
<1>11. CASE UNCHANGED vars
  BY <1>s, <1>11 DEF vars
<1> QED
  BY <1>1, <1>2, <1>3, <1>4, <1>5, <1>6, <1>7, <1>8, <1>9, <1>10, <1>11
  DEF Next, Call, Run

\* Every task that is being executed has a worker that executes it.
LEMMA RunnersInvariant == Spec => []RunnersInv
<1>1. Init => RunnersInv BY DEF Init, RunnersInv
<1>2. TypeInv /\ TaskInv /\ RunnersInv /\ [Next]_vars => RunnersInv'
  BY RunnersStep
<1> QED BY <1>1, <1>2, TypeInvariant, TaskInvariant, PTL DEF Spec

\* TotalTaskCount, computed from the length of the queue, worker_count_ and
\* idle_count_, never misses a task that is queued or being run.
THEOREM TotalCovers ==
  ASSUME NEW c \in Caller, Owner(c)
  PROVE  Spec => []TotalTaskCountCovers
<1>1. ASSUME TypeInv, TaskInv, RunnersInv, ControlInv(c)
      PROVE  TotalTaskCountCovers
  <2> DEFINE BusyWorkers == {w \in Worker : pc[w] \in Busy}
             Pending == {k \in Task : status[k] = "pending"}
             Executing == {k \in Task : status[k] = "executing"}
             Both == {k \in Task : status[k] \in {"pending", "executing"}}
             f == [w \in BusyWorkers |-> task[w]]
  <2>1. /\ tasks \in Seq(Task) /\ Len(tasks) \in Nat
        /\ \A i \in 1..Len(tasks) : tasks[i] \in Task
        /\ idle_count \in Nat /\ idle_count = Cardinality(Idle)
        /\ worker_count \in Nat /\ worker_count = Cardinality(Counted)
    BY <1>1, SizesAssumption
    DEF TypeInv, TypeOK, IdleCountExact, ControlInv, CountInv
  <2>2. IsFiniteSet(Pending) /\ Cardinality(Pending) = Len(tasks)
    <3>1. Pending = {tasks[i] : i \in 1..Len(tasks)}
      BY <1>1, <2>1 DEF TaskInv, Holds
    <3>2. Len(tasks) \in 0..Len(tasks) BY <2>1
    <3> QED BY <1>1, <3>1, <3>2, PrefixCount
  <2>3. IsFiniteSet(BusyWorkers) /\ IsFiniteSet(Idle) /\ IsFiniteSet(Counted)
    BY ThreadsAssumption, FS_Subset DEF Idle, Counted
  <2>4. f \in Surjection(BusyWorkers, Executing)
    <3>1. f \in [BusyWorkers -> Executing] BY <1>1 DEF TaskInv, RunsInv
    <3>2. \A k \in Executing : \E w \in BusyWorkers : f[w] = k
      BY <1>1 DEF RunnersInv
    <3> QED BY <3>1, <3>2 DEF Surjection
  <2> HIDE DEF f
  <2>5. IsFiniteSet(Executing) /\ Cardinality(Executing) <= Cardinality(BusyWorkers)
    BY <2>3, <2>4, FS_Surjection
  <2>6. Cardinality(BusyWorkers) + Cardinality(Idle) <= Cardinality(Counted)
    <3>1. BusyWorkers \cup Idle \in SUBSET Counted /\ BusyWorkers \cap Idle = {}
      BY DEF Idle, Counted, Busy
    <3> HIDE DEF BusyWorkers
    <3>2. Cardinality(BusyWorkers \cup Idle) =
            Cardinality(BusyWorkers) + Cardinality(Idle) - Cardinality({})
      BY <2>3, <3>1, FS_Union
    <3>3. Cardinality(BusyWorkers \cup Idle) <= Cardinality(Counted)
      BY <2>3, <3>1, FS_Subset
    <3>4. Cardinality({}) = 0 BY FS_EmptySet
    <3>5. Cardinality(BusyWorkers) \in Nat /\ Cardinality(Idle) \in Nat
          /\ Cardinality(Counted) \in Nat
      BY <2>3, FS_CardinalityType
    <3> QED BY <3>2, <3>3, <3>4, <3>5
  <2>7. Cardinality(Both) <= Cardinality(Pending) + Cardinality(Executing)
    <3>1. Both = Pending \cup Executing /\ Pending \cap Executing = {} OBVIOUS
    <3> HIDE DEF Both, Pending, Executing
    <3>2. Cardinality(Both) =
            Cardinality(Pending) + Cardinality(Executing) - Cardinality({})
      BY <2>2, <2>5, <3>1, FS_Union
    <3>3. Cardinality({}) = 0 /\ Cardinality(Pending) \in Nat /\ Cardinality(Executing) \in Nat
      BY <2>2, <2>5, FS_EmptySet, FS_CardinalityType
    <3> QED BY <3>2, <3>3
  <2>8. /\ Cardinality(Both) \in Nat /\ Cardinality(Executing) \in Nat
        /\ Cardinality(BusyWorkers) \in Nat
    <3>1. Both = Pending \cup Executing OBVIOUS
    <3>2. IsFiniteSet(Both)
      <4> HIDE DEF Both, Pending, Executing
      <4> QED BY <2>2, <2>5, <3>1, FS_Union
    <3> QED BY <2>3, <2>5, <3>2, FS_CardinalityType
  <2>9. Len(tasks) + worker_count - idle_count >= Cardinality(Both)
    <3> HIDE DEF Both, Pending, Executing, BusyWorkers
    <3> QED BY <2>1, <2>2, <2>5, <2>6, <2>7, <2>8
  <2> QED BY <2>9 DEF TotalTaskCountCovers, TotalTaskCount
<1> QED
  BY <1>1, TypeInvariant, TaskInvariant, RunnersInvariant, ControlInvariant, PTL

\* An accepted task is never offered, refused or queued again, as in the task pool
\* that the manager implements.
LEMMA AcceptedMoves ==
  ASSUME TypeInv, TaskInv, [Next]_vars, NEW k \in Task,
         status[k] \notin {"new", "offered", "rejected"}
  PROVE  /\ status'[k] \notin {"new", "offered", "rejected"}
         /\ status'[k] = "pending" => status[k] = "pending"
<1>1. [Pool!Next]_Pool!vars BY PoolMoves
<1>2. /\ status[k] \in Statuses /\ tasks \in Seq(Task)
      /\ \A i \in 1..Len(tasks) : tasks[i] \in Task
  BY DEF TypeInv, TypeOK
<1>3. /\ Outcome[k] \notin {"new", "rejected"}
      /\ Outcome[k] = "pending" => status[k] = "pending"
  BY <1>2 DEF Outcome, OutcomeOf, Statuses
<1>4. \A n \in Nat : /\ Pool!Expired(n)[k] \notin {"new", "rejected"}
                     /\ Pool!Expired(n)[k] = "pending" => Outcome[k] = "pending"
  BY <1>3 DEF Pool!Expired
<1>5. DOMAIN Outcome = Task /\ \A n \in Nat : DOMAIN Pool!Expired(n) = Task
  BY DEF Outcome, Pool!Expired
<1> DEFINE Kept == /\ Outcome'[k] \notin {"new", "rejected"}
                   /\ Outcome'[k] = "pending" => Outcome[k] = "pending"
<1>6. Kept
  <2>1. CASE UNCHANGED Pool!vars BY <1>3, <2>1 DEF Pool!vars
  <2>2. ASSUME NEW n \in 0..Len(tasks), Pool!Discard(n) \/ Pool!Dispatch(n)
        PROVE  Kept
    BY <1>2, <1>3, <1>4, <1>5, <2>2 DEF Pool!Discard, Pool!Dispatch
  <2>3. ASSUME NEW n \in 0..Len(tasks), NEW j \in Task, Pool!Accept(n, j) \/ Pool!Reject(n, j)
        PROVE  Kept
    <3>1. j # k BY <1>3, <2>3 DEF Pool!Accept, Pool!Reject
    <3> QED BY <1>2, <1>3, <1>4, <1>5, <2>3, <3>1 DEF Pool!Accept, Pool!Reject
  <2>4. ASSUME (\E j \in Task : Pool!Finish(j)) \/ Pool!HandBack
        PROVE  Kept
    BY <1>3, <1>5, <2>4 DEF Pool!Finish, Pool!HandBack
  <2> QED BY <1>1, <2>1, <2>2, <2>3, <2>4 DEF Pool!Next
<1>7. Outcome'[k] = OutcomeOf(status'[k]) BY DEF Outcome
<1>8. status'[k] \in Statuses
  <2>1. TypeOK' BY TypeStep
  <2> QED BY <2>1 DEF TypeOK
<1> QED BY <1>3, <1>6, <1>7, <1>8 DEF OutcomeOf, Statuses

\* Every step keeps what Join owes: its workers stay while one of its tasks is queued.
LEMMA OwedStep ==
  ASSUME NEW c \in Caller, Owner(c), TypeInv, TaskInv, ControlInv(c), OwedInv, [Next]_vars
  PROVE  OwedInv'
<1> USE ThreadsAssumption
    DEF Thread, manager, fields, counts, queue, registry, monitors, locals,
        offers, starting, ghosts
<1>t. /\ TypeOK /\ NewThreadsCreated
      /\ pc \in [Thread -> CallerPCs \cup WorkerPCs]
      /\ status \in [Task -> Statuses] /\ tasks \in Seq(Task) /\ Len(tasks) \in Nat
      /\ \A i \in 1..Len(tasks) : tasks[i] \in Task
      /\ worker_count \in Nat /\ worker_max_count \in Nat
      /\ owed \subseteq Task
  BY SizesAssumption DEF TypeInv, TypeOK
<1>i. /\ Holds(tasks, status) /\ OwnerInv(c) /\ CountInv /\ PhaseInv(c)
  BY DEF TaskInv, ControlInv
<1>m. \A k \in Task : status[k] \notin {"new", "offered", "rejected"} =>
        /\ status'[k] \notin {"new", "offered", "rejected"}
        /\ status'[k] = "pending" => status[k] = "pending"
  BY AcceptedMoves

\* A step that does not call Join, when no task is owed or no worker moves out.
<1>s. ASSUME owed' = owed,
             state' = state \/ (state = "UNINITIALIZED" /\ state' = "STARTED")
             \/ state' = "STOPPED",
             state = "JOINING" /\ (\E k \in owed : status[k] = "pending") =>
               Departing' \subseteq Departing /\ worker_count' = worker_count
      PROVE  OwedInv'
  <2>1. owed' # {} => state' \in {"JOINING", "STOPPED"} BY <1>s DEF OwedInv
  <2>2. \A k \in owed' : status'[k] \notin {"new", "offered", "rejected"}
    BY <1>t, <1>m, <1>s DEF OwedInv
  <2>3. ASSUME state' = "JOINING", NEW k \in owed, status'[k] = "pending"
        PROVE  Departing' = {} /\ worker_count' > 0
    <3>1. state = "JOINING" BY <1>s, <2>3
    <3>2. status[k] = "pending" BY <1>t, <1>m, <2>3 DEF OwedInv
    <3> QED BY <1>s, <3>1, <3>2 DEF OwedInv
  <2> QED BY <1>s, <2>1, <2>2, <2>3 DEF OwedInv
<1>j. state = "JOINING" => Coming = {} BY <1>i DEF OwnerInv, PhaseInv
<1>1. ASSUME NEW d \in Caller, NEW join \in BOOLEAN, StopImpl(d, join)
      PROVE  OwedInv'
  <2>1. d = c /\ pc[c] = "idle" BY <1>i, <1>1 DEF StopImpl, MayCall, Owner
  <2>2. state \notin {"STOPPING", "JOINING", "STOPPED"}
    BY <1>i, <1>1, <2>1 DEF StopImpl, OwnerInv
  <2>3. owed = {} BY <2>2 DEF OwedInv
  <2>4. /\ state' = IF join THEN "JOINING" ELSE "STOPPING"
        /\ owed' = IF join /\ worker_count > 0
                   THEN {tasks[i] : i \in 1..Len(tasks)} ELSE {}
        /\ UNCHANGED <<worker_count, status, tasks>>
        /\ pc' = [pc EXCEPT ![c] = "stop_read"]
    BY <1>1, <2>1, <2>2, <2>3 DEF StopImpl, Goto
  <2>5. Departing = {} BY <1>i, <2>1 DEF PhaseInv
  <2>6. Departing' = {} BY <1>t, <2>4, <2>5 DEF Departing
  <2>7. \A k \in owed' : k \in Task /\ status'[k] = "pending" /\ worker_count' > 0 /\ join
    BY <1>t, <1>i, <2>4 DEF Holds
  <2> QED BY <2>4, <2>6, <2>7 DEF OwedInv
<1>2. ASSUME NEW d \in Caller,
             \/ Start(d) \/ SimpleStart(d) \/ RemoveNextPending(d) \/ ExpiredTaskCount(d)
             \/ (\E n \in WorkerCounts : RemoveWorker(d, n) \/ AddWorker(d, n))
      PROVE  OwedInv'
  <2>1. /\ UNCHANGED <<owed, worker_count>>
        /\ state' = state \/ (state = "UNINITIALIZED" /\ state' = "STARTED")
    BY <1>2
    DEF Start, ImplStart, SimpleStart, RemoveWorker, LowerTarget, AddWorker,
        RegisterWorkers, RemoveNextPending, ExpiredTaskCount
  <2>2. Departing' \subseteq Departing
    BY <1>t, <1>2
    DEF Start, SimpleStart, RemoveWorker, AddWorker, RegisterWorkers,
        RemoveNextPending, ExpiredTaskCount, Goto, Departing
  <2> QED BY <1>s, <2>1, <2>2
<1>3. ASSUME NEW d \in Caller, Continue(d)
      PROVE  OwedInv'
  <2>1. /\ UNCHANGED <<owed, worker_count>>
        /\ \/ state' = state \/ (state = "UNINITIALIZED" /\ state' = "STARTED")
           \/ state' = "STOPPED"
    BY <1>3
    DEF Continue, SimpleImplStart, ImplStart, SimpleAddWorker, RegisterWorkers,
        StartWorker, InsertId, AwaitWorkers, AddWorkerReturn, RemoveWorkerReturn,
        StopReadCount, StopRemoveWorkers, LowerTarget, StopThrows, StopSetStopped
  <2>2. Departing' \subseteq Departing
    BY <1>t, <1>3
    DEF Continue, SimpleImplStart, SimpleAddWorker, RegisterWorkers, StartWorker,
        InsertId, AwaitWorkers, AddWorkerReturn, RemoveWorkerReturn, StopReadCount,
        StopRemoveWorkers, StopThrows, StopSetStopped, Goto, Departing
  <2> QED BY <1>s, <2>1, <2>2
<1>4. ASSUME NEW t \in Thread, Offer(t) \/ Wakeup(t) \/ SpuriousWakeup(t)
      PROVE  OwedInv'
  <2>1. UNCHANGED <<owed, worker_count, state>>
    BY <1>4
    DEF Offer, AddPush, AddBlock, AddThrows, Wakeup, AddResume, AddTimedOut, SpuriousWakeup
  <2>2. Departing' \subseteq Departing
    BY <1>t, <1>4
    DEF Offer, AddPush, AddBlock, AddThrows, Wakeup, AddResume, AddTimedOut,
        AddReturn, SpuriousWakeup, Goto, Departing
  <2> QED BY <1>s, <2>1, <2>2
<1>5. ASSUME NEW w \in Worker,
             \/ WorkerCounted(w) \/ WorkerNotifyStarted(w) \/ WorkerWait(w)
             \/ WorkerFinish(w) \/ WorkerExit(w) \/ WorkerExited(w)
      PROVE  OwedInv'
  <2>1. UNCHANGED <<owed, worker_count, state>>
    BY <1>5
    DEF WorkerCounted, WorkerNotifyStarted, WorkerWait, WorkerFinish, WorkerExit,
        WorkerExited
  <2>2. Departing' \subseteq Departing
    BY <1>t, <1>5
    DEF WorkerCounted, WorkerNotifyStarted, WorkerWait, WorkerFinish, WorkerExit,
        WorkerExited, Goto, Departing
  <2> QED BY <1>s, <2>1, <2>2
<1>6. ASSUME NEW w \in Worker, WorkerTake(w)
      PROVE  OwedInv'
  <2>1. UNCHANGED <<owed, worker_count, state>> BY <1>6 DEF WorkerTake
  <2>2. Departing' \subseteq Departing
    BY <1>t, <1>6 DEF WorkerTake, Take, TakeNothing, Goto, Departing
  <2> QED BY <1>s, <2>1, <2>2
<1>7. ASSUME NEW w \in Worker, WorkerBegin(w) \/ WorkerCount(w)
      PROVE  OwedInv'
  <2>1. UNCHANGED <<owed, state>> BY <1>7 DEF WorkerBegin, WorkerCount
  <2>2. w \in Coming BY <1>7 DEF WorkerBegin, WorkerCount, Coming
  <2> QED BY <1>j, <1>s, <2>1, <2>2
<1>8. ASSUME NEW w \in Worker, WorkerLeave(w)
      PROVE  OwedInv'
  <2>1. UNCHANGED <<owed, worker_count, state>> BY <1>8 DEF WorkerLeave
  <2>2. state = "JOINING" => tasks = <<>> BY <1>8 DEF WorkerLeave, IsActive
  <2>3. state = "JOINING" => \A k \in Task : status[k] # "pending"
    <3>1. tasks = <<>> => Len(tasks) = 0 OBVIOUS
    <3>2. Len(tasks) = 0 => \A k \in Task : status[k] # "pending" BY <1>i DEF Holds
    <3> QED BY <2>2, <3>1, <3>2
  <2> QED BY <1>t, <1>s, <2>1, <2>3
<1>9. ASSUME NEW w \in Worker, WorkerUncount(w)
      PROVE  OwedInv'
  <2>1. UNCHANGED <<owed, state>> /\ w \in Departing
    BY <1>9 DEF WorkerUncount, Departing
  <2>2. ~(state = "JOINING" /\ \E k \in owed : status[k] = "pending")
    BY <2>1 DEF OwedInv
  <2> QED BY <1>s, <2>1, <2>2
<1>10. ASSUME NEW k \in Task, Expire(k)
      PROVE  OwedInv'
  BY <1>s, <1>10 DEF Expire, Departing
<1>11. CASE UNCHANGED vars
  BY <1>s, <1>11 DEF vars, Departing
<1> QED
  BY <1>1, <1>2, <1>3, <1>4, <1>5, <1>6, <1>7, <1>8, <1>9, <1>10, <1>11
  DEF Next, Call, Run

\* Join leaves no task behind that was queued when it was called on a pool with
\* workers: each has been run to its end, has expired or was handed back.
THEOREM JoinDrainsQueue ==
  ASSUME NEW c \in Caller, Owner(c)
  PROVE  Spec => []JoinDrains
<1>1. Init => OwedInv BY DEF Init, OwedInv
<1>2. TypeInv /\ TaskInv /\ ControlInv(c) /\ OwedInv /\ [Next]_vars => OwedInv'
  BY OwedStep
<1>3. ASSUME TypeInv, RunnersInv, ControlInv(c), StoppedPoolIsQuiet, OwedInv
      PROVE  JoinDrains
  <2> SUFFICES ASSUME NEW d \in Caller, pc[d] = "set_stopped", state = "JOINING", NEW k \in owed
               PROVE  status[k] \in {"complete", "failed", "expired", "returned"}
    BY DEF JoinDrains
  <2>1. k \in Task /\ status[k] \in Statuses /\ \A w \in Worker : pc[w] \in WorkerPCs
    BY <1>3 DEF TypeInv, TypeOK
  <2>2. \A w \in Worker : ~Live(w) BY <1>3 DEF StoppedPoolIsQuiet
  <2>3. status[k] # "executing" BY <1>3, <2>1, <2>2 DEF RunnersInv, Live, Busy
  <2>4. Counted = {} BY <2>2 DEF Live, Counted
  <2>5. worker_count = 0 BY <1>3, <2>4, FS_EmptySet DEF ControlInv, CountInv
  <2>6. status[k] # "pending" BY <1>3, <2>5 DEF OwedInv
  <2> QED BY <1>3, <2>1, <2>3, <2>6 DEF OwedInv, Statuses
<1> QED
  BY <1>1, <1>2, <1>3, TypeInvariant, TaskInvariant, RunnersInvariant,
     ControlInvariant, StoppedQuiet, PTL DEF Spec

-----------------------------------------------------------------------------
(* Add, called by a task.                                                  *)

\* SimpleThreadManager as one user drives it: it is started once, and only its user and
\* its tasks add to it.  With a second caller of Add, or a second start, a worker can
\* run a task before the starting thread has put the worker's id into id_map_.
SingleUser(c) ==
  /\ Caller = {c}
  /\ Calls[c] \cap {"Start", "AddWorker", "RemoveWorker"} = {}
  /\ SimpleWorkerCount = Cardinality(Worker)

\* Some worker's id may be missing from id_map_.
Enrolling(c) == pc[c] = "start_workers" \/ \E w \in Worker : pc[w] = "none"

\* Every worker's id is in id_map_ before there is a task.
EnrolledInv(c) ==
  /\ Enrolling(c) => \A k \in Task : status[k] \in {"new", "rejected"}
  /\ (\E w \in Worker : pc[w] = "none") /\ pc[c] # "simple_add" => state # "STARTED"
  /\ \A w \in Worker : Live(w) =>
       w \in id_map \/ (pc[c] = "start_workers" /\ inserting[c] = w)
  /\ \A w \in Worker : pc[w] = "created" =>
       pc[c] = "start_workers" /\ w \in new_threads[c]
  /\ NoWorkerSleepsInAdd

\* The one user is the owner.
LEMMA UserOwns ==
  ASSUME NEW c \in Caller, SingleUser(c)
  PROVE  Owner(c)
BY DEF SingleUser, Owner

\* While ids may be missing from id_map_ the queue is empty, nobody is in Add and no
\* worker runs a task.
LEMMA EnrollingIsQuiet ==
  ASSUME NEW c \in Caller, TypeInv, TaskInv, EnrolledInv(c), Enrolling(c)
  PROVE  /\ tasks = <<>>
         /\ \A t \in Thread : pc[t] # "add_wait"
         /\ \A w \in Worker : pc[w] # "running"
<1>1. \A k \in Task : status[k] \in {"new", "rejected"} BY DEF EnrolledInv
<1>2. tasks \in Seq(Task) /\ Len(tasks) \in Nat /\ \A i \in 1..Len(tasks) : tasks[i] \in Task
  BY DEF TypeInv, TypeOK
<1>3. ~ 1 \in 1..Len(tasks) BY <1>1, <1>2 DEF TaskInv, Holds
<1>4. tasks = <<>> BY <1>2, <1>3, EmptySeq
<1>5. \A t \in Thread : pc[t] # "add_wait"
  BY <1>1 DEF TypeInv, AddersHaveTasks, TaskInv, OffersInv
<1>6. \A w \in Worker : pc[w] # "running"
  BY <1>1 DEF TaskInv, RunsInv, Busy
<1> QED BY <1>4, <1>5, <1>6

\* When Stop or Join finds its target reached, no worker is left in Worker::Run.
LEMMA AllGone ==
  ASSUME NEW c \in Caller, TypeInv, ControlInv(c), pc[c] = "await_stopped",
         TargetReached, WorkerMutexFree
  PROVE  \A w \in Worker : ~Live(w)
<1>1. worker_count = 0 /\ Coming = {}
  BY DEF ControlInv, PhaseInv, TargetReached
<1>2. Counted = {} BY <1>1, WorkersFinite, FS_EmptySet DEF ControlInv, CountInv
<1>3. \A w \in Worker : pc[w] \in WorkerPCs BY DEF TypeInv, TypeOK
<1> QED BY <1>1, <1>2, <1>3 DEF Live, WorkerPCs, Coming, Counted, WorkerMutexFree

\* Every step keeps the workers enrolled before there are tasks.
LEMMA EnrolledStep ==
  ASSUME NEW c \in Caller, SingleUser(c), TypeInv, TaskInv, ControlInv(c), EnrolledInv(c),
         [Next]_vars
  PROVE  EnrolledInv(c)'
<1> USE ThreadsAssumption
    DEF Thread, manager, fields, counts, queue, registry, monitors, locals,
        offers, starting, ghosts
<1>t. /\ TypeOK /\ NewThreadsCreated
      /\ pc \in [Thread -> CallerPCs \cup WorkerPCs]
      /\ status \in [Task -> Statuses] /\ tasks \in Seq(Task) /\ Len(tasks) \in Nat
      /\ new_threads \in [Caller -> SUBSET Worker]
      /\ inserting \in [Caller -> Worker \cup {None}]
      /\ \A w \in Worker : w # c /\ pc[w] \in WorkerPCs
      /\ id_map \subseteq Worker
  BY DEF TypeInv, TypeOK
<1>c. \A d \in Caller : d = c BY DEF SingleUser
<1>q. Enrolling(c) => /\ tasks = <<>>
                      /\ \A t \in Thread : pc[t] # "add_wait"
                      /\ \A w \in Worker : pc[w] # "running"
  BY EnrollingIsQuiet

\* A step of the user or of a worker that neither creates nor starts a worker, and
\* changes no status while workers are being enrolled.
<1>s. ASSUME Enrolling(c) => \A k \in Task : status'[k] \in {"new", "rejected"},
             state' = "STARTED" => state = "STARTED" \/ pc'[c] = "simple_add",
             pc'[c] = "start_workers" <=> pc[c] = "start_workers",
             pc[c] = "simple_add" => pc'[c] = "simple_add",
             \A w \in Worker : /\ pc'[w] \in {"none", "created"} => pc'[w] = pc[w]
                               /\ Live(w)' => Live(w) /\ (w \in id_map => w \in id_map'),
             UNCHANGED starting, NoWorkerSleepsInAdd'
      PROVE  EnrolledInv(c)'
  <2>1. Enrolling(c)' => Enrolling(c) BY <1>s DEF Enrolling
  <2>2. Enrolling(c)' => \A k \in Task : status'[k] \in {"new", "rejected"}
    BY <1>s, <2>1
  <2>3. (\E w \in Worker : pc'[w] = "none") /\ pc'[c] # "simple_add" => state' # "STARTED"
    BY <1>s DEF EnrolledInv
  <2>4. \A w \in Worker : Live(w)' =>
          w \in id_map' \/ (pc'[c] = "start_workers" /\ inserting'[c] = w)
    BY <1>s DEF EnrolledInv
  <2>5. \A w \in Worker : pc'[w] = "created" =>
          pc'[c] = "start_workers" /\ w \in new_threads'[c]
    BY <1>s DEF EnrolledInv
  <2> QED BY <1>s, <2>2, <2>3, <2>4, <2>5 DEF EnrolledInv
<1>e. Enrolling(c) => \A k \in Task : status[k] \in {"new", "rejected"}
  BY DEF EnrolledInv
<1>a. \A w \in Worker : pc[w] # "add_wait" BY DEF EnrolledInv, NoWorkerSleepsInAdd
<1>1. ASSUME NEW t \in Thread, NEW k \in Task, AddPush(t, k)
      PROVE  EnrolledInv(c)'
  <2>1. ~Enrolling(c)
    <3>1. pc[t] = IF t \in Caller THEN "idle" ELSE "running"
      BY <1>1 DEF AddPush, MayCall
    <3>2. CASE t \in Worker BY <1>q, <3>1, <3>2
    <3>3. CASE t \in Caller
      <4>1. pc[c] = "idle" /\ state = "STARTED" BY <1>c, <1>1, <3>1, <3>3 DEF AddPush
      <4> QED BY <4>1 DEF EnrolledInv, Enrolling
    <3> QED BY <3>2, <3>3
  <2> QED BY <1>a, <1>s, <1>1, <2>1 DEF AddPush, Live, NoWorkerSleepsInAdd
<1>2. ASSUME NEW t \in Thread, NEW k \in Task, NEW timeout, AddBlock(t, k, timeout)
      PROVE  EnrolledInv(c)'
  <2>1. /\ pc[t] = IF t \in Caller THEN "idle" ELSE "running"
        /\ state = "STARTED" /\ t \notin id_map
    BY <1>2 DEF AddBlock, MayCall, CanSleep
  <2>2. t \notin Worker
    <3> SUFFICES ASSUME t \in Worker PROVE FALSE
      OBVIOUS
    <3>1. pc[t] = "running" BY <2>1
    <3>2. Live(t) BY <3>1 DEF Live
    <3>3. Enrolling(c) BY <2>1, <3>2 DEF EnrolledInv, Enrolling
    <3> QED BY <1>q, <3>1, <3>3
  <2>3. t = c /\ pc[c] = "idle" BY <1>c, <2>1, <2>2
  <2>4. ~Enrolling(c) BY <2>1, <2>3 DEF EnrolledInv, Enrolling
  <2>5. pc' = [pc EXCEPT ![c] = "add_wait"] /\ UNCHANGED <<state, id_map, starting>>
    BY <1>2, <2>3 DEF AddBlock, Goto
  <2> QED BY <1>a, <1>s, <1>t, <2>3, <2>4, <2>5 DEF Live, NoWorkerSleepsInAdd
<1>3. ASSUME NEW t \in Thread, NEW k \in Task, NEW timeout, AddThrows(t, k, timeout)
      PROVE  EnrolledInv(c)'
  <2>1. PICK n \in 0..Len(tasks) : status' = [StatusWithout(n) EXCEPT ![k] = "rejected"]
    BY <1>3 DEF AddThrows
  <2>2. ASSUME Enrolling(c)
        PROVE  \A j \in Task : status'[j] \in {"new", "rejected"}
    <3>1. Len(tasks) = 0 BY <1>q, <2>2
    <3>2. n = 0 BY <2>1, <3>1
    <3>3. \A j \in Task : StatusWithout(n)[j] = status[j] BY <3>2 DEF StatusWithout
    <3> QED BY <1>e, <2>1, <2>2, <3>3 DEF StatusWithout
  <2> QED BY <1>a, <1>s, <1>3, <2>2 DEF AddThrows, Live, NoWorkerSleepsInAdd
<1>4. ASSUME NEW t \in Thread, AddResume(t) \/ AddTimedOut(t)
      PROVE  EnrolledInv(c)'
  <2>1. pc[t] = "add_wait" /\ t = c
    BY <1>a, <1>c, <1>4 DEF AddResume, AddTimedOut
  <2>2. ~Enrolling(c) BY <1>q, <2>1
  <2>3. /\ UNCHANGED <<state, id_map, starting>>
        /\ pc' = pc \/ pc' = [pc EXCEPT ![c] = "idle"]
    BY <1>4, <2>1 DEF AddResume, AddTimedOut, AddReturn, Goto
  <2> QED BY <1>a, <1>s, <1>t, <2>1, <2>2, <2>3 DEF Live, NoWorkerSleepsInAdd
<1>5. ASSUME NEW d \in Caller, RemoveNextPending(d)
      PROVE  EnrolledInv(c)'
  <2>1. ~Enrolling(c) BY <1>q, <1>5 DEF RemoveNextPending
  <2> QED BY <1>a, <1>s, <1>5, <2>1 DEF RemoveNextPending, Live, NoWorkerSleepsInAdd
<1>6. ASSUME NEW d \in Caller,
             Start(d) \/ (\E n \in WorkerCounts : RemoveWorker(d, n) \/ AddWorker(d, n))
      PROVE  FALSE
  BY <1>c, <1>6 DEF Start, RemoveWorker, AddWorker, MayCall, SingleUser
<1>7. ASSUME NEW d \in Caller,
             \/ SimpleStart(d) \/ (\E join \in BOOLEAN : StopImpl(d, join))
             \/ ExpiredTaskCount(d) \/ AwaitWorkers(d) \/ AddWorkerReturn(d)
             \/ StopReadCount(d) \/ StopRemoveWorkers(d) \/ StopThrows(d)
             \/ StopSetStopped(d)
      PROVE  EnrolledInv(c)'
  <2>1. UNCHANGED <<status, id_map, starting>> /\ (state' = "STARTED" => state = "STARTED")
    BY <1>7
    DEF SimpleStart, StopImpl, ExpiredTaskCount, AwaitWorkers, AddWorkerReturn,
        StopReadCount, StopRemoveWorkers, LowerTarget, StopThrows, StopSetStopped
  <2>2. /\ \A w \in Worker : pc'[w] = pc[w]
        /\ pc'[c] = "start_workers" <=> pc[c] = "start_workers"
        /\ pc[c] = "simple_add" => pc'[c] = "simple_add"
    BY <1>c, <1>t, <1>7
    DEF SimpleStart, StopImpl, ExpiredTaskCount, AwaitWorkers, AddWorkerReturn,
        StopReadCount, StopRemoveWorkers, StopThrows, StopSetStopped, MayCall, Goto,
        Awaiting
  <2> QED BY <1>a, <1>e, <1>s, <2>1, <2>2 DEF Live, NoWorkerSleepsInAdd
<1>8. ASSUME NEW d \in Caller, SimpleImplStart(d)
      PROVE  EnrolledInv(c)'
  <2>1. /\ UNCHANGED <<status, id_map, starting>>
        /\ pc[c] = "simple_start" /\ pc' = [pc EXCEPT ![c] = "simple_add"]
    BY <1>c, <1>8 DEF SimpleImplStart, ImplStart, Goto
  <2> QED BY <1>a, <1>e, <1>s, <1>t, <2>1 DEF Live, NoWorkerSleepsInAdd
<1>9. ASSUME NEW d \in Caller, RemoveWorkerReturn(d)
      PROVE  EnrolledInv(c)'
  <2>0. d = c /\ pc[c] # "await_removed" BY <1>c DEF ControlInv, OwnerInv
  <2>1. /\ pc[c] = "await_stopped" /\ TargetReached /\ WorkerMutexFree
        /\ UNCHANGED <<state, status, starting>>
        /\ pc' = [pc EXCEPT ![c] = "set_stopped"]
    BY <1>9, <2>0 DEF RemoveWorkerReturn, Goto
  <2>2. \A w \in Worker : ~Live(w) BY <2>1, AllGone
  <2> QED BY <1>a, <1>e, <1>s, <1>t, <2>1, <2>2 DEF Live, NoWorkerSleepsInAdd
<1>10. ASSUME NEW d \in Caller, SimpleAddWorker(d)
      PROVE  EnrolledInv(c)'
  <2>1. pc[c] = "simple_add" /\ RegisterWorkers(c, Cardinality(Worker))
    BY <1>c, <1>10 DEF SimpleAddWorker, SingleUser
  <2>2. PICK S \in SUBSET {w \in Worker : pc[w] = "none"} :
          /\ Cardinality(S) = Cardinality(Worker)
          /\ new_threads' = [new_threads EXCEPT ![c] = S]
          /\ pc' = [t \in Thread |->
                      IF t \in S THEN "created"
                      ELSE IF t # c THEN pc[t]
                      ELSE IF S = {} THEN "await_added" ELSE "start_workers"]
    BY <2>1 DEF RegisterWorkers
  <2>3. S = Worker BY <2>2, FS_Subset
  <2>4. UNCHANGED <<state, status, id_map>> BY <2>1 DEF RegisterWorkers
  <2>5. /\ \A w \in Worker : pc'[w] = "created" /\ w \in new_threads'[c]
        /\ Worker # {} => pc'[c] = "start_workers"
        /\ Worker = {} => pc'[c] = "await_added"
    BY <1>t, <2>2, <2>3
  <2>6. Worker # {} => Enrolling(c) BY <2>2, <2>3 DEF Enrolling
  <2>7. Enrolling(c)' => Worker # {} BY <2>5 DEF Enrolling
  <2>8. Enrolling(c)' => \A k \in Task : status'[k] \in {"new", "rejected"}
    BY <1>e, <2>4, <2>6, <2>7
  <2> QED BY <2>5, <2>8 DEF EnrolledInv, Live, NoWorkerSleepsInAdd
<1>11. ASSUME NEW d \in Caller, NEW v \in Worker, StartWorker(d, v)
      PROVE  EnrolledInv(c)'
  <2>1. /\ pc[c] = "start_workers" /\ inserting[c] = None /\ v \in new_threads[c]
        /\ pc' = [pc EXCEPT ![v] = "starting"] /\ UNCHANGED <<state, status, id_map>>
        /\ new_threads' = [new_threads EXCEPT ![c] = @ \ {v}]
        /\ inserting' = [inserting EXCEPT ![c] = v]
    BY <1>c, <1>11 DEF StartWorker, Goto
  <2>2. pc[v] = "created" BY <1>t, <2>1 DEF NewThreadsCreated
  <2>3. /\ pc'[c] = "start_workers" /\ pc'[v] = "starting" /\ inserting'[c] = v
        /\ new_threads'[c] = new_threads[c] \ {v}
        /\ \A w \in Worker : w # v => pc'[w] = pc[w]
    BY <1>t, <2>1
  <2>4. Enrolling(c) BY <2>1 DEF Enrolling
  <2>5. \A k \in Task : status'[k] \in {"new", "rejected"} BY <1>e, <2>1, <2>4
  <2>6. (\E w \in Worker : pc'[w] = "none") => state' # "STARTED"
    BY <2>1, <2>3 DEF EnrolledInv
  <2>7. \A w \in Worker : Live(w)' => w \in id_map' \/ inserting'[c] = w
    BY <2>1, <2>3 DEF EnrolledInv, Live
  <2>8. \A w \in Worker : pc'[w] = "created" => w \in new_threads'[c]
    BY <2>3 DEF EnrolledInv
  <2>9. NoWorkerSleepsInAdd' BY <1>a, <2>3 DEF NoWorkerSleepsInAdd
  <2> QED BY <2>3, <2>5, <2>6, <2>7, <2>8, <2>9 DEF EnrolledInv
<1>12. ASSUME NEW d \in Caller, InsertId(d)
      PROVE  EnrolledInv(c)'
  <2>1. /\ pc[c] = "start_workers" /\ UNCHANGED <<state, status, new_threads>>
        /\ id_map' = id_map \cup {inserting[c]}
        /\ pc' = [pc EXCEPT ![c] = IF new_threads[c] = {} THEN "await_added"
                                   ELSE "start_workers"]
    BY <1>c, <1>12 DEF InsertId, Goto
  <2>2. /\ \A w \in Worker : pc'[w] = pc[w]
        /\ pc'[c] = IF new_threads[c] = {} THEN "await_added" ELSE "start_workers"
    BY <1>t, <2>1
  <2>3. Enrolling(c) BY <2>1 DEF Enrolling
  <2>4. \A k \in Task : status'[k] \in {"new", "rejected"} BY <1>e, <2>1, <2>3
  <2>5. (\E w \in Worker : pc'[w] = "none") => state' # "STARTED"
    BY <2>1, <2>2 DEF EnrolledInv
  <2>6. \A w \in Worker : Live(w)' => w \in id_map'
    BY <2>1, <2>2 DEF EnrolledInv, Live
  <2>7. \A w \in Worker : pc'[w] = "created" =>
          pc'[c] = "start_workers" /\ w \in new_threads'[c]
    BY <2>1, <2>2 DEF EnrolledInv
  <2>8. NoWorkerSleepsInAdd' BY <1>a, <2>2 DEF NoWorkerSleepsInAdd
  <2> QED BY <2>4, <2>5, <2>6, <2>7, <2>8 DEF EnrolledInv
<1>13. ASSUME NEW w \in Worker, WorkerTake(w) \/ WorkerFinish(w)
      PROVE  EnrolledInv(c)'
  <2>1. ~Enrolling(c) /\ Live(w)
    BY <1>q, <1>13 DEF WorkerTake, WorkerFinish, AtQueue, Live
  <2>2. /\ UNCHANGED <<state, id_map, starting>>
        /\ pc' = [pc EXCEPT ![w] = pc'[w]] /\ pc'[w] \in {"loop", "running"}
    BY <1>t, <1>13 DEF WorkerTake, Take, TakeNothing, WorkerFinish, Goto
  <2>3. pc'[c] = pc[c] /\ \A v \in Worker : v # w => pc'[v] = pc[v] BY <1>t, <2>2
  <2> QED BY <1>a, <1>s, <2>1, <2>2, <2>3 DEF Live, NoWorkerSleepsInAdd
<1>14. ASSUME NEW w \in Worker,
              \/ WorkerBegin(w) \/ WorkerCount(w) \/ WorkerCounted(w)
              \/ WorkerNotifyStarted(w) \/ WorkerWait(w) \/ WorkerLeave(w)
              \/ WorkerExit(w) \/ WorkerUncount(w) \/ WorkerExited(w)
      PROVE  EnrolledInv(c)'
  <2>1. UNCHANGED <<state, status, id_map, starting>> /\ Live(w)
    BY <1>14
    DEF WorkerBegin, WorkerCount, WorkerCounted, WorkerNotifyStarted, WorkerWait,
        WorkerLeave, WorkerExit, WorkerUncount, WorkerExited, AtQueue, Live
  <2>2. /\ pc' = [pc EXCEPT ![w] = pc'[w]]
        /\ pc'[w] \notin {"none", "created", "add_wait"}
    BY <1>t, <1>14
    DEF WorkerBegin, WorkerCount, WorkerCounted, WorkerNotifyStarted, WorkerWait,
        WorkerLeave, WorkerExit, WorkerUncount, WorkerExited, Goto
  <2>3. pc'[c] = pc[c] /\ \A v \in Worker : v # w => pc'[v] = pc[v] BY <1>t, <2>2
  <2> QED BY <1>a, <1>e, <1>s, <2>1, <2>2, <2>3 DEF Live, NoWorkerSleepsInAdd
<1>15. ASSUME NEW t \in Thread, SpuriousWakeup(t)
      PROVE  EnrolledInv(c)'
  BY <1>a, <1>e, <1>s, <1>15 DEF SpuriousWakeup, Live, NoWorkerSleepsInAdd
<1>16. ASSUME NEW k \in Task, Expire(k)
      PROVE  EnrolledInv(c)'
  BY <1>a, <1>e, <1>s, <1>16 DEF Expire, Live, NoWorkerSleepsInAdd
<1>17. CASE UNCHANGED vars
  BY <1>a, <1>e, <1>s, <1>17 DEF vars, Live, NoWorkerSleepsInAdd
<1> QED
  BY <1>1, <1>2, <1>3, <1>4, <1>5, <1>6, <1>7, <1>8, <1>9, <1>10, <1>11, <1>12,
     <1>13, <1>14, <1>15, <1>16, <1>17
  DEF Next, Call, Continue, Offer, Wakeup, Run

\* A task that calls Add never sleeps on the queue its own worker is to empty: Add
\* recognises every worker of a pool that one user starts once.
THEOREM TasksNeverSleepInAdd ==
  ASSUME NEW c \in Caller, SingleUser(c)
  PROVE  Spec => []NoWorkerSleepsInAdd
<1>1. Init => EnrolledInv(c)
  <2> SUFFICES ASSUME Init PROVE EnrolledInv(c)
    OBVIOUS
  <2>1. \A w \in Worker : pc[w] = "none" BY ThreadsAssumption DEF Init, Thread
  <2> QED BY <2>1 DEF Init, EnrolledInv, Live, NoWorkerSleepsInAdd
<1>2. TypeInv /\ TaskInv /\ ControlInv(c) /\ EnrolledInv(c) /\ [Next]_vars => EnrolledInv(c)'
  BY EnrolledStep
<1>3. EnrolledInv(c) => NoWorkerSleepsInAdd BY DEF EnrolledInv
<1>4. Owner(c) BY UserOwns
<1>5. Spec => []ControlInv(c) BY <1>4, ControlInvariant
<1> QED BY <1>1, <1>2, <1>3, <1>5, TypeInvariant, TaskInvariant, PTL DEF Spec
=============================================================================
