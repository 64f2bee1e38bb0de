-------------------------- MODULE TaskPoolRefinement --------------------------
(***************************************************************************)
(* ThreadManager implements TaskPool.                                      *)
(***************************************************************************)
EXTENDS ThreadManagerProofs

\* A queue q, under the statuses s, holds the pending tasks, each once.
Holds(q, s) ==
  /\ q \in Seq(Task) /\ s \in [Task -> Statuses]
  /\ \A i \in 1..Len(q) : s[q[i]] = "pending"
  /\ \A i, j \in 1..Len(q) : q[i] = q[j] => i = j
  /\ \A k \in Task : s[k] = "pending" => \E i \in 1..Len(q) : q[i] = k

\* A worker is in a task's Run(), possibly asleep in an Add that the task called.
Busy == {"running", "add_wait"}

\* A thread asleep in Add has a task that nobody else offers or has accepted.
OffersInv ==
  /\ \A t \in Thread : pc[t] = "add_wait" => status[adding[t]] = "offered"
  /\ \A t, u \in Thread :
       pc[t] = "add_wait" /\ pc[u] = "add_wait" /\ adding[t] = adding[u] => t = u

\* A busy worker executes a task, and no two the same one.
RunsInv ==
  /\ \A w \in Worker : pc[w] \in Busy => task[w] \in Task /\ status[task[w]] = "executing"
  /\ \A v, w \in Worker : pc[v] \in Busy /\ pc[w] \in Busy /\ task[v] = task[w] => v = w

TaskInv == Holds(tasks, status) /\ OffersInv /\ RunsInv

-----------------------------------------------------------------------------
(* Queues.                                                                 *)

\* Pushing a task that is not pending.
LEMMA HoldsPush ==
  ASSUME NEW q, NEW s, Holds(q, s), NEW k \in Task, s[k] # "pending"
  PROVE  Holds(Append(q, k), [s EXCEPT ![k] = "pending"])
<1> DEFINE r == Append(q, k)
           z == [s EXCEPT ![k] = "pending"]
<1>1. /\ q \in Seq(Task) /\ Len(q) \in Nat /\ s \in [Task -> Statuses]
      /\ \A i \in 1..Len(q) : q[i] \in Task /\ q[i] # k
  BY DEF Holds
<1>2. /\ r \in Seq(Task) /\ Len(r) = Len(q) + 1
      /\ \A i \in 1..Len(q) : r[i] = q[i]
      /\ r[Len(q) + 1] = k
  BY <1>1, AppendProperties
<1>3. z \in [Task -> Statuses] /\ z[k] = "pending" /\ \A j \in Task : j # k => z[j] = s[j]
  BY <1>1 DEF Statuses
<1> HIDE DEF r, z
<1>4. \A i \in 1..Len(r) : i \in 1..Len(q) \/ i = Len(q) + 1
  BY <1>1, <1>2
<1>5. \A i \in 1..Len(r) : z[r[i]] = "pending"
  BY <1>1, <1>2, <1>3, <1>4 DEF Holds
<1>6. \A i, j \in 1..Len(r) : r[i] = r[j] => i = j
  BY <1>1, <1>2, <1>4 DEF Holds
<1>7. \A j \in Task : z[j] = "pending" => \E i \in 1..Len(r) : r[i] = j
  <2> SUFFICES ASSUME NEW j \in Task, z[j] = "pending"
               PROVE  \E i \in 1..Len(r) : r[i] = j
    OBVIOUS
  <2>1. CASE j = k BY <1>1, <1>2, <2>1
  <2>2. CASE j # k
    <3>1. PICK i \in 1..Len(q) : q[i] = j BY <1>3, <2>2 DEF Holds
    <3> QED BY <1>1, <1>2, <3>1
  <2> QED BY <2>1, <2>2
<1> QED BY <1>2, <1>3, <1>5, <1>6, <1>7 DEF Holds, r, z

\* Popping the first task and giving it another status.
LEMMA HoldsPop ==
  ASSUME NEW q, NEW s, Holds(q, s), NEW r \in Seq(Task), q # <<>>,
         Len(r) = Len(q) - 1, \A i \in 1..Len(r) : r[i] = q[i + 1],
         NEW x \in Statuses, x # "pending"
  PROVE  Holds(r, [s EXCEPT ![q[1]] = x])
<1> DEFINE z == [s EXCEPT ![q[1]] = x]
<1>1. /\ q \in Seq(Task) /\ Len(q) \in Nat /\ Len(q) # 0 /\ s \in [Task -> Statuses]
      /\ \A i \in 1..Len(q) : q[i] \in Task
  BY EmptySeq DEF Holds
<1>2. \A i \in 1..Len(r) : i + 1 \in 1..Len(q) /\ r[i] # q[1]
  BY <1>1 DEF Holds
<1>3. z \in [Task -> Statuses] /\ z[q[1]] = x /\ \A j \in Task : j # q[1] => z[j] = s[j]
  BY <1>1
<1> HIDE DEF z
<1>4. \A i \in 1..Len(r) : z[r[i]] = "pending"
  BY <1>1, <1>2, <1>3 DEF Holds
<1>5. \A i, j \in 1..Len(r) : r[i] = r[j] => i = j
  BY <1>1, <1>2 DEF Holds
<1>6. \A j \in Task : z[j] = "pending" => \E i \in 1..Len(r) : r[i] = j
  <2> SUFFICES ASSUME NEW j \in Task, z[j] = "pending"
               PROVE  \E i \in 1..Len(r) : r[i] = j
    OBVIOUS
  <2>1. s[j] = "pending" /\ j # q[1] BY <1>1, <1>3
  <2>2. PICK i \in 1..Len(q) : q[i] = j BY <2>1 DEF Holds
  <2>3. i - 1 \in 1..Len(r) /\ (i - 1) + 1 = i BY <1>1, <2>1, <2>2
  <2> QED BY <2>2, <2>3
<1> QED BY <1>3, <1>4, <1>5, <1>6 DEF Holds, z

\* Changing the status of a task outside the queue.
LEMMA HoldsOther ==
  ASSUME NEW q, NEW s, Holds(q, s), NEW k \in Task, s[k] # "pending",
         NEW x \in Statuses, x # "pending"
  PROVE  Holds(q, [s EXCEPT ![k] = x])
BY DEF Holds

\* Removing the expired prefix.
LEMMA HoldsRemaining ==
  ASSUME TypeOK, Holds(tasks, status), NEW n \in 0..Len(tasks)
  PROVE  /\ Holds(Remaining(n), StatusWithout(n))
         /\ \A k \in Task : status[k] # "pending" => StatusWithout(n)[k] = status[k]
<1> DEFINE q == Remaining(n)
           s == StatusWithout(n)
<1>1. /\ tasks \in Seq(Task) /\ Len(tasks) \in Nat
      /\ status \in [Task -> Statuses]
      /\ \A i \in 1..Len(tasks) : tasks[i] \in Task
  BY DEF Holds
<1>2. /\ q \in Seq(Task) /\ Len(q) = Len(tasks) - n
      /\ \A i \in 1..Len(q) : q[i] = tasks[i + n]
  BY RemainingType
<1>3. /\ s \in [Task -> Statuses]
      /\ \A i \in 1..n : s[tasks[i]] = "expired"
      /\ \A k \in Task : (\A i \in 1..n : tasks[i] # k) => s[k] = status[k]
  BY <1>1, StatusWithoutType DEF StatusWithout
<1> HIDE DEF q, s
<1>4. ASSUME NEW i \in 1..Len(q)
      PROVE  i + n \in 1..Len(tasks) /\ q[i] = tasks[i + n] /\ s[q[i]] = "pending"
  <2>1. i + n \in 1..Len(tasks) /\ i + n > n BY <1>1, <1>2
  <2>2. \A j \in 1..n : j \in 1..Len(tasks) /\ j # i + n BY <1>1, <2>1
  <2>3. \A j \in 1..n : tasks[j] # tasks[i + n] BY <2>1, <2>2 DEF Holds
  <2> QED BY <1>1, <1>2, <1>3, <2>1, <2>3 DEF Holds
<1>5. ASSUME NEW i \in 1..Len(q), NEW j \in 1..Len(q), q[i] = q[j]
      PROVE  i = j
  <2>1. i + n = j + n BY <1>4, <1>5 DEF Holds
  <2> QED BY <1>1, <1>2, <2>1
<1>6. \A k \in Task : s[k] = "pending" => \E i \in 1..Len(q) : q[i] = k
  <2> SUFFICES ASSUME NEW k \in Task, s[k] = "pending"
               PROVE  \E i \in 1..Len(q) : q[i] = k
    OBVIOUS
  <2>1. \A i \in 1..n : tasks[i] # k BY <1>3
  <2>2. PICK i \in 1..Len(tasks) : tasks[i] = k BY <1>3, <2>1 DEF Holds
  <2>3. i - n \in 1..Len(q) /\ (i - n) + n = i BY <1>1, <1>2, <2>1, <2>2
  <2> QED BY <1>2, <2>2, <2>3
<1>7. \A k \in Task : status[k] # "pending" => s[k] = status[k]
  BY <1>1, <1>3 DEF Holds
<1> QED BY <1>2, <1>3, <1>4, <1>5, <1>6, <1>7 DEF Holds, q, s

-----------------------------------------------------------------------------
(* The inductive invariant.                                                *)

\* A step that takes nobody into Add or into a task, and leaves the tasks alone
\* that are being offered or executed.
LEMMA HoldersKept ==
  ASSUME OffersInv, RunsInv,
         \A t \in Thread : pc'[t] = "add_wait" =>
           /\ pc[t] = "add_wait" /\ adding'[t] = adding[t]
           /\ status'[adding[t]] = status[adding[t]],
         \A w \in Worker : pc'[w] \in Busy =>
           /\ pc[w] \in Busy /\ task'[w] = task[w]
           /\ status'[task[w]] = status[task[w]]
  PROVE  OffersInv' /\ RunsInv'
<1>1. OffersInv' BY DEF OffersInv
<1>2. RunsInv' BY DEF RunsInv
<1> QED BY <1>1, <1>2

\* Every step of every thread keeps the queue, the statuses and the threads' locals
\* consistent with each other.
LEMMA TaskStep ==
  ASSUME TypeInv, TaskInv, [Next]_vars
  PROVE  TaskInv'
<1> USE ThreadsAssumption
    DEF Thread, manager, fields, counts, queue, registry, monitors, locals,
        offers, starting, ghosts
<1>t. /\ TypeOK /\ AddersHaveTasks
      /\ pc \in [Thread -> CallerPCs \cup WorkerPCs]
      /\ adding \in [Thread -> Task \cup {None}]
      /\ task \in [Worker -> Task \cup {None}]
      /\ status \in [Task -> Statuses]
      /\ Len(tasks) \in Nat
  BY DEF TypeInv, TypeOK
<1>i. Holds(tasks, status) /\ OffersInv /\ RunsInv BY DEF TaskInv
<1>h. /\ \A t \in Thread : pc[t] = "add_wait" =>
           adding[t] \in Task /\ status[adding[t]] \in {"offered", "executing"}
      /\ \A w \in Worker : pc[w] \in Busy =>
           task[w] \in Task /\ status[task[w]] \in {"offered", "executing"}
  BY <1>t, <1>i DEF AddersHaveTasks, OffersInv, RunsInv
<1>s. ASSUME status' = status, tasks' = tasks, task' = task, adding' = adding,
             \A t \in Thread : pc'[t] = "add_wait" => pc[t] = "add_wait",
             \A w \in Worker : pc'[w] \in Busy => pc[w] \in Busy
      PROVE  TaskInv'
  <2>1. OffersInv' /\ RunsInv' BY <1>i, <1>s, HoldersKept
  <2> QED BY <1>i, <1>s, <2>1 DEF TaskInv
<1>1. ASSUME NEW t \in Thread, NEW k \in Task, AddPush(t, k)
      PROVE  TaskInv'
  <2>1. PICK n \in 0..Len(tasks) : Push(k, n) BY <1>1 DEF AddPush
  <2>2. /\ Holds(Remaining(n), StatusWithout(n))
        /\ \A j \in Task : status[j] # "pending" => StatusWithout(n)[j] = status[j]
    BY <1>t, <1>i, HoldsRemaining
  <2>3. status[k] = "new" BY <1>1 DEF AddPush
  <2>4. Holds(tasks, status)' BY <2>1, <2>2, <2>3, HoldsPush DEF Push
  <2>5. \A j \in Task : status[j] \in {"offered", "executing"} => status'[j] = status[j]
    BY <2>1, <2>2, <2>3 DEF Push, Holds
  <2>6. OffersInv' /\ RunsInv'
    BY <1>1, <1>h, <1>i, <2>5, HoldersKept DEF AddPush
  <2> QED BY <2>4, <2>6 DEF TaskInv
<1>2. ASSUME NEW t \in Thread, NEW k \in Task, NEW timeout, AddThrows(t, k, timeout)
      PROVE  TaskInv'
  <2>1. PICK n \in 0..Len(tasks) :
          /\ tasks' = Remaining(n)
          /\ status' = [StatusWithout(n) EXCEPT ![k] = "rejected"]
    BY <1>2 DEF AddThrows
  <2>2. /\ Holds(Remaining(n), StatusWithout(n))
        /\ \A j \in Task : status[j] # "pending" => StatusWithout(n)[j] = status[j]
    BY <1>t, <1>i, HoldsRemaining
  <2>3. status[k] = "new" /\ "rejected" \in Statuses BY <1>2 DEF AddThrows, Statuses
  <2>4. Holds(tasks, status)' BY <2>1, <2>2, <2>3, HoldsOther
  <2>5. \A j \in Task : status[j] \in {"offered", "executing"} => status'[j] = status[j]
    BY <2>1, <2>2, <2>3 DEF Holds
  <2>6. OffersInv' /\ RunsInv'
    BY <1>2, <1>h, <1>i, <2>5, HoldersKept DEF AddThrows
  <2> QED BY <2>4, <2>6 DEF TaskInv
<1>3. ASSUME NEW t \in Thread, NEW k \in Task, NEW timeout, AddBlock(t, k, timeout)
      PROVE  TaskInv'
  <2>1. PICK n \in 0..Len(tasks) :
          /\ tasks' = Remaining(n)
          /\ status' = [StatusWithout(n) EXCEPT ![k] = "offered"]
    BY <1>3 DEF AddBlock
  <2>2. /\ Holds(Remaining(n), StatusWithout(n))
        /\ \A j \in Task : status[j] # "pending" => StatusWithout(n)[j] = status[j]
    BY <1>t, <1>i, HoldsRemaining
  <2>3. status[k] = "new" /\ "offered" \in Statuses BY <1>3 DEF AddBlock, Statuses
  <2>4. Holds(tasks, status)' BY <2>1, <2>2, <2>3, HoldsOther
  <2>5. /\ status'[k] = "offered"
        /\ \A j \in Task : status[j] \in {"offered", "executing"} => j # k /\ status'[j] = status[j]
    BY <2>1, <2>2, <2>3 DEF Holds
  <2>6. /\ pc' = [pc EXCEPT ![t] = "add_wait"] /\ adding' = [adding EXCEPT ![t] = k]
        /\ task' = task /\ pc[t] \in {"idle", "running"}
        /\ t \in Worker => pc[t] \in Busy
    BY <1>3 DEF AddBlock, Goto, MayCall, Busy
  <2>7. OffersInv'
    BY <1>t, <1>i, <2>5, <2>6 DEF OffersInv, AddersHaveTasks
  <2>8. RunsInv'
    <3>1. \A w \in Worker : pc'[w] \in Busy => pc[w] \in Busy BY <1>t, <2>6 DEF Busy
    <3> QED BY <1>i, <2>5, <2>6, <3>1 DEF RunsInv
  <2> QED BY <2>4, <2>7, <2>8 DEF TaskInv
<1>4. ASSUME NEW t \in Thread, AddResume(t)
      PROVE  TaskInv'
  <2>1. pc[t] = "add_wait" /\ adding[t] \in Task /\ status[adding[t]] = "offered"
    BY <1>t, <1>i, <1>4 DEF AddResume, AddersHaveTasks, OffersInv
  <2>2. CASE UNCHANGED <<queue, pc, offers>>
    BY <1>4, <1>s, <2>2 DEF AddResume, Busy
  <2>3. CASE Push(adding[t], 0) /\ AddReturn(t)
    <3>1. /\ Holds(Remaining(0), StatusWithout(0))
          /\ \A j \in Task : status[j] # "pending" => StatusWithout(0)[j] = status[j]
      BY <1>t, <1>i, HoldsRemaining
    <3>2. Holds(tasks, status)' BY <2>1, <2>3, <3>1, HoldsPush DEF Push
    <3>3. \A j \in Task : status[j] \in {"offered", "executing"} /\ j # adding[t]
                          => status'[j] = status[j]
      BY <2>3, <3>1 DEF Push, Holds
    <3>4. /\ \A u \in Thread : pc'[u] = "add_wait" =>
               u # t /\ pc[u] = "add_wait" /\ adding'[u] = adding[u]
          /\ \A w \in Worker : pc'[w] \in Busy => pc[w] \in Busy
          /\ task' = task
      BY <1>t, <1>4, <2>1, <2>3 DEF AddResume, AddReturn, Goto, Busy
    <3>5. /\ \A u \in Thread : pc'[u] = "add_wait" => adding'[u] # adding[t]
          /\ \A w \in Worker : pc'[w] \in Busy => task'[w] # adding[t]
      BY <1>i, <2>1, <3>4 DEF OffersInv, RunsInv
    <3>6. OffersInv' /\ RunsInv' BY <1>h, <1>i, <3>3, <3>4, <3>5, HoldersKept
    <3> QED BY <3>2, <3>6 DEF TaskInv
  <2> QED BY <1>4, <2>2, <2>3 DEF AddResume
<1>5. ASSUME NEW t \in Thread, AddTimedOut(t)
      PROVE  TaskInv'
  <2>1. pc[t] = "add_wait" /\ adding[t] \in Task /\ status[adding[t]] = "offered"
    BY <1>t, <1>i, <1>5 DEF AddTimedOut, AddersHaveTasks, OffersInv
  <2>2. /\ tasks' = tasks /\ status' = [status EXCEPT ![adding[t]] = "rejected"]
        /\ AddReturn(t) /\ task' = task
    BY <1>5 DEF AddTimedOut
  <2>3. "rejected" \in Statuses BY DEF Statuses
  <2>4. Holds(tasks, status)' BY <1>i, <2>1, <2>2, <2>3, HoldsOther
  <2>5. \A j \in Task : j # adding[t] => status'[j] = status[j] BY <1>t, <2>2
  <2>6. /\ \A u \in Thread : pc'[u] = "add_wait" =>
             u # t /\ pc[u] = "add_wait" /\ adding'[u] = adding[u]
        /\ \A w \in Worker : pc'[w] \in Busy => pc[w] \in Busy
    BY <1>t, <2>1, <2>2 DEF AddReturn, Goto, Busy
  <2>7. /\ \A u \in Thread : pc'[u] = "add_wait" => adding'[u] # adding[t]
        /\ \A w \in Worker : pc'[w] \in Busy => task'[w] # adding[t]
    BY <1>i, <2>1, <2>2, <2>6 DEF OffersInv, RunsInv
  <2>8. OffersInv' /\ RunsInv' BY <1>h, <1>i, <2>2, <2>5, <2>6, <2>7, HoldersKept
  <2> QED BY <2>4, <2>8 DEF TaskInv
<1>6. ASSUME NEW c \in Caller, RemoveNextPending(c)
      PROVE  TaskInv'
  <2>1. /\ tasks # <<>> /\ tasks \in Seq(Task) /\ tasks' = Tail(tasks)
        /\ status' = [status EXCEPT ![tasks[1]] = "returned"]
        /\ task' = task /\ adding' = adding /\ pc' = pc
    BY <1>i, <1>6, HeadTailProperties DEF RemoveNextPending, Holds
  <2>2. /\ Tail(tasks) \in Seq(Task) /\ Len(Tail(tasks)) = Len(tasks) - 1
        /\ \A i \in 1..Len(Tail(tasks)) : Tail(tasks)[i] = tasks[i + 1]
    BY <2>1, HeadTailProperties
  <2>3. "returned" \in Statuses BY DEF Statuses
  <2>4. Holds(tasks, status)' BY <1>i, <2>1, <2>2, <2>3, HoldsPop
  <2>5. tasks[1] \in Task /\ status[tasks[1]] = "pending"
    <3>1. 1 \in 1..Len(tasks) BY <1>t, <2>1, EmptySeq
    <3> QED BY <1>i, <3>1 DEF Holds
  <2>6. \A j \in Task : status[j] \in {"offered", "executing"} => status'[j] = status[j]
    BY <1>t, <2>1, <2>5
  <2>7. OffersInv' /\ RunsInv' BY <1>h, <1>i, <2>1, <2>6, HoldersKept
  <2> QED BY <2>4, <2>7 DEF TaskInv
<1>7. ASSUME NEW w \in Worker, WorkerTake(w)
      PROVE  TaskInv'
  <2>1. PICK n \in 0..Len(tasks) : Take(w, n) \/ TakeNothing(w, n)
    BY <1>7 DEF WorkerTake
  <2>2. /\ Holds(Remaining(n), StatusWithout(n))
        /\ \A j \in Task : status[j] # "pending" => StatusWithout(n)[j] = status[j]
    BY <1>t, <1>i, HoldsRemaining
  <2>3. adding' = adding /\ pc[w] \notin Busy
    BY <1>7 DEF WorkerTake, AtQueue, Busy
  <2>4. CASE TakeNothing(w, n)
    <3>1. Remaining(n) = <<>>
      BY <1>t, <2>4, RemainingType, EmptySeq DEF TakeNothing
    <3>2. Holds(tasks, status)' BY <2>2, <2>4, <3>1 DEF TakeNothing
    <3>3. OffersInv' /\ RunsInv'
      BY <1>t, <1>h, <1>i, <2>2, <2>3, <2>4, HoldersKept DEF TakeNothing, Goto, Busy
    <3> QED BY <3>2, <3>3 DEF TaskInv
  <2>5. CASE Take(w, n)
    <3> DEFINE k == tasks[n + 1]
    <3>1. n < Len(tasks) /\ n + 1 \in 1..Len(tasks) /\ n + 1 \in 0..Len(tasks)
      BY <1>t, <2>5 DEF Take
    <3>2. k \in Task /\ status[k] = "pending" BY <1>i, <3>1 DEF Holds
    <3>3. /\ Len(Remaining(n)) = Len(tasks) - n /\ Remaining(n) \in Seq(Task)
          /\ \A i \in 1..Len(Remaining(n)) : Remaining(n)[i] = tasks[i + n]
          /\ Len(Remaining(n + 1)) = Len(tasks) - (n + 1) /\ Remaining(n + 1) \in Seq(Task)
          /\ \A i \in 1..Len(Remaining(n + 1)) : Remaining(n + 1)[i] = tasks[i + (n + 1)]
      BY <1>t, <3>1, RemainingType
    <3>4. Remaining(n) # <<>> /\ Remaining(n)[1] = k
      BY <1>t, <3>1, <3>3
    <3>5. Len(Remaining(n + 1)) = Len(Remaining(n)) - 1
      <4>1. n \in Nat /\ Len(tasks) \in Nat BY <1>t
      <4>2. /\ Len(Remaining(n)) = Len(tasks) - n
            /\ Len(Remaining(n + 1)) = Len(tasks) - (n + 1)
        BY <3>3
      <4> QED BY <4>1, <4>2
    <3>6. \A i \in 1..Len(Remaining(n + 1)) : Remaining(n + 1)[i] = Remaining(n)[i + 1]
      <4> SUFFICES ASSUME NEW i \in 1..Len(Remaining(n + 1))
                   PROVE  Remaining(n + 1)[i] = Remaining(n)[i + 1]
        OBVIOUS
      <4>1. i + 1 \in 1..Len(Remaining(n)) /\ (i + 1) + n = i + (n + 1)
        BY <1>t, <3>1, <3>3, <3>5
      <4> QED BY <3>3, <4>1
    <3>7. "executing" \in Statuses BY DEF Statuses
    <3>8. Holds(Remaining(n + 1), [StatusWithout(n) EXCEPT ![k] = "executing"])
      BY <2>2, <3>3, <3>4, <3>5, <3>6, <3>7, HoldsPop
    <3>9. Holds(tasks, status)' BY <2>5, <3>8 DEF Take
    <3>10. /\ status'[k] = "executing"
           /\ \A j \in Task : status[j] \in {"offered", "executing"} =>
                j # k /\ status'[j] = status[j]
      BY <2>2, <2>5, <3>2 DEF Take, Holds
    <3>11. task' = [task EXCEPT ![w] = k] /\ pc' = [pc EXCEPT ![w] = "running"]
      BY <2>5 DEF Take, Goto
    <3> HIDE DEF k
    <3>12. OffersInv'
      BY <1>t, <1>h, <1>i, <2>3, <3>10, <3>11 DEF OffersInv
    <3>13. RunsInv'
      BY <1>t, <1>h, <1>i, <2>3, <3>2, <3>10, <3>11 DEF RunsInv
    <3> QED BY <3>9, <3>12, <3>13 DEF TaskInv
  <2> QED BY <2>1, <2>4, <2>5
<1>8. ASSUME NEW w \in Worker, WorkerFinish(w)
      PROVE  TaskInv'
  <2>1. PICK result \in {"complete", "failed"} :
          status' = [status EXCEPT ![task[w]] = result]
    BY <1>8 DEF WorkerFinish
  <2>2. /\ pc[w] = "running" /\ pc' = [pc EXCEPT ![w] = "loop"]
        /\ task' = [task EXCEPT ![w] = None] /\ adding' = adding /\ tasks' = tasks
    BY <1>8 DEF WorkerFinish, Goto
  <2>3. task[w] \in Task /\ status[task[w]] = "executing"
    BY <1>i, <2>2 DEF RunsInv, Busy
  <2>4. result \in Statuses /\ result # "pending" BY DEF Statuses
  <2>5. Holds(tasks, status)' BY <1>i, <2>1, <2>2, <2>3, <2>4, HoldsOther
  <2>6. \A j \in Task : j # task[w] => status'[j] = status[j] BY <1>t, <2>1
  <2>7. \A t \in Thread : pc'[t] = "add_wait" =>
          /\ pc[t] = "add_wait" /\ adding'[t] = adding[t]
          /\ status'[adding[t]] = status[adding[t]]
    BY <1>t, <1>h, <1>i, <2>2, <2>3, <2>6 DEF OffersInv
  <2>8. \A v \in Worker : pc'[v] \in Busy =>
          /\ pc[v] \in Busy /\ task'[v] = task[v]
          /\ status'[task[v]] = status[task[v]]
    BY <1>t, <1>h, <1>i, <2>2, <2>3, <2>6 DEF RunsInv, Busy
  <2>9. OffersInv' /\ RunsInv' BY <1>i, <2>7, <2>8, HoldersKept
  <2> QED BY <2>5, <2>9 DEF TaskInv
<1>9. ASSUME NEW c \in Caller,
             \/ Start(c) \/ SimpleStart(c)
             \/ (\E n \in WorkerCounts : RemoveWorker(c, n) \/ AddWorker(c, n))
             \/ (\E join \in BOOLEAN : StopImpl(c, join))
             \/ ExpiredTaskCount(c) \/ Continue(c)
      PROVE  TaskInv'
  BY <1>t, <1>s, <1>9
  DEF Start, ImplStart, SimpleStart, RemoveWorker, LowerTarget, AddWorker,
      RegisterWorkers, StopImpl, ExpiredTaskCount, Continue, SimpleImplStart,
      SimpleAddWorker, StartWorker, InsertId, AwaitWorkers, AddWorkerReturn,
      RemoveWorkerReturn, StopReadCount, StopRemoveWorkers, StopThrows,
      StopSetStopped, Goto, Busy
<1>10. ASSUME NEW t \in Thread, SpuriousWakeup(t)
      PROVE  TaskInv'
  BY <1>s, <1>10 DEF SpuriousWakeup
<1>11. ASSUME NEW w \in Worker,
              \/ WorkerBegin(w) \/ WorkerCount(w) \/ WorkerCounted(w)
              \/ WorkerNotifyStarted(w) \/ WorkerWait(w) \/ WorkerLeave(w)
              \/ WorkerExit(w) \/ WorkerUncount(w) \/ WorkerExited(w)
      PROVE  TaskInv'
  BY <1>t, <1>s, <1>11
  DEF WorkerBegin, WorkerCount, WorkerCounted, WorkerNotifyStarted, WorkerWait,
      WorkerLeave, WorkerExit, WorkerUncount, WorkerExited, Goto, Busy
<1>12. ASSUME NEW k \in Task, Expire(k)
      PROVE  TaskInv'
  BY <1>s, <1>12 DEF Expire
<1>13. CASE UNCHANGED vars
  BY <1>s, <1>13 DEF vars
<1> QED
  BY <1>1, <1>2, <1>3, <1>4, <1>5, <1>6, <1>7, <1>8, <1>9, <1>10, <1>11, <1>12, <1>13
  DEF Next, Call, Offer, Wakeup, Run

\* The invariant that relates the queue, the statuses and the threads' locals.
THEOREM TaskInvariant == Spec => []TaskInv
<1>1. Init => TaskInv
  BY ThreadsAssumption
  DEF Init, TaskInv, Holds, OffersInv, RunsInv, Busy, Thread, Statuses
<1>2. TypeInv /\ TaskInv /\ [Next]_vars => TaskInv'
  BY TaskStep
<1> QED BY <1>1, <1>2, TypeInvariant, PTL DEF Spec

\* Every task is queued at most once, and the queue holds the pending ones.
THEOREM QueuedOnceHolds == Spec => []QueuedOnce
<1>1. ASSUME TypeInv, TaskInv
      PROVE  QueuedOnce
  <2>1. \A k \in Task : Outcome[k] = "pending" <=> status[k] = "pending"
    BY <1>1 DEF Outcome, OutcomeOf, TypeInv, TypeOK, Statuses
  <2> QED BY <1>1, <2>1 DEF TaskInv, Holds, QueuedOnce, Pool!PendingOnce
<1> QED BY <1>1, TypeInvariant, TaskInvariant, PTL

-----------------------------------------------------------------------------
(* The tasks that expire.                                                  *)

Dropped == {k \in Task : status[k] = "expired"}

\* The first n tasks of the queue are n tasks, none of them dropped before.
LEMMA PrefixCount ==
  ASSUME TaskInv, NEW n \in 0..Len(tasks)
  PROVE  LET P == {tasks[i] : i \in 1..n}
         IN  IsFiniteSet(P) /\ Cardinality(P) = n /\ P \cap Dropped = {}
<1> DEFINE P == {tasks[i] : i \in 1..n}
           f == [i \in 1..n |-> tasks[i]]
<1>1. /\ tasks \in Seq(Task) /\ Len(tasks) \in Nat /\ n \in Nat
      /\ \A i \in 1..n : i \in 1..Len(tasks)
  BY DEF TaskInv, Holds
<1>2. \A i, j \in 1..n : tasks[i] = tasks[j] => i = j
  BY <1>1 DEF TaskInv, Holds
<1>3. f \in Bijection(1..n, P)
  BY <1>2 DEF Bijection, Injection, Surjection, IsInjective
<1>4. IsFiniteSet(1..n) /\ Cardinality(1..n) = n
  BY <1>1, FS_Interval
<1>5. IsFiniteSet(P) /\ Cardinality(P) = n
  <2>1. ExistsBijection(1..n, P) BY <1>3 DEF ExistsBijection
  <2> QED BY <1>4, <2>1, FS_Bijection
<1>6. P \cap Dropped = {}
  BY <1>1 DEF TaskInv, Holds, Dropped
<1> QED BY <1>5, <1>6

\* ExpiredCountedOnce, with what its count rests on: finitely many tasks are dropped.
ExpiredInv == IsFiniteSet(Dropped) /\ ExpiredCountedOnce

\* A step that drops the first n tasks, counts n, and moves other tasks on.
LEMMA DropCounted ==
  ASSUME TypeInv, TaskInv, ExpiredInv, NEW n \in 0..Len(tasks),
         expired_count' = expired_count + n, reported' = reported,
         \A k \in Task : status'[k] = "expired" <=> StatusWithout(n)[k] = "expired"
  PROVE  ExpiredInv'
<1> DEFINE P == {tasks[i] : i \in 1..n}
<1>1. IsFiniteSet(P) /\ Cardinality(P) = n /\ P \cap Dropped = {}
  BY PrefixCount
<1>2. /\ expired_count \in Nat /\ reported \in Nat /\ n \in Nat
      /\ \A i \in 1..n : tasks[i] \in Task
  BY DEF TypeInv, TypeOK
<1>3. Dropped' = Dropped \cup P
  BY <1>2 DEF Dropped, StatusWithout
<1>4. IsFiniteSet(Dropped) /\ Cardinality(Dropped) = expired_count + reported
  BY DEF ExpiredInv, ExpiredCountedOnce, Dropped
<1> HIDE DEF P
<1>5. Dropped \cap P = {} BY <1>1
<1>6. IsFiniteSet(Dropped') /\ Cardinality(Dropped') = Cardinality(Dropped) + n
  <2> DEFINE D == Dropped \cup P
  <2>1. /\ IsFiniteSet(D)
        /\ Cardinality(D) = Cardinality(Dropped) + Cardinality(P) - Cardinality({})
    BY <1>1, <1>4, <1>5, FS_Union
  <2>2. Cardinality({}) = 0 BY FS_EmptySet
  <2>3. Cardinality(D) = Cardinality(Dropped) + n BY <1>1, <1>2, <1>4, <2>1, <2>2
  <2> QED BY <1>3, <2>1, <2>3
<1> QED BY <1>2, <1>4, <1>6 DEF ExpiredInv, ExpiredCountedOnce, Dropped

\* A step that drops no task.
LEMMA NoneDropped ==
  ASSUME ExpiredInv, expired_count' + reported' = expired_count + reported,
         \A k \in Task : status'[k] = "expired" <=> status[k] = "expired"
  PROVE  ExpiredInv'
<1>1. Dropped' = Dropped BY DEF Dropped
<1> QED BY <1>1 DEF ExpiredInv, ExpiredCountedOnce, Dropped

\* Every step counts the tasks it drops.
LEMMA ExpiredStep ==
  ASSUME TypeInv, TaskInv, ExpiredInv, [Next]_vars
  PROVE  ExpiredInv'
<1> USE DEF manager, fields, counts, queue, registry, monitors, locals,
            offers, starting, ghosts
<1>t. /\ TypeOK /\ AddersHaveTasks
      /\ status \in [Task -> Statuses] /\ tasks \in Seq(Task) /\ Len(tasks) \in Nat
      /\ expired_count \in Nat /\ reported \in Nat
  BY DEF TypeInv, TypeOK
<1>i. Holds(tasks, status) /\ OffersInv /\ RunsInv BY DEF TaskInv
<1>d. \A n \in 0..Len(tasks) :
        /\ StatusWithout(n) \in [Task -> Statuses]
        /\ \A k \in Task : status[k] # "pending" => StatusWithout(n)[k] = status[k]
  BY <1>t, <1>i, HoldsRemaining, StatusWithoutType
<1>s. ASSUME UNCHANGED <<status, expired_count, reported>>
      PROVE  ExpiredInv'
  BY <1>s, NoneDropped
<1>1. ASSUME NEW t \in Thread, NEW k \in Task, AddPush(t, k)
      PROVE  ExpiredInv'
  <2>1. PICK n \in 0..Len(tasks) : Push(k, n) BY <1>1 DEF AddPush
  <2>2. status[k] = "new" /\ reported' = reported BY <1>1 DEF AddPush
  <2>3. \A j \in Task : status'[j] = "expired" <=> StatusWithout(n)[j] = "expired"
    BY <1>d, <2>1, <2>2 DEF Push
  <2> QED BY <2>1, <2>2, <2>3, DropCounted DEF Push
<1>2. ASSUME NEW t \in Thread, NEW k \in Task, NEW timeout,
             AddThrows(t, k, timeout) \/ AddBlock(t, k, timeout)
      PROVE  ExpiredInv'
  <2>1. PICK n \in 0..Len(tasks), x \in {"rejected", "offered"} :
          /\ status' = [StatusWithout(n) EXCEPT ![k] = x]
          /\ expired_count' = expired_count + n
    BY <1>2 DEF AddThrows, AddBlock
  <2>2. status[k] = "new" /\ reported' = reported BY <1>2 DEF AddThrows, AddBlock
  <2>3. \A j \in Task : status'[j] = "expired" <=> StatusWithout(n)[j] = "expired"
    BY <1>d, <2>1, <2>2
  <2> QED BY <2>1, <2>2, <2>3, DropCounted
<1>3. ASSUME NEW t \in Thread, AddResume(t)
      PROVE  ExpiredInv'
  <2>1. adding[t] \in Task /\ status[adding[t]] = "offered" /\ reported' = reported
    BY <1>t, <1>i, <1>3 DEF AddResume, AddersHaveTasks, OffersInv
  <2>2. CASE UNCHANGED queue BY <1>s, <2>1, <2>2
  <2>3. CASE Push(adding[t], 0)
    <3>1. 0 \in 0..Len(tasks) BY <1>t
    <3>2. \A j \in Task : status'[j] = "expired" <=> StatusWithout(0)[j] = "expired"
      BY <1>d, <2>1, <2>3, <3>1 DEF Push
    <3> QED BY <2>1, <2>3, <3>1, <3>2, DropCounted DEF Push
  <2> QED BY <1>3, <2>2, <2>3 DEF AddResume
<1>4. ASSUME NEW t \in Thread, AddTimedOut(t)
      PROVE  ExpiredInv'
  <2>1. adding[t] \in Task /\ status[adding[t]] = "offered"
    BY <1>t, <1>i, <1>4 DEF AddTimedOut, AddersHaveTasks, OffersInv
  <2> QED BY <1>t, <1>4, <2>1, NoneDropped DEF AddTimedOut
<1>5. ASSUME NEW c \in Caller, RemoveNextPending(c)
      PROVE  ExpiredInv'
  <2>1. tasks # <<>> /\ Head(tasks) = tasks[1] /\ 1 \in 1..Len(tasks)
    BY <1>t, <1>5, EmptySeq DEF RemoveNextPending
  <2>2. Head(tasks) \in Task /\ status[Head(tasks)] = "pending"
    BY <1>t, <1>i, <2>1 DEF Holds
  <2> QED BY <1>t, <1>5, <2>2, NoneDropped DEF RemoveNextPending
<1>6. ASSUME NEW c \in Caller, ExpiredTaskCount(c)
      PROVE  ExpiredInv'
  <2>1. status' = status /\ expired_count' + reported' = expired_count + reported
    BY <1>t, <1>6 DEF ExpiredTaskCount
  <2> QED BY <2>1, NoneDropped
<1>7. ASSUME NEW w \in Worker, WorkerTake(w)
      PROVE  ExpiredInv'
  <2>1. PICK n \in 0..Len(tasks) : /\ expired_count' = expired_count + n
                                   /\ Take(w, n) \/ TakeNothing(w, n)
    BY <1>7 DEF WorkerTake
  <2>2. reported' = reported BY <1>7 DEF WorkerTake
  <2>3. ASSUME Take(w, n)
        PROVE  StatusWithout(n)[tasks[n + 1]] = "pending"
    <3>1. n + 1 \in 1..Len(tasks) /\ \A i \in 1..n : i \in 1..Len(tasks) /\ i # n + 1
      BY <1>t, <2>3 DEF Take
    <3>2. tasks[n + 1] \in Task /\ status[tasks[n + 1]] = "pending"
      BY <1>i, <3>1 DEF Holds
    <3>3. \A i \in 1..n : tasks[i] # tasks[n + 1] BY <1>i, <3>1 DEF Holds
    <3> QED BY <3>2, <3>3 DEF StatusWithout
  <2>4. \A j \in Task : status'[j] = "expired" <=> StatusWithout(n)[j] = "expired"
    BY <1>d, <2>1, <2>3 DEF Take, TakeNothing
  <2> QED BY <2>1, <2>2, <2>4, DropCounted
<1>8. ASSUME NEW w \in Worker, WorkerFinish(w)
      PROVE  ExpiredInv'
  <2>1. task[w] \in Task /\ status[task[w]] = "executing"
    BY <1>i, <1>8 DEF WorkerFinish, RunsInv, Busy
  <2> QED BY <1>t, <1>8, <2>1, NoneDropped DEF WorkerFinish
<1>9. ASSUME NEW c \in Caller,
             \/ Start(c) \/ SimpleStart(c)
             \/ (\E n \in WorkerCounts : RemoveWorker(c, n) \/ AddWorker(c, n))
             \/ (\E join \in BOOLEAN : StopImpl(c, join))
             \/ Continue(c)
      PROVE  ExpiredInv'
  BY <1>s, <1>9
  DEF Start, ImplStart, SimpleStart, RemoveWorker, LowerTarget, AddWorker,
      RegisterWorkers, StopImpl, Continue, SimpleImplStart,
      SimpleAddWorker, StartWorker, InsertId, AwaitWorkers, AddWorkerReturn,
      RemoveWorkerReturn, StopReadCount, StopRemoveWorkers, StopThrows,
      StopSetStopped
<1>10. ASSUME NEW t \in Thread, SpuriousWakeup(t)
      PROVE  ExpiredInv'
  BY <1>s, <1>10 DEF SpuriousWakeup
<1>11. ASSUME NEW w \in Worker,
              \/ WorkerBegin(w) \/ WorkerCount(w) \/ WorkerCounted(w)
              \/ WorkerNotifyStarted(w) \/ WorkerWait(w) \/ WorkerLeave(w)
              \/ WorkerExit(w) \/ WorkerUncount(w) \/ WorkerExited(w)
      PROVE  ExpiredInv'
  BY <1>s, <1>11
  DEF WorkerBegin, WorkerCount, WorkerCounted, WorkerNotifyStarted, WorkerWait,
      WorkerLeave, WorkerExit, WorkerUncount, WorkerExited
<1>12. ASSUME NEW k \in Task, Expire(k)
      PROVE  ExpiredInv'
  BY <1>s, <1>12 DEF Expire
<1>13. CASE UNCHANGED vars
  BY <1>s, <1>13 DEF vars
<1> QED
  BY <1>1, <1>2, <1>3, <1>4, <1>5, <1>6, <1>7, <1>8, <1>9, <1>10, <1>11, <1>12, <1>13
  DEF Next, Call, Offer, Wakeup, Run

\* Every task that RemoveExpiredTasks drops is reported by ExpiredTaskCount once,
\* whichever call or worker dropped it and however many tasks there are.
THEOREM ExpiredCounted == Spec => []ExpiredCountedOnce
<1>1. Init => ExpiredInv
  <2> SUFFICES ASSUME Init PROVE ExpiredInv
    OBVIOUS
  <2>1. Dropped = {} BY DEF Init, Dropped
  <2>2. expired_count + reported = Cardinality(Dropped)
    BY <2>1, FS_EmptySet DEF Init
  <2>3. IsFiniteSet(Dropped) BY <2>1, FS_EmptySet
  <2> QED BY <2>2, <2>3 DEF ExpiredInv, ExpiredCountedOnce, Dropped
<1>2. TypeInv /\ TaskInv /\ ExpiredInv /\ [Next]_vars => ExpiredInv'
  BY ExpiredStep
<1>3. ExpiredInv => ExpiredCountedOnce
  BY DEF ExpiredInv
<1> QED BY <1>1, <1>2, <1>3, TypeInvariant, TaskInvariant, PTL DEF Spec

-----------------------------------------------------------------------------
(* The refinement.                                                         *)

\* Outcome after a step that drops n expired tasks and moves task k on.
LEMMA OutcomeMoved ==
  ASSUME TypeOK, NEW n \in 0..Len(tasks), NEW k \in Task, NEW x \in Statuses,
         status' = [StatusWithout(n) EXCEPT ![k] = x]
  PROVE  Outcome' = [Pool!Expired(n) EXCEPT ![k] = OutcomeOf(x)]
BY DEF TypeOK, StatusWithout, Outcome, OutcomeOf, Pool!Expired

\* Outcome after a step that moves task k on and drops none.
LEMMA OutcomeSet ==
  ASSUME TypeOK, NEW k \in Task, NEW x \in Statuses, status' = [status EXCEPT ![k] = x]
  PROVE  Outcome' = [Outcome EXCEPT ![k] = OutcomeOf(x)]
BY DEF TypeOK, Outcome

\* The same when no task but the expired ones moves.
LEMMA OutcomeExpired ==
  ASSUME TypeOK, NEW n \in 0..Len(tasks), status' = StatusWithout(n)
  PROVE  Outcome' = Pool!Expired(n)
BY DEF TypeOK, StatusWithout, Outcome, OutcomeOf, Pool!Expired

\* Every step of a thread is a step of the task pool, or none.
LEMMA PoolMoves ==
  ASSUME TypeInv, TaskInv, [Next]_vars
  PROVE  [Pool!Next]_Pool!vars
<1> USE DEF manager, fields, counts, queue, registry, monitors, locals,
            offers, starting, ghosts
<1>t. /\ TypeOK /\ AddersHaveTasks
      /\ status \in [Task -> Statuses] /\ tasks \in Seq(Task)
  BY DEF TypeInv, TypeOK
<1>i. Holds(tasks, status) /\ OffersInv /\ RunsInv BY DEF TaskInv
<1>r. \A n \in 0..Len(tasks) : Remaining(n) = Pool!Unexpired(n)
  BY DEF Remaining, Pool!Unexpired
<1>o. \A k \in Task : status[k] \in {"new", "offered"} => Outcome[k] = "new"
  BY DEF Outcome, OutcomeOf
<1>s. ASSUME UNCHANGED <<tasks, status>>
      PROVE  UNCHANGED Pool!vars
  BY <1>s DEF Pool!vars, Outcome
<1>1. ASSUME NEW t \in Thread, NEW k \in Task, AddPush(t, k)
      PROVE  Pool!Next
  <2>1. PICK n \in 0..Len(tasks) : Push(k, n) BY <1>1 DEF AddPush
  <2>2. Outcome[k] = "new" BY <1>1, <1>o DEF AddPush
  <2>3. Outcome' = [Pool!Expired(n) EXCEPT ![k] = "pending"]
    BY <1>t, <2>1, OutcomeMoved DEF Push, Statuses, OutcomeOf
  <2>4. Pool!Accept(n, k) BY <1>r, <2>1, <2>2, <2>3 DEF Push, Pool!Accept
  <2> QED BY <2>4 DEF Pool!Next
<1>2. ASSUME NEW t \in Thread, NEW k \in Task, NEW timeout, AddThrows(t, k, timeout)
      PROVE  Pool!Next
  <2>1. PICK n \in 0..Len(tasks) :
          /\ tasks' = Remaining(n)
          /\ status' = [StatusWithout(n) EXCEPT ![k] = "rejected"]
    BY <1>2 DEF AddThrows
  <2>2. Outcome[k] = "new" BY <1>2, <1>o DEF AddThrows
  <2>3. Outcome' = [Pool!Expired(n) EXCEPT ![k] = "rejected"]
    BY <1>t, <2>1, OutcomeMoved DEF Statuses, OutcomeOf
  <2>4. Pool!Reject(n, k) BY <1>r, <2>1, <2>2, <2>3 DEF Pool!Reject
  <2> QED BY <2>4 DEF Pool!Next
<1>3. ASSUME NEW t \in Thread, NEW k \in Task, NEW timeout, AddBlock(t, k, timeout)
      PROVE  Pool!Next
  <2>1. PICK n \in 0..Len(tasks) :
          /\ tasks' = Remaining(n)
          /\ status' = [StatusWithout(n) EXCEPT ![k] = "offered"]
    BY <1>3 DEF AddBlock
  <2>2. status[k] = "new" BY <1>3 DEF AddBlock
  <2>3. \A i \in 1..n : tasks[i] # k BY <1>t, <1>i, <2>2 DEF Holds
  <2>4. Outcome' = [Pool!Expired(n) EXCEPT ![k] = "new"]
    BY <1>t, <2>1, OutcomeMoved DEF Statuses, OutcomeOf
  <2>5. Pool!Expired(n)[k] = "new" BY <1>o, <2>2, <2>3 DEF Pool!Expired
  <2>6. Outcome' = Pool!Expired(n) BY <2>4, <2>5 DEF Pool!Expired
  <2>7. Pool!Discard(n) BY <1>r, <2>1, <2>6 DEF Pool!Discard
  <2> QED BY <2>7 DEF Pool!Next
<1>4. ASSUME NEW t \in Thread, AddResume(t)
      PROVE  [Pool!Next]_Pool!vars
  <2>1. adding[t] \in Task /\ Outcome[adding[t]] = "new"
    BY <1>t, <1>i, <1>o, <1>4 DEF AddResume, AddersHaveTasks, OffersInv
  <2>2. CASE UNCHANGED queue BY <1>s, <2>2
  <2>3. CASE Push(adding[t], 0)
    <3>1. 0 \in 0..Len(tasks) BY <1>t
    <3>2. Outcome' = [Pool!Expired(0) EXCEPT ![adding[t]] = "pending"]
      BY <1>t, <2>1, <2>3, <3>1, OutcomeMoved DEF Push, Statuses, OutcomeOf
    <3>3. Pool!Accept(0, adding[t])
      BY <1>r, <2>1, <2>3, <3>1, <3>2 DEF Push, Pool!Accept
    <3> QED BY <2>1, <3>1, <3>3 DEF Pool!Next
  <2> QED BY <1>4, <2>2, <2>3 DEF AddResume
<1>5. ASSUME NEW t \in Thread, AddTimedOut(t)
      PROVE  Pool!Next
  <2>1. adding[t] \in Task /\ Outcome[adding[t]] = "new"
    BY <1>t, <1>i, <1>o, <1>5 DEF AddTimedOut, AddersHaveTasks, OffersInv
  <2>2. tasks' = tasks /\ status' = [status EXCEPT ![adding[t]] = "rejected"]
    BY <1>5 DEF AddTimedOut
  <2>3. 0 \in 0..Len(tasks) /\ tasks = Pool!Unexpired(0)
    BY <1>t DEF Pool!Unexpired
  <2>4. Outcome = Pool!Expired(0) BY DEF Outcome, Pool!Expired
  <2>5. Outcome' = [Outcome EXCEPT ![adding[t]] = "rejected"]
    BY <1>t, <2>1, <2>2, OutcomeSet DEF Statuses, OutcomeOf
  <2>6. Pool!Reject(0, adding[t]) BY <2>1, <2>2, <2>3, <2>4, <2>5 DEF Pool!Reject
  <2> QED BY <2>1, <2>3, <2>6 DEF Pool!Next
<1>6. ASSUME NEW c \in Caller, RemoveNextPending(c)
      PROVE  Pool!Next
  <2>1. /\ tasks # <<>> /\ tasks' = Tail(tasks) /\ Head(tasks) \in Task
        /\ status' = [status EXCEPT ![Head(tasks)] = "returned"]
    BY <1>t, <1>6, HeadTailProperties DEF RemoveNextPending
  <2>2. Outcome' = [Outcome EXCEPT ![Head(tasks)] = "returned"]
    BY <1>t, <2>1, OutcomeSet DEF Statuses, OutcomeOf
  <2> QED BY <2>1, <2>2 DEF Pool!HandBack, Pool!Next
<1>7. ASSUME NEW w \in Worker, WorkerTake(w)
      PROVE  Pool!Next
  <2>1. PICK n \in 0..Len(tasks) : Take(w, n) \/ TakeNothing(w, n)
    BY <1>7 DEF WorkerTake
  <2>2. CASE TakeNothing(w, n)
    <3>1. Remaining(n) = <<>>
      BY <1>t, <2>2, RemainingType, EmptySeq DEF TakeNothing
    <3>2. Outcome' = Pool!Expired(n) BY <1>t, <2>2, OutcomeExpired DEF TakeNothing
    <3>3. Pool!Discard(n) BY <1>r, <2>2, <3>1, <3>2 DEF TakeNothing, Pool!Discard
    <3> QED BY <3>3 DEF Pool!Next
  <2>3. CASE Take(w, n)
    <3>1. n < Len(tasks) /\ n + 1 \in 0..Len(tasks) /\ tasks[n + 1] \in Task
      BY <1>t, <2>3 DEF Take
    <3>2. Outcome' = [Pool!Expired(n) EXCEPT ![tasks[n + 1]] = "running"]
      BY <1>t, <2>3, <3>1, OutcomeMoved DEF Take, Statuses, OutcomeOf
    <3>3. Pool!Dispatch(n) BY <1>r, <2>3, <3>1, <3>2 DEF Take, Pool!Dispatch
    <3> QED BY <3>3 DEF Pool!Next
  <2> QED BY <2>1, <2>2, <2>3
<1>8. ASSUME NEW w \in Worker, WorkerFinish(w)
      PROVE  Pool!Next
  <2>1. PICK result \in {"complete", "failed"} :
          status' = [status EXCEPT ![task[w]] = result]
    BY <1>8 DEF WorkerFinish
  <2>2. task[w] \in Task /\ status[task[w]] = "executing" /\ tasks' = tasks
    BY <1>i, <1>8 DEF WorkerFinish, RunsInv, Busy
  <2>3. Outcome[task[w]] = "running" BY <2>2 DEF Outcome, OutcomeOf
  <2>4. Outcome' = [Outcome EXCEPT ![task[w]] = "finished"]
    BY <1>t, <2>1, <2>2, OutcomeSet DEF Statuses, OutcomeOf
  <2>5. Pool!Finish(task[w]) BY <2>2, <2>3, <2>4 DEF Pool!Finish
  <2> QED BY <2>2, <2>5 DEF Pool!Next
<1>9. ASSUME NEW c \in Caller,
             \/ Start(c) \/ SimpleStart(c)
             \/ (\E n \in WorkerCounts : RemoveWorker(c, n) \/ AddWorker(c, n))
             \/ (\E join \in BOOLEAN : StopImpl(c, join))
             \/ ExpiredTaskCount(c) \/ Continue(c)
      PROVE  UNCHANGED Pool!vars
  BY <1>s, <1>9
  DEF Start, ImplStart, SimpleStart, RemoveWorker, LowerTarget, AddWorker,
      RegisterWorkers, StopImpl, ExpiredTaskCount, Continue, SimpleImplStart,
      SimpleAddWorker, StartWorker, InsertId, AwaitWorkers, AddWorkerReturn,
      RemoveWorkerReturn, StopReadCount, StopRemoveWorkers, StopThrows,
      StopSetStopped
<1>10. ASSUME NEW t \in Thread, SpuriousWakeup(t)
      PROVE  UNCHANGED Pool!vars
  BY <1>s, <1>10 DEF SpuriousWakeup
<1>11. ASSUME NEW w \in Worker,
              \/ WorkerBegin(w) \/ WorkerCount(w) \/ WorkerCounted(w)
              \/ WorkerNotifyStarted(w) \/ WorkerWait(w) \/ WorkerLeave(w)
              \/ WorkerExit(w) \/ WorkerUncount(w) \/ WorkerExited(w)
      PROVE  UNCHANGED Pool!vars
  BY <1>s, <1>11
  DEF WorkerBegin, WorkerCount, WorkerCounted, WorkerNotifyStarted, WorkerWait,
      WorkerLeave, WorkerExit, WorkerUncount, WorkerExited
<1>12. ASSUME NEW k \in Task, Expire(k)
      PROVE  UNCHANGED Pool!vars
  BY <1>s, <1>12 DEF Expire
<1>13. CASE UNCHANGED vars
  BY <1>s, <1>13 DEF vars
<1> QED
  BY <1>1, <1>2, <1>3, <1>4, <1>5, <1>6, <1>7, <1>8, <1>9, <1>10, <1>11, <1>12, <1>13
  DEF Next, Call, Offer, Wakeup, Run

\* The thread manager implements the task pool, for every instance.
THEOREM Refinement == Spec => ImplementsTaskPool
<1>1. Init => Pool!Init
  BY DEF Init, Pool!Init, Outcome, OutcomeOf
<1>2. TypeInv /\ TaskInv /\ [Next]_vars => [Pool!Next]_Pool!vars
  BY PoolMoves
<1> QED
  BY <1>1, <1>2, TypeInvariant, TaskInvariant, PTL DEF Spec, ImplementsTaskPool, Pool!Spec
=============================================================================
