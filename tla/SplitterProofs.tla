--------------------------- MODULE SplitterProofs ---------------------------
(***************************************************************************)
(* Proofs about SplitterJobScheduler: its types for any number of clients, *)
(* and, for a scheduler with one client, that WaitAllJobDone returns no    *)
(* earlier than every job is split although monitor_.Wait() unlocks a      *)
(* mutex that the client does not have.                                    *)
(***************************************************************************)
EXTENDS SplitterJobScheduler, FiniteSetTheorems, TLAPS

\* A size_t has room for all jobs, and for the one below zero that is there while a
\* completed job is not yet counted.
CountFits == IsFiniteSet(Job) /\ Cardinality(Job) < SizeMax

-----------------------------------------------------------------------------
(* Invariants of the pool and of the jobs.                                 *)

\* A job that waits in the queue is there once, and has not begun.
QueueInv ==
  /\ \A i \in 1..Len(queue) : outcome[queue[i]] = "pending"
  /\ \A i, k \in 1..Len(queue) : queue[i] = queue[k] => i = k
  /\ \A j \in Job : outcome[j] \in {"new", "pending"} => pc[j] = "idle"
  /\ \A j \in Job : outcome[j] \in {"new", "pending", "running", "finished"}

\* What Split has written: OK sections only, up to the last one.
Written(j) ==
  \A i \in 1..Len(output_paths[j]) - 1 : output_paths[j][i] = "OK"
Complete(j) ==
  \/ Len(output_paths[j]) = GetSectionCount(j)
  \/ output_paths[j] # <<>> /\ output_paths[j][Len(output_paths[j])] = "ERROR"
Unfinished(j) ==
  /\ \A i \in 1..Len(output_paths[j]) : output_paths[j][i] = "OK"
  /\ Len(output_paths[j]) < GetSectionCount(j) \/ output_paths[j] = <<>>

OutputInv ==
  \A j \in Job :
    \/ pc[j] \in {"idle", "split"} /\ Unfinished(j)
    \/ pc[j] = "failed"
    \/ pc[j] \notin {"idle", "split", "failed"} /\ Written(j) /\ Complete(j)

-----------------------------------------------------------------------------
(* Invariants of a scheduler whose only client is c.                       *)

Inside == {"load", "store", "notify", "unlock"}
Stored == {"notify", "unlock", "observed", "done", "destroy"}

\* The mutex excludes, except that a second job can come in while the client sleeps
\* in the Wait that has unlocked it for the first.
MonitorInv(c) ==
  /\ pc[c] \in Inside => locked /\ \A j \in Job : pc[j] \notin Inside
  /\ pc[c] # "asleep" =>
       \A j \in Job : pc[j] \in Inside => locked /\ \A i \in Job : pc[i] \in Inside => i = j
  /\ ~locked => \A i, j \in Job : pc[i] \in Inside /\ pc[j] \in Inside => i = j
  /\ \A i, j, k \in Job :
       pc[i] \in Inside /\ pc[j] \in Inside /\ pc[k] \in Inside => i = j \/ j = k \/ i = k

\* The client has its shared_ptr until it lets go, and then no job is outstanding.
Outstanding == {j \in Job : outcome[j] # "new" /\ pc[j] \notin Stored}
ClientInv(c) ==
  /\ pc[c] \notin {"destroy", "gone"} => c \in refs /\ \A j \in Job : pc[j] # "destroy"
  /\ pc[c] \in {"waited", "destroy", "gone"} => Outstanding = {}
  /\ \A j \in Job : pc[j] # "crashed"

\* pending_job_count_ read as a number that may be one below zero lies between the
\* jobs that have not been counted down and the jobs that were counted up, and so
\* does what a thread has loaded and not yet stored.
AddedJobs == {j \in Job : outcome[j] # "new"}
Uncounted(c) == IF pc[c] \in {"lock", "load", "store"} THEN 1 ELSE 0
Signed(n) == IF n = SizeMax THEN -1 ELSE n
InBounds(c, n) ==
  /\ Cardinality(Outstanding) - Uncounted(c) <= Signed(n)
  /\ Signed(n) <= Cardinality(AddedJobs) - Uncounted(c)
CountInv(c) ==
  /\ InBounds(c, pending_job_count)
  /\ \A t \in Actor : pc[t] = "store" => InBounds(c, reg[t])

\* The control states of clients and of jobs.
ClientPCs == Inside \cup {"idle", "lock", "wait", "asleep", "check", "waited", "destroy", "gone"}
JobPCs == Inside \cup Stored \cup {"idle", "lock", "split", "split_done", "failed", "crashed"}
ControlInv ==
  /\ \A c \in Client : pc[c] \in ClientPCs
  /\ \A j \in Job : pc[j] \in JobPCs
  /\ \A j \in Job : pc[j] \notin {"idle", "failed", "done"} => outcome[j] = "running"
  /\ \A j \in Job : pc[j] \in {"failed", "done"} => outcome[j] = "finished"

-----------------------------------------------------------------------------
(* Types and control, for any number of clients.                           *)

USE DEF pool, monitor, Actor

\* The pool takes a job at the end of its queue.
LEMMA AcceptsJob ==
  ASSUME TypeOK, NEW j \in Job, Pool!Accept(0, j)
  PROVE  /\ outcome[j] = "new"
         /\ queue' = Append(queue, j)
         /\ outcome' = [outcome EXCEPT ![j] = "pending"]
<1>1. queue \in Seq(Job) /\ outcome \in [Job -> Pool!Outcomes]
  BY DEF TypeOK, Pool!TypeOK
<1>2. SubSeq(queue, 0 + 1, Len(queue)) = queue
  BY <1>1
<1>3. Pool!Expired(0) = outcome
  BY <1>1 DEF Pool!Expired
<1>. QED
  BY <1>2, <1>3 DEF Pool!Accept, Pool!Unexpired

\* The pool dispatches the job at the head of its queue.
LEMMA DispatchesHead ==
  ASSUME TypeOK, Pool!Dispatch(0)
  PROVE  /\ queue # <<>> /\ Head(queue) \in Job /\ Head(queue) = queue[1]
         /\ queue' = Tail(queue)
         /\ outcome' = [outcome EXCEPT ![Head(queue)] = "running"]
<1>1. queue \in Seq(Job) /\ outcome \in [Job -> Pool!Outcomes]
  BY DEF TypeOK, Pool!TypeOK
<1>2. 0 < Len(queue)
  BY DEF Pool!Dispatch
<1>3. queue # <<>> /\ Head(queue) \in Job /\ Head(queue) = queue[1]
  BY <1>1, <1>2
<1>4. SubSeq(queue, 0 + 1 + 1, Len(queue)) = Tail(queue)
  BY <1>1, <1>2
<1>5. Pool!Expired(0) = outcome
  BY <1>1 DEF Pool!Expired
<1>. QED
  BY <1>3, <1>4, <1>5 DEF Pool!Dispatch, Pool!Unexpired

Inv == TypeOK /\ ControlInv /\ QueueInv

\* An empty pool, an unlocked monitor and idle actors.
LEMMA InvInit == Init => Inv
<1>. SUFFICES ASSUME Init PROVE Inv
  OBVIOUS
<1>1. Pool!TypeOK /\ QueueInv
  BY DEF Init, Pool!Init, Pool!TypeOK, Pool!Outcomes, QueueInv
<1>2. output_paths \in [Job -> Seq({"OK", "ERROR"})]
  BY DEF Init
<1>3. TypeOK
  <2>1. pending_job_count \in 0..SizeMax /\ reg \in [Actor -> 0..SizeMax]
    BY SplitterAssumption DEF Init
  <2>2. locked \in BOOLEAN /\ sleepers \subseteq Client /\ refs \subseteq Actor
    BY DEF Init
  <2>3. pc \in [Actor -> PCs]
    BY DEF Init, PCs
  <2>. QED
    BY <1>1, <1>2, <2>1, <2>2, <2>3 DEF TypeOK
<1>4. ControlInv
  BY DEF Init, ControlInv, ClientPCs, JobPCs, Inside
<1>. QED
  BY <1>1, <1>3, <1>4 DEF Inv

\* A turn of Split's loop writes one section at most, and goes on or ends the loop.
LEMMA SplitTurn ==
  ASSUME TypeOK, NEW j \in Job, Split(j)
  PROVE  /\ pc[j] = "split" /\ output_paths' \in [Job -> Seq({"OK", "ERROR"})]
         /\ \A k \in Job \ {j} : output_paths'[k] = output_paths[k]
         /\ \/ /\ GetSectionCount(j) = 0 /\ output_paths'[j] = output_paths[j]
               /\ pc' = [pc EXCEPT ![j] = "split_done"]
            \/ /\ GetSectionCount(j) > 0
               /\ \E s \in {"OK", "ERROR"} :
                    /\ output_paths'[j] = Append(output_paths[j], s)
                    /\ pc' = [pc EXCEPT ![j] =
                         IF s = "ERROR" \/ Len(output_paths'[j]) = GetSectionCount(j)
                         THEN "split_done" ELSE "split"]
<1>1. output_paths \in [Job -> Seq({"OK", "ERROR"})]
  BY DEF TypeOK
<1>2. CASE GetSectionCount(j) = 0 /\ Goto(j, "split_done") /\ UNCHANGED output_paths
  BY <1>1, <1>2 DEF Split, Goto
<1>3. ASSUME GetSectionCount(j) > 0, NEW s \in {"OK", "ERROR"},
             output_paths' = [output_paths EXCEPT ![j] = Append(@, s)],
             Goto(j, IF s = "ERROR" \/ Len(output_paths'[j]) = GetSectionCount(j)
                     THEN "split_done" ELSE "split")
      PROVE  /\ output_paths' \in [Job -> Seq({"OK", "ERROR"})]
             /\ \A k \in Job \ {j} : output_paths'[k] = output_paths[k]
             /\ output_paths'[j] = Append(output_paths[j], s)
  <2>1. Append(output_paths[j], s) \in Seq({"OK", "ERROR"})
    BY <1>1
  <2>. QED
    BY <1>1, <1>3, <2>1
<1>. QED
  BY <1>2, <1>3 DEF Split, Goto

\* Every step keeps the types.
LEMMA TypeStep == Inv /\ [Next]_vars => TypeOK'
<1>. SUFFICES ASSUME Inv, [Next]_vars PROVE TypeOK'
  OBVIOUS
<1>s. CASE UNCHANGED vars
  BY <1>s DEF Inv, TypeOK, Pool!TypeOK, vars
<1>1. ASSUME NEW t \in Actor, EnterMonitor(t) PROVE TypeOK'
  BY <1>1, SplitterAssumption DEF Inv, TypeOK, Pool!TypeOK, PCs, EnterMonitor, Goto
<1>2. ASSUME NEW t \in Actor, LoadCount(t) PROVE TypeOK'
  BY <1>2, SplitterAssumption DEF Inv, TypeOK, Pool!TypeOK, PCs, LoadCount, Goto
<1>3. ASSUME NEW t \in Actor, StoreCount(t) PROVE TypeOK'
  BY <1>3, SplitterAssumption DEF Inv, TypeOK, Pool!TypeOK, PCs, StoreCount, Goto
<1>4. ASSUME NEW t \in Actor, NotifyAll(t) PROVE TypeOK'
  BY <1>4, SplitterAssumption DEF Inv, TypeOK, Pool!TypeOK, PCs, NotifyAll, Goto
<1>5. ASSUME NEW t \in Actor, LeaveMonitor(t) PROVE TypeOK'
  BY <1>5, SplitterAssumption DEF Inv, TypeOK, Pool!TypeOK, PCs, LeaveMonitor, Goto
<1>6. ASSUME NEW d \in Client, NEW j \in Job, AddSplitterJob(d, j) PROVE TypeOK'
  <2>1. queue' = Append(queue, j) /\ outcome' = [outcome EXCEPT ![j] = "pending"]
    BY <1>6, AcceptsJob DEF AddSplitterJob, Inv
  <2>2. Pool!TypeOK'
    BY <2>1 DEF Inv, TypeOK, Pool!TypeOK, Pool!Outcomes
  <2>. QED
    BY <1>6, <2>2 DEF Inv, TypeOK, PCs, AddSplitterJob, Goto
<1>7. ASSUME NEW d \in Client, WaitAllJobDone(d) PROVE TypeOK'
  BY <1>7, SplitterAssumption DEF Inv, TypeOK, Pool!TypeOK, PCs, WaitAllJobDone, Goto
<1>8. ASSUME NEW d \in Client, Wait(d) PROVE TypeOK'
  BY <1>8, SplitterAssumption DEF Inv, TypeOK, Pool!TypeOK, PCs, Wait, Goto
<1>9. ASSUME NEW d \in Client, Resume(d) PROVE TypeOK'
  BY <1>9, SplitterAssumption DEF Inv, TypeOK, Pool!TypeOK, PCs, Resume, Goto
<1>10. ASSUME NEW d \in Client, SpuriousWakeup(d) PROVE TypeOK'
  BY <1>10, SplitterAssumption DEF Inv, TypeOK, Pool!TypeOK, PCs, SpuriousWakeup, Goto
<1>11. ASSUME NEW d \in Client, Release(d) PROVE TypeOK'
  BY <1>11, SplitterAssumption DEF Inv, TypeOK, Pool!TypeOK, PCs, Release, Goto
<1>12. ASSUME NEW d \in Client, Destroy(d) PROVE TypeOK'
  BY <1>12, SplitterAssumption DEF Inv, TypeOK, Pool!TypeOK, PCs, Destroy, Goto
<1>13. CASE RunJob
  <2>1. /\ queue # <<>> /\ queue' = Tail(queue)
        /\ outcome' = [outcome EXCEPT ![Head(queue)] = "running"]
    BY <1>13, DispatchesHead DEF RunJob, Inv
  <2>2. Pool!TypeOK'
    BY <2>1 DEF Inv, TypeOK, Pool!TypeOK, Pool!Outcomes
  <2>. QED
    BY <1>13, <2>2 DEF Inv, TypeOK, PCs, RunJob, Goto
<1>14. ASSUME NEW j \in Job, Split(j) PROVE TypeOK'
  <2>1. /\ output_paths' \in [Job -> Seq({"OK", "ERROR"})]
        /\ \E to \in {"split", "split_done"} : pc' = [pc EXCEPT ![j] = to]
    BY <1>14, SplitTurn DEF Inv
  <2>. QED
    BY <1>14, <2>1 DEF Inv, TypeOK, Pool!TypeOK, PCs, Split
<1>15. ASSUME NEW j \in Job, SplitThrows(j) PROVE TypeOK'
  BY <1>15, SplitterAssumption
  DEF Inv, TypeOK, Pool!TypeOK, PCs, SplitThrows, Goto, Pool!Finish, Pool!Outcomes
<1>16. ASSUME NEW j \in Job, NotifyAllObservers(j) PROVE TypeOK'
  BY <1>16, SplitterAssumption
  DEF Inv, TypeOK, Pool!TypeOK, PCs, NotifyAllObservers, Goto
<1>17. ASSUME NEW j \in Job, JobReturn(j) PROVE TypeOK'
  BY <1>17, SplitterAssumption
  DEF Inv, TypeOK, Pool!TypeOK, PCs, JobReturn, Goto, Pool!Finish, Pool!Outcomes
<1>18. ASSUME NEW j \in Job, JobDestroys(j) PROVE TypeOK'
  BY <1>18, SplitterAssumption DEF Inv, TypeOK, Pool!TypeOK, PCs, JobDestroys, Goto
<1>. QED
  BY <1>1, <1>2, <1>3, <1>4, <1>5, <1>6, <1>7, <1>8, <1>9, <1>10, <1>11, <1>12,
     <1>13, <1>14, <1>15, <1>16, <1>17, <1>18, <1>s
  DEF Next, Synchronized, RunningJob

\* Every step keeps clients and jobs in their own control states, and a job that is
\* between the pool and its end running.
LEMMA ControlStep == Inv /\ [Next]_vars => ControlInv'
<1>. SUFFICES ASSUME Inv, [Next]_vars PROVE ControlInv'
  OBVIOUS
<1>s. CASE UNCHANGED vars
  BY <1>s DEF Inv, ControlInv, vars
<1>1. ASSUME NEW t \in Actor, EnterMonitor(t) PROVE ControlInv'
  BY <1>1, SplitterAssumption
  DEF Inv, TypeOK, Pool!TypeOK, ControlInv, QueueInv, ClientPCs, JobPCs, Inside,
      Stored, EnterMonitor, Goto
<1>2. ASSUME NEW t \in Actor, LoadCount(t) PROVE ControlInv'
  BY <1>2, SplitterAssumption
  DEF Inv, TypeOK, Pool!TypeOK, ControlInv, QueueInv, ClientPCs, JobPCs, Inside,
      Stored, LoadCount, Goto
<1>3. ASSUME NEW t \in Actor, StoreCount(t) PROVE ControlInv'
  BY <1>3, SplitterAssumption
  DEF Inv, TypeOK, Pool!TypeOK, ControlInv, QueueInv, ClientPCs, JobPCs, Inside,
      Stored, StoreCount, Goto
<1>4. ASSUME NEW t \in Actor, NotifyAll(t) PROVE ControlInv'
  BY <1>4, SplitterAssumption
  DEF Inv, TypeOK, Pool!TypeOK, ControlInv, QueueInv, ClientPCs, JobPCs, Inside,
      Stored, NotifyAll, Goto
<1>5. ASSUME NEW t \in Actor, LeaveMonitor(t) PROVE ControlInv'
  BY <1>5, SplitterAssumption
  DEF Inv, TypeOK, Pool!TypeOK, ControlInv, QueueInv, ClientPCs, JobPCs, Inside,
      Stored, LeaveMonitor, Goto
<1>6. ASSUME NEW d \in Client, NEW j \in Job, AddSplitterJob(d, j) PROVE ControlInv'
  BY <1>6, AcceptsJob, SplitterAssumption
  DEF Inv, TypeOK, Pool!TypeOK, ControlInv, QueueInv, ClientPCs, JobPCs, Inside,
      Stored, AddSplitterJob, Goto
<1>7. ASSUME NEW d \in Client, WaitAllJobDone(d) PROVE ControlInv'
  BY <1>7, SplitterAssumption
  DEF Inv, TypeOK, Pool!TypeOK, ControlInv, QueueInv, ClientPCs, JobPCs, Inside,
      Stored, WaitAllJobDone, Goto
<1>8. ASSUME NEW d \in Client, Wait(d) PROVE ControlInv'
  BY <1>8, SplitterAssumption
  DEF Inv, TypeOK, Pool!TypeOK, ControlInv, QueueInv, ClientPCs, JobPCs, Inside,
      Stored, Wait, Goto
<1>9. ASSUME NEW d \in Client, Resume(d) PROVE ControlInv'
  BY <1>9, SplitterAssumption
  DEF Inv, TypeOK, Pool!TypeOK, ControlInv, QueueInv, ClientPCs, JobPCs, Inside,
      Stored, Resume, Goto
<1>10. ASSUME NEW d \in Client, SpuriousWakeup(d) PROVE ControlInv'
  BY <1>10, SplitterAssumption
  DEF Inv, TypeOK, Pool!TypeOK, ControlInv, QueueInv, ClientPCs, JobPCs, Inside,
      Stored, SpuriousWakeup, Goto
<1>11. ASSUME NEW d \in Client, Release(d) PROVE ControlInv'
  BY <1>11, SplitterAssumption
  DEF Inv, TypeOK, Pool!TypeOK, ControlInv, QueueInv, ClientPCs, JobPCs, Inside,
      Stored, Release, Goto
<1>12. ASSUME NEW d \in Client, Destroy(d) PROVE ControlInv'
  BY <1>12, SplitterAssumption
  DEF Inv, TypeOK, Pool!TypeOK, ControlInv, QueueInv, ClientPCs, JobPCs, Inside,
      Stored, Destroy, Goto
<1>13. CASE RunJob
  BY <1>13, DispatchesHead, SplitterAssumption
  DEF Inv, TypeOK, Pool!TypeOK, ControlInv, QueueInv, ClientPCs, JobPCs, Inside,
      Stored, RunJob, Goto
<1>14. ASSUME NEW j \in Job, Split(j) PROVE ControlInv'
  <2>1. \E to \in {"split", "split_done"} : pc' = [pc EXCEPT ![j] = to]
    BY <1>14, SplitTurn DEF Inv
  <2>. QED
    BY <1>14, <2>1, SplitterAssumption
    DEF Inv, TypeOK, ControlInv, ClientPCs, JobPCs, Inside, Stored, Split
<1>15. ASSUME NEW j \in Job, SplitThrows(j) PROVE ControlInv'
  BY <1>15, SplitterAssumption
  DEF Inv, TypeOK, Pool!TypeOK, ControlInv, QueueInv, ClientPCs, JobPCs, Inside,
      Stored, SplitThrows, Goto, Pool!Finish
<1>16. ASSUME NEW j \in Job, NotifyAllObservers(j) PROVE ControlInv'
  BY <1>16, SplitterAssumption
  DEF Inv, TypeOK, Pool!TypeOK, ControlInv, QueueInv, ClientPCs, JobPCs, Inside,
      Stored, NotifyAllObservers, Goto
<1>17. ASSUME NEW j \in Job, JobReturn(j) PROVE ControlInv'
  BY <1>17, SplitterAssumption
  DEF Inv, TypeOK, Pool!TypeOK, ControlInv, QueueInv, ClientPCs, JobPCs, Inside,
      Stored, JobReturn, Goto, Pool!Finish
<1>18. ASSUME NEW j \in Job, JobDestroys(j) PROVE ControlInv'
  BY <1>18, SplitterAssumption
  DEF Inv, TypeOK, Pool!TypeOK, ControlInv, QueueInv, ClientPCs, JobPCs, Inside,
      Stored, JobDestroys, Goto
<1>. QED
  BY <1>1, <1>2, <1>3, <1>4, <1>5, <1>6, <1>7, <1>8, <1>9, <1>10, <1>11, <1>12,
     <1>13, <1>14, <1>15, <1>16, <1>17, <1>18, <1>s
  DEF Next, Synchronized, RunningJob

\* Every step keeps each job in the queue at most once, and out of it once it runs.
LEMMA QueueStep == Inv /\ [Next]_vars => QueueInv'
<1>. SUFFICES ASSUME Inv, [Next]_vars PROVE QueueInv'
  OBVIOUS
<1>s. CASE UNCHANGED vars
  BY <1>s DEF Inv, QueueInv, vars
<1>1. ASSUME NEW t \in Actor, EnterMonitor(t) PROVE QueueInv'
  BY <1>1, SplitterAssumption
  DEF Inv, TypeOK, Pool!TypeOK, ControlInv, QueueInv, EnterMonitor, Goto
<1>2. ASSUME NEW t \in Actor, LoadCount(t) PROVE QueueInv'
  BY <1>2, SplitterAssumption
  DEF Inv, TypeOK, Pool!TypeOK, ControlInv, QueueInv, LoadCount, Goto
<1>3. ASSUME NEW t \in Actor, StoreCount(t) PROVE QueueInv'
  BY <1>3, SplitterAssumption
  DEF Inv, TypeOK, Pool!TypeOK, ControlInv, QueueInv, StoreCount, Goto
<1>4. ASSUME NEW t \in Actor, NotifyAll(t) PROVE QueueInv'
  BY <1>4, SplitterAssumption
  DEF Inv, TypeOK, Pool!TypeOK, ControlInv, QueueInv, NotifyAll, Goto
<1>5. ASSUME NEW t \in Actor, LeaveMonitor(t) PROVE QueueInv'
  BY <1>5, SplitterAssumption
  DEF Inv, TypeOK, Pool!TypeOK, ControlInv, QueueInv, LeaveMonitor, Goto
<1>6. ASSUME NEW d \in Client, NEW j \in Job, AddSplitterJob(d, j) PROVE QueueInv'
  <2>1. /\ outcome[j] = "new" /\ queue' = Append(queue, j)
        /\ outcome' = [outcome EXCEPT ![j] = "pending"]
    BY <1>6, AcceptsJob DEF AddSplitterJob, Inv
  <2>2. queue \in Seq(Job) /\ outcome \in [Job -> Pool!Outcomes]
    BY DEF Inv, TypeOK, Pool!TypeOK
  <2>3. /\ Len(queue') = Len(queue) + 1 /\ queue'[Len(queue) + 1] = j
        /\ \A i \in 1..Len(queue) : queue'[i] = queue[i] /\ queue[i] # j
    BY <2>1, <2>2 DEF Inv, QueueInv
  <2>4. \A k \in Job : pc'[k] = pc[k]
    BY <1>6, SplitterAssumption DEF Inv, TypeOK, AddSplitterJob, Goto
  <2>. QED
    BY <2>1, <2>2, <2>3, <2>4 DEF Inv, QueueInv
<1>7. ASSUME NEW d \in Client, WaitAllJobDone(d) PROVE QueueInv'
  BY <1>7, SplitterAssumption
  DEF Inv, TypeOK, Pool!TypeOK, ControlInv, QueueInv, WaitAllJobDone, Goto
<1>8. ASSUME NEW d \in Client, Wait(d) PROVE QueueInv'
  BY <1>8, SplitterAssumption
  DEF Inv, TypeOK, Pool!TypeOK, ControlInv, QueueInv, Wait, Goto
<1>9. ASSUME NEW d \in Client, Resume(d) PROVE QueueInv'
  BY <1>9, SplitterAssumption
  DEF Inv, TypeOK, Pool!TypeOK, ControlInv, QueueInv, Resume, Goto
<1>10. ASSUME NEW d \in Client, SpuriousWakeup(d) PROVE QueueInv'
  BY <1>10, SplitterAssumption
  DEF Inv, TypeOK, Pool!TypeOK, ControlInv, QueueInv, SpuriousWakeup, Goto
<1>11. ASSUME NEW d \in Client, Release(d) PROVE QueueInv'
  BY <1>11, SplitterAssumption
  DEF Inv, TypeOK, Pool!TypeOK, ControlInv, QueueInv, Release, Goto
<1>12. ASSUME NEW d \in Client, Destroy(d) PROVE QueueInv'
  BY <1>12, SplitterAssumption
  DEF Inv, TypeOK, Pool!TypeOK, ControlInv, QueueInv, Destroy, Goto
<1>13. CASE RunJob
  <2>1. /\ queue # <<>> /\ Head(queue) \in Job /\ Head(queue) = queue[1]
        /\ queue' = Tail(queue) /\ outcome' = [outcome EXCEPT ![Head(queue)] = "running"]
    BY <1>13, DispatchesHead DEF RunJob, Inv
  <2>2. queue \in Seq(Job) /\ outcome \in [Job -> Pool!Outcomes]
    BY DEF Inv, TypeOK, Pool!TypeOK
  <2>3. /\ Len(queue') = Len(queue) - 1
        /\ \A i \in 1..Len(queue') : queue'[i] = queue[i + 1] /\ i + 1 \in 1..Len(queue)
    BY <2>1, <2>2
  <2>4. \A i \in 1..Len(queue') : queue'[i] # Head(queue)
    BY <2>1, <2>2, <2>3 DEF Inv, QueueInv
  <2>5. \A k \in Job : k # Head(queue) => pc'[k] = pc[k]
    BY <1>13, <2>1 DEF Inv, TypeOK, RunJob, Goto
  <2>. QED
    BY <2>1, <2>2, <2>3, <2>4, <2>5 DEF Inv, QueueInv
<1>14. ASSUME NEW j \in Job, Split(j) PROVE QueueInv'
  BY <1>14, SplitterAssumption
  DEF Inv, TypeOK, Pool!TypeOK, ControlInv, QueueInv, Split, Goto
<1>15. ASSUME NEW j \in Job, SplitThrows(j) PROVE QueueInv'
  BY <1>15, SplitterAssumption
  DEF Inv, TypeOK, Pool!TypeOK, ControlInv, QueueInv, SplitThrows, Goto, Pool!Finish
<1>16. ASSUME NEW j \in Job, NotifyAllObservers(j) PROVE QueueInv'
  BY <1>16, SplitterAssumption
  DEF Inv, TypeOK, Pool!TypeOK, ControlInv, QueueInv, NotifyAllObservers, Goto
<1>17. ASSUME NEW j \in Job, JobReturn(j) PROVE QueueInv'
  BY <1>17, SplitterAssumption
  DEF Inv, TypeOK, Pool!TypeOK, ControlInv, QueueInv, JobReturn, Goto, Pool!Finish
<1>18. ASSUME NEW j \in Job, JobDestroys(j) PROVE QueueInv'
  BY <1>18, SplitterAssumption
  DEF Inv, TypeOK, Pool!TypeOK, ControlInv, QueueInv, JobDestroys, Goto
<1>. QED
  BY <1>1, <1>2, <1>3, <1>4, <1>5, <1>6, <1>7, <1>8, <1>9, <1>10, <1>11, <1>12,
     <1>13, <1>14, <1>15, <1>16, <1>17, <1>18, <1>s
  DEF Next, Synchronized, RunningJob

-----------------------------------------------------------------------------
(* What the jobs write.                                                    *)

\* Every step keeps what Split has written in order: a job past Split is complete.
LEMMA OutputStep == Inv /\ OutputInv /\ [Next]_vars => OutputInv'
<1>. SUFFICES ASSUME Inv, OutputInv, [Next]_vars PROVE OutputInv'
  OBVIOUS
<1>u. ASSUME UNCHANGED output_paths, NEW k \in Job
      PROVE  /\ Unfinished(k)' <=> Unfinished(k)
             /\ Written(k)' <=> Written(k)
             /\ Complete(k)' <=> Complete(k)
  BY <1>u DEF Unfinished, Written, Complete
<1>s. CASE UNCHANGED vars
  BY <1>s, <1>u DEF OutputInv, vars
<1>1. ASSUME NEW t \in Actor, EnterMonitor(t) PROVE OutputInv'
  BY <1>1, <1>u, SplitterAssumption
  DEF Inv, TypeOK, ControlInv, OutputInv, EnterMonitor, Goto
<1>2. ASSUME NEW t \in Actor, LoadCount(t) PROVE OutputInv'
  BY <1>2, <1>u, SplitterAssumption
  DEF Inv, TypeOK, ControlInv, OutputInv, LoadCount, Goto
<1>3. ASSUME NEW t \in Actor, StoreCount(t) PROVE OutputInv'
  BY <1>3, <1>u, SplitterAssumption
  DEF Inv, TypeOK, ControlInv, OutputInv, StoreCount, Goto
<1>4. ASSUME NEW t \in Actor, NotifyAll(t) PROVE OutputInv'
  BY <1>4, <1>u, SplitterAssumption
  DEF Inv, TypeOK, ControlInv, OutputInv, NotifyAll, Goto
<1>5. ASSUME NEW t \in Actor, LeaveMonitor(t) PROVE OutputInv'
  BY <1>5, <1>u, SplitterAssumption
  DEF Inv, TypeOK, ControlInv, OutputInv, LeaveMonitor, Goto
<1>6. ASSUME NEW d \in Client, NEW j \in Job, AddSplitterJob(d, j) PROVE OutputInv'
  BY <1>6, <1>u, SplitterAssumption
  DEF Inv, TypeOK, ControlInv, OutputInv, AddSplitterJob, Goto
<1>7. ASSUME NEW d \in Client, WaitAllJobDone(d) PROVE OutputInv'
  BY <1>7, <1>u, SplitterAssumption
  DEF Inv, TypeOK, ControlInv, OutputInv, WaitAllJobDone, Goto
<1>8. ASSUME NEW d \in Client, Wait(d) PROVE OutputInv'
  BY <1>8, <1>u, SplitterAssumption DEF Inv, TypeOK, ControlInv, OutputInv, Wait, Goto
<1>9. ASSUME NEW d \in Client, Resume(d) PROVE OutputInv'
  BY <1>9, <1>u, SplitterAssumption
  DEF Inv, TypeOK, ControlInv, OutputInv, Resume, Goto
<1>10. ASSUME NEW d \in Client, SpuriousWakeup(d) PROVE OutputInv'
  BY <1>10, <1>u, SplitterAssumption
  DEF Inv, TypeOK, ControlInv, OutputInv, SpuriousWakeup, Goto
<1>11. ASSUME NEW d \in Client, Release(d) PROVE OutputInv'
  BY <1>11, <1>u, SplitterAssumption
  DEF Inv, TypeOK, ControlInv, OutputInv, Release, Goto
<1>12. ASSUME NEW d \in Client, Destroy(d) PROVE OutputInv'
  BY <1>12, <1>u, SplitterAssumption
  DEF Inv, TypeOK, ControlInv, OutputInv, Destroy, Goto
<1>13. CASE RunJob
  <2>1. Head(queue) \in Job /\ pc[Head(queue)] = "idle"
    BY <1>13, DispatchesHead DEF RunJob, Inv, QueueInv
  <2>. QED
    BY <1>13, <1>u, <2>1 DEF Inv, TypeOK, OutputInv, RunJob, Goto
<1>14. ASSUME NEW j \in Job, Split(j) PROVE OutputInv'
  <2>1. /\ pc[j] = "split" /\ Unfinished(j)
        /\ output_paths \in [Job -> Seq({"OK", "ERROR"})]
        /\ GetSectionCount(j) \in Nat
    BY <1>14, SplitterAssumption DEF Split, OutputInv, Inv, TypeOK, GetSectionCount
  <2>2. ASSUME NEW k \in Job, k # j
        PROVE  /\ pc'[k] = pc[k]
               /\ Unfinished(k)' <=> Unfinished(k)
               /\ Written(k)' <=> Written(k)
               /\ Complete(k)' <=> Complete(k)
    <3>1. output_paths'[k] = output_paths[k] /\ pc'[k] = pc[k]
      BY <1>14, <2>2, SplitTurn DEF Inv, TypeOK
    <3>. QED
      BY <3>1 DEF Unfinished, Written, Complete
  <2>3. \/ pc'[j] = "split" /\ Unfinished(j)'
        \/ pc'[j] = "split_done" /\ Written(j)' /\ Complete(j)'
    <3>1. CASE GetSectionCount(j) = 0
      <4>1. output_paths'[j] = output_paths[j] /\ pc'[j] = "split_done"
        BY <1>14, <3>1, SplitTurn DEF Inv, TypeOK
      <4>2. Len(output_paths[j]) = 0
        BY <2>1, <3>1 DEF Unfinished
      <4>. QED
        BY <4>1, <4>2, <3>1 DEF Written, Complete
    <3>2. CASE GetSectionCount(j) > 0
      <4>1. PICK s \in {"OK", "ERROR"} :
              /\ output_paths'[j] = Append(output_paths[j], s)
              /\ pc'[j] = IF s = "ERROR" \/ Len(output_paths'[j]) = GetSectionCount(j)
                         THEN "split_done" ELSE "split"
        BY <1>14, <3>2, SplitTurn DEF Inv, TypeOK
      <4>2. /\ Len(output_paths'[j]) = Len(output_paths[j]) + 1
            /\ output_paths'[j] # <<>>
            /\ output_paths'[j][Len(output_paths[j]) + 1] = s
            /\ \A i \in 1..Len(output_paths[j]) : output_paths'[j][i] = "OK"
        BY <2>1, <4>1 DEF Unfinished
      <4>3. Len(output_paths[j]) \in Nat /\ Len(output_paths[j]) < GetSectionCount(j)
        BY <2>1, <3>2 DEF Unfinished
      <4>. QED
        BY <2>1, <4>1, <4>2, <4>3 DEF Unfinished, Written, Complete
    <3>. QED
      BY <2>1, <3>1, <3>2
  <2>. QED
    BY <2>1, <2>2, <2>3 DEF OutputInv
<1>15. ASSUME NEW j \in Job, SplitThrows(j) PROVE OutputInv'
  BY <1>15, <1>u, SplitterAssumption
  DEF Inv, TypeOK, ControlInv, OutputInv, SplitThrows, Goto
<1>16. ASSUME NEW j \in Job, NotifyAllObservers(j) PROVE OutputInv'
  BY <1>16, <1>u, SplitterAssumption
  DEF Inv, TypeOK, ControlInv, OutputInv, NotifyAllObservers, Goto
<1>17. ASSUME NEW j \in Job, JobReturn(j) PROVE OutputInv'
  BY <1>17, <1>u, SplitterAssumption
  DEF Inv, TypeOK, ControlInv, OutputInv, JobReturn, Goto
<1>18. ASSUME NEW j \in Job, JobDestroys(j) PROVE OutputInv'
  BY <1>18, <1>u, SplitterAssumption
  DEF Inv, TypeOK, ControlInv, OutputInv, JobDestroys, Goto
<1>. QED
  BY <1>1, <1>2, <1>3, <1>4, <1>5, <1>6, <1>7, <1>8, <1>9, <1>10, <1>11, <1>12,
     <1>13, <1>14, <1>15, <1>16, <1>17, <1>18, <1>s
  DEF Next, Synchronized, RunningJob

-----------------------------------------------------------------------------
(* One client: the mutex, and who holds the scheduler.                     *)

\* With one client, every step keeps two jobs at most inside the mutex.
LEMMA MonitorStep ==
  ASSUME NEW c, Client = {c}
  PROVE  Inv /\ MonitorInv(c) /\ [Next]_vars => MonitorInv(c)'
<1>. SUFFICES ASSUME Inv, MonitorInv(c), [Next]_vars PROVE MonitorInv(c)'
  OBVIOUS
<1>s. CASE UNCHANGED vars
  BY <1>s DEF MonitorInv, vars
<1>1. ASSUME NEW t \in Actor, EnterMonitor(t) PROVE MonitorInv(c)'
  BY <1>1, SplitterAssumption DEF Inv, TypeOK, MonitorInv, Inside, EnterMonitor, Goto
<1>2. ASSUME NEW t \in Actor, LoadCount(t) PROVE MonitorInv(c)'
  BY <1>2, SplitterAssumption DEF Inv, TypeOK, MonitorInv, Inside, LoadCount, Goto
<1>3. ASSUME NEW t \in Actor, StoreCount(t) PROVE MonitorInv(c)'
  BY <1>3, SplitterAssumption DEF Inv, TypeOK, MonitorInv, Inside, StoreCount, Goto
<1>4. ASSUME NEW t \in Actor, NotifyAll(t) PROVE MonitorInv(c)'
  BY <1>4, SplitterAssumption DEF Inv, TypeOK, MonitorInv, Inside, NotifyAll, Goto
<1>5. ASSUME NEW t \in Actor, LeaveMonitor(t) PROVE MonitorInv(c)'
  BY <1>5, SplitterAssumption DEF Inv, TypeOK, MonitorInv, Inside, LeaveMonitor, Goto
<1>6. ASSUME NEW d \in Client, NEW j \in Job, AddSplitterJob(d, j)
      PROVE  MonitorInv(c)'
  BY <1>6, SplitterAssumption
  DEF Inv, TypeOK, MonitorInv, Inside, AddSplitterJob, Goto, MayCall
<1>7. ASSUME NEW d \in Client, WaitAllJobDone(d) PROVE MonitorInv(c)'
  BY <1>7, SplitterAssumption
  DEF Inv, TypeOK, MonitorInv, Inside, WaitAllJobDone, Goto, MayCall
<1>8. ASSUME NEW d \in Client, Wait(d) PROVE MonitorInv(c)'
  BY <1>8, SplitterAssumption DEF Inv, TypeOK, MonitorInv, Inside, Wait, Goto
<1>9. ASSUME NEW d \in Client, Resume(d) PROVE MonitorInv(c)'
  BY <1>9, SplitterAssumption DEF Inv, TypeOK, MonitorInv, Inside, Resume, Goto
<1>10. ASSUME NEW d \in Client, SpuriousWakeup(d) PROVE MonitorInv(c)'
  BY <1>10, SplitterAssumption
  DEF Inv, TypeOK, MonitorInv, Inside, SpuriousWakeup, Goto
<1>11. ASSUME NEW d \in Client, Release(d) PROVE MonitorInv(c)'
  BY <1>11, SplitterAssumption DEF Inv, TypeOK, MonitorInv, Inside, Release, Goto
<1>12. ASSUME NEW d \in Client, Destroy(d) PROVE MonitorInv(c)'
  BY <1>12, SplitterAssumption DEF Inv, TypeOK, MonitorInv, Inside, Destroy, Goto
<1>13. CASE RunJob
  <2>1. Head(queue) \in Job
    BY <1>13, DispatchesHead DEF RunJob, Inv
  <2>. QED
    BY <1>13, <2>1, SplitterAssumption
    DEF Inv, TypeOK, MonitorInv, Inside, RunJob, Goto
<1>14. ASSUME NEW j \in Job, Split(j) PROVE MonitorInv(c)'
  <2>1. \E to \in {"split", "split_done"} : pc' = [pc EXCEPT ![j] = to]
    BY <1>14, SplitTurn DEF Inv
  <2>. QED
    BY <1>14, <2>1, SplitterAssumption DEF Inv, TypeOK, MonitorInv, Inside, Split
<1>15. ASSUME NEW j \in Job, SplitThrows(j) PROVE MonitorInv(c)'
  BY <1>15, SplitterAssumption DEF Inv, TypeOK, MonitorInv, Inside, SplitThrows, Goto
<1>16. ASSUME NEW j \in Job, NotifyAllObservers(j) PROVE MonitorInv(c)'
  BY <1>16, SplitterAssumption
  DEF Inv, TypeOK, MonitorInv, Inside, NotifyAllObservers, Goto
<1>17. ASSUME NEW j \in Job, JobReturn(j) PROVE MonitorInv(c)'
  BY <1>17, SplitterAssumption DEF Inv, TypeOK, MonitorInv, Inside, JobReturn, Goto
<1>18. ASSUME NEW j \in Job, JobDestroys(j) PROVE MonitorInv(c)'
  BY <1>18, SplitterAssumption DEF Inv, TypeOK, MonitorInv, Inside, JobDestroys, Goto
<1>. QED
  BY <1>1, <1>2, <1>3, <1>4, <1>5, <1>6, <1>7, <1>8, <1>9, <1>10, <1>11, <1>12,
     <1>13, <1>14, <1>15, <1>16, <1>17, <1>18, <1>s
  DEF Next, Synchronized, RunningJob

-----------------------------------------------------------------------------
(* The jobs that are to be counted down.  Only AddSplitterJob and the      *)
(* store of OnCompletedJob change the set.                                 *)

Quiet ==
  \/ \E t \in Actor : EnterMonitor(t) \/ LoadCount(t) \/ NotifyAll(t) \/ LeaveMonitor(t)
  \/ \E d \in Client :
       \/ StoreCount(d) \/ WaitAllJobDone(d) \/ Wait(d) \/ Resume(d)
       \/ SpuriousWakeup(d) \/ Release(d) \/ Destroy(d)
  \/ RunJob
  \/ \E j \in Job : RunningJob(j)

\* A step that neither adds a job nor stores a count changes no set of jobs.
LEMMA QuietKeeps ==
  ASSUME Inv, Quiet
  PROVE  Outstanding' = Outstanding /\ AddedJobs' = AddedJobs
<1>. DEFINE Same(k) ==
       /\ (outcome'[k] = "new") <=> (outcome[k] = "new")
       /\ (pc'[k] \in Stored) <=> (pc[k] \in Stored)
<1>. SUFFICES ASSUME NEW k \in Job PROVE Same(k)
  BY DEF Outstanding, AddedJobs
<1>. USE SplitterAssumption DEF Stored
<1>1. ASSUME NEW t \in Actor,
             EnterMonitor(t) \/ LoadCount(t) \/ NotifyAll(t) \/ LeaveMonitor(t)
      PROVE  Same(k)
  BY <1>1
  DEF Inv, TypeOK, ControlInv, ClientPCs, JobPCs, Inside, Goto, MayCall,
      EnterMonitor, LoadCount, NotifyAll, LeaveMonitor
<1>2. ASSUME NEW d \in Client,
             StoreCount(d) \/ WaitAllJobDone(d) \/ Wait(d) \/ Resume(d)
               \/ SpuriousWakeup(d) \/ Release(d) \/ Destroy(d)
      PROVE  Same(k)
  BY <1>2
  DEF Inv, TypeOK, ControlInv, ClientPCs, JobPCs, Inside, Goto, MayCall,
      StoreCount, WaitAllJobDone, Wait, Resume, SpuriousWakeup, Release, Destroy
<1>3. ASSUME RunJob PROVE Same(k)
  <2>1. /\ Head(queue) \in Job /\ outcome[Head(queue)] = "pending" /\ pc[Head(queue)] = "idle"
        /\ outcome' = [outcome EXCEPT ![Head(queue)] = "running"]
    BY <1>3, DispatchesHead DEF RunJob, Inv, QueueInv
  <2>. QED
    BY <1>3, <2>1 DEF Inv, TypeOK, Pool!TypeOK, RunJob, Goto
<1>4. ASSUME NEW j \in Job, Split(j) PROVE Same(k)
  <2>1. /\ pc[j] = "split"
        /\ \E to \in {"split", "split_done"} : pc' = [pc EXCEPT ![j] = to]
    BY <1>4, SplitTurn DEF Inv
  <2>. QED
    BY <1>4, <2>1 DEF Inv, TypeOK, Split
<1>5. ASSUME NEW j \in Job, SplitThrows(j) \/ JobReturn(j) PROVE Same(k)
  BY <1>5 DEF Inv, TypeOK, Pool!TypeOK, SplitThrows, JobReturn, Pool!Finish, Goto
<1>6. ASSUME NEW j \in Job, NotifyAllObservers(j) \/ JobDestroys(j) PROVE Same(k)
  BY <1>6 DEF Inv, TypeOK, NotifyAllObservers, JobDestroys, Goto
<1>. QED
  BY <1>1, <1>2, <1>3, <1>4, <1>5, <1>6 DEF Quiet, RunningJob

\* AddSplitterJob adds its job to both sets.
LEMMA AddGrows ==
  ASSUME Inv, NEW d \in Client, NEW j \in Job, AddSplitterJob(d, j)
  PROVE  /\ j \notin AddedJobs /\ j \notin Outstanding
         /\ Outstanding' = Outstanding \cup {j}
         /\ AddedJobs' = AddedJobs \cup {j}
<1>1. outcome[j] = "new" /\ outcome' = [outcome EXCEPT ![j] = "pending"]
  BY AcceptsJob DEF AddSplitterJob, Inv
<1>2. \A k \in Job : pc'[k] = pc[k]
  BY SplitterAssumption DEF Inv, TypeOK, AddSplitterJob, Goto
<1>3. pc[j] = "idle"
  BY <1>1 DEF Inv, QueueInv
<1>. QED
  BY <1>1, <1>2, <1>3 DEF Inv, TypeOK, Pool!TypeOK, Outstanding, AddedJobs, Stored

\* Storing the decremented count is what takes a job off the outstanding ones.
LEMMA StoreShrinks ==
  ASSUME Inv, NEW j \in Job, StoreCount(j)
  PROVE  /\ j \in Outstanding /\ Outstanding' = Outstanding \ {j}
         /\ AddedJobs' = AddedJobs
  BY DEF Inv, TypeOK, ControlInv, StoreCount, Goto, Outstanding, AddedJobs, Stored

\* Both sets are finite and fit the counter.
LEMMA Cardinalities ==
  ASSUME CountFits
  PROVE  /\ IsFiniteSet(Outstanding) /\ IsFiniteSet(AddedJobs)
         /\ Cardinality(Outstanding) \in Nat /\ Cardinality(AddedJobs) \in Nat
         /\ Cardinality(AddedJobs) <= Cardinality(Job) /\ Cardinality(Job) \in Nat
<1>1. Outstanding \subseteq Job /\ AddedJobs \subseteq Job
  BY DEF Outstanding, AddedJobs
<1>2. \A S \in SUBSET Job : IsFiniteSet(S) /\ Cardinality(S) <= Cardinality(Job)
  BY FS_Subset DEF CountFits
<1>3. \A S \in SUBSET Job : Cardinality(S) \in Nat
  BY <1>2, FS_CardinalityType
<1>. QED
  BY <1>1, <1>2, <1>3

\* pending_job_count_-- and pending_job_count_++ on a size_t, read with -1 for the
\* largest one.
LEMMA SignedDecrement ==
  ASSUME NEW r \in 0..SizeMax, Signed(r) >= 0
  PROVE  Signed((r + SizeMax) % (SizeMax + 1)) = Signed(r) - 1
<1>. SizeMax \in Nat \ {0}
  BY SplitterAssumption
<1>1. CASE r = 0
  <2>1. (0 + SizeMax) % (SizeMax + 1) = SizeMax
    OBVIOUS
  <2>. QED
    BY <1>1, <2>1 DEF Signed
<1>2. CASE r \in 1..SizeMax - 1
  <2>1. (r + SizeMax) % (SizeMax + 1) = r - 1
    BY <1>2
  <2>. QED
    BY <1>2, <2>1 DEF Signed
<1>. QED
  BY <1>1, <1>2 DEF Signed

\* Adding one to the counter, which may be the largest size_t, adds one to the number
\* it stands for.
LEMMA SignedIncrement ==
  ASSUME NEW r \in 0..SizeMax, Signed(r) < SizeMax - 1
  PROVE  Signed((r + 1) % (SizeMax + 1)) = Signed(r) + 1
<1>. SizeMax \in Nat \ {0}
  BY SplitterAssumption
<1>1. CASE r = SizeMax
  <2>1. (SizeMax + 1) % (SizeMax + 1) = 0
    OBVIOUS
  <2>. QED
    BY <1>1, <2>1 DEF Signed
<1>2. CASE r \in 0..SizeMax - 2
  <2>1. (r + 1) % (SizeMax + 1) = r + 1
    BY <1>2
  <2>. QED
    BY <1>2, <2>1 DEF Signed
<1>. QED
  BY <1>1, <1>2 DEF Signed

-----------------------------------------------------------------------------
(* One client: the count, and the reference that the jobs need.            *)

\* Every step keeps the scheduler alive while a job is outstanding: the client, who
\* reads a count that is not too low, does not let go before.
LEMMA ClientStep ==
  ASSUME NEW c, Client = {c}, CountFits
  PROVE  Inv /\ CountInv(c) /\ ClientInv(c) /\ [Next]_vars => ClientInv(c)'
<1>. SUFFICES ASSUME Inv, CountInv(c), ClientInv(c), [Next]_vars PROVE ClientInv(c)'
  OBVIOUS
<1>s. CASE UNCHANGED vars
  BY <1>s DEF ClientInv, Outstanding, vars
<1>1. ASSUME NEW t \in Actor, EnterMonitor(t) PROVE ClientInv(c)'
  <2>1. Outstanding' = Outstanding
    BY <1>1, QuietKeeps DEF Quiet
  <2>. QED
    BY <1>1, <2>1, SplitterAssumption
    DEF Inv, TypeOK, ClientInv, EnterMonitor, Goto
<1>2. ASSUME NEW t \in Actor, LoadCount(t) PROVE ClientInv(c)'
  <2>1. Outstanding' = Outstanding
    BY <1>2, QuietKeeps DEF Quiet
  <2>. QED
    BY <1>2, <2>1, SplitterAssumption
    DEF Inv, TypeOK, ClientInv, LoadCount, Goto
<1>3. ASSUME NEW t \in Actor, StoreCount(t) PROVE ClientInv(c)'
  <2>1. Outstanding' = Outstanding \/ \E j \in Job : Outstanding' = Outstanding \ {j}
    BY <1>3, QuietKeeps, StoreShrinks DEF Quiet
  <2>. QED
    BY <1>3, <2>1, SplitterAssumption DEF Inv, TypeOK, ClientInv, StoreCount, Goto
<1>4. ASSUME NEW t \in Actor, NotifyAll(t) PROVE ClientInv(c)'
  <2>1. Outstanding' = Outstanding
    BY <1>4, QuietKeeps DEF Quiet
  <2>. QED
    BY <1>4, <2>1, SplitterAssumption
    DEF Inv, TypeOK, ClientInv, NotifyAll, Goto
<1>5. ASSUME NEW t \in Actor, LeaveMonitor(t) PROVE ClientInv(c)'
  <2>1. Outstanding' = Outstanding
    BY <1>5, QuietKeeps DEF Quiet
  <2>. QED
    BY <1>5, <2>1, SplitterAssumption
    DEF Inv, TypeOK, ClientInv, LeaveMonitor, Goto
<1>6. ASSUME NEW d \in Client, NEW j \in Job, AddSplitterJob(d, j) PROVE ClientInv(c)'
  BY <1>6, SplitterAssumption
  DEF Inv, TypeOK, ClientInv, AddSplitterJob, MayCall, Goto
<1>7. ASSUME NEW d \in Client, WaitAllJobDone(d) PROVE ClientInv(c)'
  <2>1. Outstanding' = Outstanding
    BY <1>7, QuietKeeps DEF Quiet
  <2>2. ASSUME pending_job_count = 0 PROVE Outstanding = {}
    <3>1. Cardinality(Outstanding) <= 0
      <4>1. Uncounted(c) = 0
        BY <1>7 DEF Uncounted, WaitAllJobDone, MayCall
      <4>2. Signed(0) = 0
        BY SplitterAssumption DEF Signed
      <4>. QED
        BY <2>2, <4>1, <4>2, Cardinalities DEF CountInv, InBounds
    <3>. QED
      BY <3>1, Cardinalities, FS_EmptySet
  <2>. QED
    BY <1>7, <2>1, <2>2, SplitterAssumption
    DEF Inv, TypeOK, ClientInv, WaitAllJobDone, Goto, MayCall
<1>8. ASSUME NEW d \in Client, Wait(d) PROVE ClientInv(c)'
  <2>1. Outstanding' = Outstanding
    BY <1>8, QuietKeeps DEF Quiet
  <2>. QED
    BY <1>8, <2>1, SplitterAssumption
    DEF Inv, TypeOK, ClientInv, Wait, Goto
<1>9. ASSUME NEW d \in Client, Resume(d) PROVE ClientInv(c)'
  <2>1. Outstanding' = Outstanding
    BY <1>9, QuietKeeps DEF Quiet
  <2>. QED
    BY <1>9, <2>1, SplitterAssumption
    DEF Inv, TypeOK, ClientInv, Resume, Goto
<1>10. ASSUME NEW d \in Client, SpuriousWakeup(d) PROVE ClientInv(c)'
  <2>1. Outstanding' = Outstanding
    BY <1>10, QuietKeeps DEF Quiet
  <2>. QED
    BY <1>10, <2>1, SplitterAssumption
    DEF Inv, TypeOK, ClientInv, SpuriousWakeup, Goto
<1>11. ASSUME NEW d \in Client, Release(d) PROVE ClientInv(c)'
  <2>1. Outstanding' = Outstanding
    BY <1>11, QuietKeeps DEF Quiet
  <2>. QED
    BY <1>11, <2>1, SplitterAssumption
    DEF Inv, TypeOK, ClientInv, Release, Goto
<1>12. ASSUME NEW d \in Client, Destroy(d) PROVE ClientInv(c)'
  <2>1. Outstanding' = Outstanding
    BY <1>12, QuietKeeps DEF Quiet
  <2>. QED
    BY <1>12, <2>1, SplitterAssumption
    DEF Inv, TypeOK, ClientInv, Destroy, Goto
<1>13. CASE RunJob
  <2>1. Outstanding' = Outstanding
    BY <1>13, QuietKeeps DEF Quiet
  <2>2. Head(queue) \in Job
    BY <1>13, DispatchesHead DEF RunJob, Inv
  <2>. QED
    BY <1>13, <2>1, <2>2, SplitterAssumption
    DEF Inv, TypeOK, ClientInv, RunJob, Goto
<1>14. ASSUME NEW j \in Job, Split(j) PROVE ClientInv(c)'
  <2>1. Outstanding' = Outstanding
    BY <1>14, QuietKeeps DEF Quiet, RunningJob
  <2>2. \E to \in {"split", "split_done"} : pc' = [pc EXCEPT ![j] = to]
    BY <1>14, SplitTurn DEF Inv
  <2>. QED
    BY <1>14, <2>1, <2>2, SplitterAssumption
    DEF Inv, TypeOK, ClientInv, Split
<1>15. ASSUME NEW j \in Job, SplitThrows(j) PROVE ClientInv(c)'
  <2>1. Outstanding' = Outstanding
    BY <1>15, QuietKeeps DEF Quiet, RunningJob
  <2>. QED
    BY <1>15, <2>1, SplitterAssumption
    DEF Inv, TypeOK, ClientInv, SplitThrows, Goto
<1>16. ASSUME NEW j \in Job, NotifyAllObservers(j) PROVE ClientInv(c)'
  <2>1. Outstanding' = Outstanding
    BY <1>16, QuietKeeps DEF Quiet, RunningJob
  <2>2. c \in refs
    <3>1. j \in Outstanding
      BY <1>16 DEF NotifyAllObservers, Outstanding, Stored, Inv, ControlInv
    <3>. QED
      BY <3>1 DEF ClientInv
  <2>. QED
    BY <1>16, <2>1, <2>2, SplitterAssumption
    DEF Inv, TypeOK, ClientInv, NotifyAllObservers, Goto
<1>17. ASSUME NEW j \in Job, JobReturn(j) PROVE ClientInv(c)'
  <2>1. Outstanding' = Outstanding
    BY <1>17, QuietKeeps DEF Quiet, RunningJob
  <2>. QED
    BY <1>17, <2>1, SplitterAssumption
    DEF Inv, TypeOK, ClientInv, JobReturn, Goto
<1>18. ASSUME NEW j \in Job, JobDestroys(j) PROVE ClientInv(c)'
  <2>1. Outstanding' = Outstanding
    BY <1>18, QuietKeeps DEF Quiet, RunningJob
  <2>. QED
    BY <1>18, <2>1, SplitterAssumption
    DEF Inv, TypeOK, ClientInv, JobDestroys, Goto
<1>. QED
  BY <1>1, <1>2, <1>3, <1>4, <1>5, <1>6, <1>7, <1>8, <1>9, <1>10, <1>11, <1>12,
     <1>13, <1>14, <1>15, <1>16, <1>17, <1>18, <1>s
  DEF Next, Synchronized, RunningJob

\* Every step keeps the count, and what is about to be stored in it, within bounds.
LEMMA CountStep ==
  ASSUME NEW c, Client = {c}, CountFits
  PROVE  Inv /\ MonitorInv(c) /\ CountInv(c) /\ [Next]_vars => CountInv(c)'
<1>. SUFFICES ASSUME Inv, MonitorInv(c), CountInv(c), [Next]_vars PROVE CountInv(c)'
  OBVIOUS
<1>. USE SplitterAssumption, Cardinalities
<1>t. /\ c \notin Job /\ pc \in [Actor -> PCs] /\ reg \in [Actor -> 0..SizeMax]
      /\ pending_job_count \in 0..SizeMax
  BY DEF Inv, TypeOK
<1>k. ASSUME Outstanding' = Outstanding, AddedJobs' = AddedJobs,
             Uncounted(c)' = Uncounted(c), UNCHANGED pending_job_count,
             \A t \in Actor : pc'[t] = "store" =>
               \/ pc[t] = "store" /\ reg'[t] = reg[t]
               \/ reg'[t] = pending_job_count
      PROVE  CountInv(c)'
  BY <1>k DEF CountInv, InBounds, Signed
<1>s. CASE UNCHANGED vars
  BY <1>s, <1>k DEF Outstanding, AddedJobs, Uncounted, vars
<1>1. ASSUME NEW t \in Actor, EnterMonitor(t) PROVE CountInv(c)'
  <2>1. Outstanding' = Outstanding /\ AddedJobs' = AddedJobs
    BY <1>1, QuietKeeps DEF Quiet
  <2>. QED
    BY <1>1, <1>t, <1>k, <2>1 DEF Uncounted, EnterMonitor, Goto
<1>2. ASSUME NEW t \in Actor, LoadCount(t) PROVE CountInv(c)'
  <2>1. Outstanding' = Outstanding /\ AddedJobs' = AddedJobs
    BY <1>2, QuietKeeps DEF Quiet
  <2>. QED
    BY <1>2, <1>t, <1>k, <2>1 DEF Uncounted, LoadCount, Goto
<1>3. ASSUME NEW t \in Actor, StoreCount(t) PROVE CountInv(c)'
  <2>1. CASE t \in Job
    <3>1. t \in Outstanding /\ Cardinality(Outstanding) >= 1
      BY <1>3, <2>1, StoreShrinks, FS_EmptySet
    <3>2. /\ Cardinality(Outstanding') = Cardinality(Outstanding) - 1
          /\ AddedJobs' = AddedJobs
      BY <1>3, <2>1, StoreShrinks, FS_RemoveElement
    <3>3. Uncounted(c)' = Uncounted(c) /\ Uncounted(c) \in {0, 1}
      BY <1>3, <1>t, <2>1 DEF StoreCount, Goto, Uncounted
    <3>4. InBounds(c, reg[t]) /\ pc[t] = "store"
      BY <1>3 DEF StoreCount, CountInv
    <3>5. /\ pending_job_count' = (reg[t] + SizeMax) % (SizeMax + 1)
          /\ UNCHANGED reg
          /\ \A x \in Actor : pc'[x] = "store" => pc[x] = "store"
      BY <1>3, <1>t, <2>1 DEF StoreCount, Goto
    <3>6. Signed(pending_job_count') = Signed(reg[t]) - 1
      <4>1. Signed(reg[t]) >= 0
        BY <1>t, <3>1, <3>3, <3>4 DEF InBounds, Signed
      <4>. QED
        BY <1>t, <3>5, <4>1, SignedDecrement
    <3>7. Signed(reg[t]) \in Int /\ \A x \in Actor : Signed(reg[x]) \in Int
      BY <1>t DEF Signed
    <3>8. InBounds(c, pending_job_count)'
      BY <3>1, <3>2, <3>3, <3>4, <3>6, <3>7 DEF InBounds, Signed
    <3>9. ASSUME NEW x \in Actor, pc'[x] = "store" PROVE InBounds(c, reg[x])'
      <4>1. InBounds(c, reg[x])
        BY <3>5, <3>9 DEF CountInv
      <4>. QED
        BY <3>1, <3>2, <3>3, <3>5, <3>7, <4>1 DEF InBounds, Signed
    <3>. QED
      BY <3>8, <3>9 DEF CountInv
  <2>2. CASE t \in Client
    <3>1. Outstanding' = Outstanding /\ AddedJobs' = AddedJobs
      BY <1>3, <2>2, QuietKeeps DEF Quiet
    <3>2. t = c /\ Uncounted(c) = 1 /\ Uncounted(c)' = 0
      BY <1>3, <1>t, <2>2 DEF StoreCount, Goto, Uncounted
    <3>3. InBounds(c, reg[c]) /\ pc[c] = "store"
      BY <1>3, <3>2 DEF StoreCount, CountInv
    <3>4. \A x \in Actor : pc'[x] # "store"
      BY <1>3, <1>t, <3>2, <3>3 DEF MonitorInv, Inside, StoreCount, Goto
    <3>5. Signed(pending_job_count') = Signed(reg[c]) + 1
      <4>1. Signed(reg[c]) < SizeMax - 1
        BY <1>t, <3>2, <3>3 DEF InBounds, Signed, CountFits
      <4>. QED
        BY <1>3, <1>t, <2>2, <3>2, <4>1, SignedIncrement DEF StoreCount
    <3>6. Signed(reg[c]) \in Int
      BY <1>t, <2>2, <3>2 DEF Signed
    <3>7. InBounds(c, pending_job_count)'
      BY <3>1, <3>2, <3>3, <3>5, <3>6 DEF InBounds, Signed
    <3>. QED
      BY <3>4, <3>7 DEF CountInv
  <2>. QED
    BY <2>1, <2>2
<1>4. ASSUME NEW t \in Actor, NotifyAll(t) PROVE CountInv(c)'
  <2>1. Outstanding' = Outstanding /\ AddedJobs' = AddedJobs
    BY <1>4, QuietKeeps DEF Quiet
  <2>. QED
    BY <1>4, <1>t, <1>k, <2>1 DEF Uncounted, NotifyAll, Goto
<1>5. ASSUME NEW t \in Actor, LeaveMonitor(t) PROVE CountInv(c)'
  <2>1. Outstanding' = Outstanding /\ AddedJobs' = AddedJobs
    BY <1>5, QuietKeeps DEF Quiet
  <2>. QED
    BY <1>5, <1>t, <1>k, <2>1 DEF Uncounted, LeaveMonitor, Goto
<1>6. ASSUME NEW d \in Client, NEW j \in Job, AddSplitterJob(d, j) PROVE CountInv(c)'
  <2>1. /\ Cardinality(Outstanding') = Cardinality(Outstanding) + 1
        /\ Cardinality(AddedJobs') = Cardinality(AddedJobs) + 1
    <3>1. /\ j \notin AddedJobs /\ j \notin Outstanding
          /\ Outstanding' = Outstanding \cup {j} /\ AddedJobs' = AddedJobs \cup {j}
      BY <1>6, AddGrows
    <3>. QED
      BY <3>1, FS_AddElement
  <2>2. d = c /\ Uncounted(c) = 0 /\ Uncounted(c)' = 1
    BY <1>6, <1>t DEF AddSplitterJob, MayCall, Goto, Uncounted
  <2>3. /\ UNCHANGED <<pending_job_count, reg>>
        /\ \A t \in Actor : pc'[t] = "store" => pc[t] = "store"
    BY <1>6, <1>t DEF AddSplitterJob, Goto
  <2>. QED
    BY <1>t, <2>1, <2>2, <2>3 DEF CountInv, InBounds, Signed
<1>7. ASSUME NEW d \in Client, WaitAllJobDone(d) PROVE CountInv(c)'
  <2>1. Outstanding' = Outstanding /\ AddedJobs' = AddedJobs
    BY <1>7, QuietKeeps DEF Quiet
  <2>. QED
    BY <1>7, <1>t, <1>k, <2>1 DEF Uncounted, WaitAllJobDone, Goto, MayCall
<1>8. ASSUME NEW d \in Client, Wait(d) PROVE CountInv(c)'
  <2>1. Outstanding' = Outstanding /\ AddedJobs' = AddedJobs
    BY <1>8, QuietKeeps DEF Quiet
  <2>. QED
    BY <1>8, <1>t, <1>k, <2>1 DEF Uncounted, Wait, Goto
<1>9. ASSUME NEW d \in Client, Resume(d) PROVE CountInv(c)'
  <2>1. Outstanding' = Outstanding /\ AddedJobs' = AddedJobs
    BY <1>9, QuietKeeps DEF Quiet
  <2>. QED
    BY <1>9, <1>t, <1>k, <2>1 DEF Uncounted, Resume, Goto
<1>10. ASSUME NEW d \in Client, SpuriousWakeup(d) PROVE CountInv(c)'
  <2>1. Outstanding' = Outstanding /\ AddedJobs' = AddedJobs
    BY <1>10, QuietKeeps DEF Quiet
  <2>. QED
    BY <1>10, <1>t, <1>k, <2>1 DEF Uncounted, SpuriousWakeup, Goto
<1>11. ASSUME NEW d \in Client, Release(d) PROVE CountInv(c)'
  <2>1. Outstanding' = Outstanding /\ AddedJobs' = AddedJobs
    BY <1>11, QuietKeeps DEF Quiet
  <2>. QED
    BY <1>11, <1>t, <1>k, <2>1 DEF Uncounted, Release, Goto
<1>12. ASSUME NEW d \in Client, Destroy(d) PROVE CountInv(c)'
  <2>1. Outstanding' = Outstanding /\ AddedJobs' = AddedJobs
    BY <1>12, QuietKeeps DEF Quiet
  <2>. QED
    BY <1>12, <1>t, <1>k, <2>1 DEF Uncounted, Destroy, Goto
<1>13. CASE RunJob
  <2>1. Outstanding' = Outstanding /\ AddedJobs' = AddedJobs
    BY <1>13, QuietKeeps DEF Quiet
  <2>2. Head(queue) \in Job
    BY <1>13, DispatchesHead DEF RunJob, Inv
  <2>. QED
    BY <1>13, <1>t, <1>k, <2>1, <2>2 DEF Uncounted, RunJob, Goto
<1>14. ASSUME NEW j \in Job, Split(j) PROVE CountInv(c)'
  <2>1. Outstanding' = Outstanding /\ AddedJobs' = AddedJobs
    BY <1>14, QuietKeeps DEF Quiet, RunningJob
  <2>2. \E to \in {"split", "split_done"} : pc' = [pc EXCEPT ![j] = to]
    BY <1>14, SplitTurn DEF Inv
  <2>. QED
    BY <1>14, <1>t, <1>k, <2>1, <2>2 DEF Uncounted, Split
<1>15. ASSUME NEW j \in Job, SplitThrows(j) PROVE CountInv(c)'
  <2>1. Outstanding' = Outstanding /\ AddedJobs' = AddedJobs
    BY <1>15, QuietKeeps DEF Quiet, RunningJob
  <2>. QED
    BY <1>15, <1>t, <1>k, <2>1 DEF Uncounted, SplitThrows, Goto
<1>16. ASSUME NEW j \in Job, NotifyAllObservers(j) PROVE CountInv(c)'
  <2>1. Outstanding' = Outstanding /\ AddedJobs' = AddedJobs
    BY <1>16, QuietKeeps DEF Quiet, RunningJob
  <2>. QED
    BY <1>16, <1>t, <1>k, <2>1 DEF Uncounted, NotifyAllObservers, Goto
<1>17. ASSUME NEW j \in Job, JobReturn(j) PROVE CountInv(c)'
  <2>1. Outstanding' = Outstanding /\ AddedJobs' = AddedJobs
    BY <1>17, QuietKeeps DEF Quiet, RunningJob
  <2>. QED
    BY <1>17, <1>t, <1>k, <2>1 DEF Uncounted, JobReturn, Goto
<1>18. ASSUME NEW j \in Job, JobDestroys(j) PROVE CountInv(c)'
  <2>1. Outstanding' = Outstanding /\ AddedJobs' = AddedJobs
    BY <1>18, QuietKeeps DEF Quiet, RunningJob
  <2>. QED
    BY <1>18, <1>t, <1>k, <2>1 DEF Uncounted, JobDestroys, Goto
<1>. QED
  BY <1>1, <1>2, <1>3, <1>4, <1>5, <1>6, <1>7, <1>8, <1>9, <1>10, <1>11, <1>12,
     <1>13, <1>14, <1>15, <1>16, <1>17, <1>18, <1>s
  DEF Next, Synchronized, RunningJob

-----------------------------------------------------------------------------
(* The theorems.                                                           *)

\* The types of the scheduler's state: pending_job_count_ stays a size_t, whatever
\* updates are lost, and every job that is queued is queued once and has not begun.
THEOREM SchedulerTypes == Spec => []Inv
<1>1. Inv /\ [Next]_vars => Inv'
  BY TypeStep, ControlStep, QueueStep DEF Inv
<1>. QED
  BY <1>1, InvInit, PTL DEF Spec

\* pending_job_count_ and what the threads have loaded of it stay a size_t, and queue,
\* monitor and output paths keep their types, for any clients and jobs.
THEOREM SchedulerTypeOK == Spec => []TypeOK
<1>1. Inv => TypeOK
  BY DEF Inv
<1>. QED
  BY <1>1, SchedulerTypes, PTL

\* The invariant of a scheduler with one client.
LEMMA OneClient ==
  ASSUME NEW c, Client = {c}, CountFits
  PROVE  Spec => [](Inv /\ OutputInv /\ MonitorInv(c) /\ ClientInv(c) /\ CountInv(c))
<1>1. Init => OutputInv
  BY DEF Init, OutputInv, Unfinished
<1>2. Init => MonitorInv(c)
  BY DEF Init, MonitorInv, Inside
<1>3. ASSUME Init PROVE Outstanding = {} /\ AddedJobs = {}
  BY <1>3 DEF Init, Pool!Init, Outstanding, AddedJobs
<1>4. Init => ClientInv(c)
  BY <1>3 DEF Init, ClientInv
<1>5. ASSUME Init PROVE CountInv(c)
  <2>1. Cardinality(Outstanding) = 0 /\ Cardinality(AddedJobs) = 0
    BY <1>3, <1>5, FS_EmptySet
  <2>2. pending_job_count = 0 /\ Uncounted(c) = 0 /\ \A t \in Actor : pc[t] # "store"
    BY <1>5 DEF Init, Uncounted
  <2>. QED
    BY <2>1, <2>2, SplitterAssumption DEF CountInv, InBounds, Signed
<1>6. Inv /\ [Next]_vars => Inv'
  BY TypeStep, ControlStep, QueueStep DEF Inv
<1>. QED
  BY <1>1, <1>2, <1>4, <1>5, <1>6, InvInit, OutputStep, MonitorStep, ClientStep,
     CountStep, PTL
  DEF Spec

\* WaitAllJobDone returns to the scheduler's only client no earlier than every job it
\* added has been split to its end, for every number of jobs, workers and sections:
\* the count is never too low, though its updates race and can be lost.
THEOREM WaitAllWaits ==
  ASSUME NEW c, Client = {c}, CountFits
  PROVE  Spec => []WaitedJobsDone
<1>1. ASSUME Inv, OutputInv, ClientInv(c) PROVE WaitedJobsDone
  <2>. SUFFICES ASSUME pc[c] = "waited", NEW j \in Job, outcome[j] # "new"
                PROVE  /\ pc[j] \in {"notify", "unlock", "observed", "done"}
                       /\ Written(j) /\ Complete(j)
    BY DEF WaitedJobsDone, Written, Complete
  <2>1. pc[j] \in Stored /\ pc[j] # "destroy"
    BY <1>1 DEF ClientInv, Outstanding
  <2>. QED
    BY <1>1, <2>1 DEF Stored, OutputInv
<1>. QED
  BY <1>1, OneClient, PTL

\* A client that lets go of the scheduler only after WaitAllJobDone leaves no job
\* behind that would call its observer through an expired weak_ptr.
THEOREM ObserverLives ==
  ASSUME NEW c, Client = {c}, CountFits
  PROVE  Spec => []NoNullObserver
<1>1. ClientInv(c) => NoNullObserver
  BY DEF ClientInv, NoNullObserver
<1>. QED
  BY <1>1, OneClient, PTL
=============================================================================
