------------------------ MODULE SplitterJobScheduler ------------------------
(***************************************************************************)
(* SplitterJobScheduler and ObservableSplitterJob of                       *)
(* src/splitter/splitter_job_scheduler.h: clients hand jobs to a thread    *)
(* pool, each job splits its book section by section (EpubSectionSplitter  *)
(* of splitter_strategy.h) and tells the scheduler when it is done, and    *)
(* WaitAllJobDone waits for the count of pending jobs to become zero.      *)
(*                                                                         *)
(* The thread manager is seen through TaskPool, which ThreadManager        *)
(* implements; a job stands for the worker that runs it as well.           *)
(*                                                                         *)
(* WaitAllJobDone reads pending_job_count_ and calls monitor_.Wait() with  *)
(* no lock held.  glibc's normal mutex keeps no account of its owner: the  *)
(* Wait unlocks it for whoever has it, and returns with it locked.         *)
(***************************************************************************)
EXTENDS Integers, FiniteSets, Sequences

CONSTANTS
  Client,              \* threads that hold a shared_ptr to the scheduler
  Job,                 \* the jobs; each is added at most once
  Throwing,            \* the jobs whose Split may throw
  Unreadable,          \* the jobs whose book has no section
  SectionCount,        \* the number of sections of the others
  NumWorkers, PendingJobMaxCount,
  SizeMax              \* the largest size_t

ASSUME SplitterAssumption ==
  /\ Client \cap Job = {}
  /\ Throwing \subseteq Job /\ Unreadable \subseteq Job
  /\ SectionCount \in Nat \ {0}
  /\ NumWorkers \in Nat /\ PendingJobMaxCount \in Nat
  /\ SizeMax \in Nat \ {0}

VARIABLES
  queue, outcome,      \* the thread manager
  output_paths,        \* the State of each partial book a job has written
  pending_job_count,
  locked, sleepers,    \* monitor_: its mutex, and who waits on it
  pc, reg,             \* control state, and the loaded pending_job_count_
  refs                 \* who holds a shared_ptr to the scheduler

pool == <<queue, outcome, output_paths>>
monitor == <<locked, sleepers>>
vars == <<pool, pending_job_count, monitor, pc, reg, refs>>

Pool == INSTANCE TaskPool WITH Task <- Job

Actor == Client \cup Job

Init ==
  /\ Pool!Init
  /\ output_paths = [j \in Job |-> <<>>]
  /\ pending_job_count = 0
  /\ locked = FALSE /\ sleepers = {}
  /\ pc = [t \in Actor |-> "idle"]
  /\ reg = [t \in Actor |-> 0]
  /\ refs = Client

Goto(t, to) == pc' = [pc EXCEPT ![t] = to]
MayCall(c) == pc[c] \in {"idle", "waited"}
Running == {j \in Job : outcome[j] = "running"}

-----------------------------------------------------------------------------
(* The synchronized block of AddSplitterJob and of OnCompletedJob.         *)

EnterMonitor(t) ==
  /\ pc[t] = "lock"
  /\ ~locked
  /\ locked' = TRUE
  /\ Goto(t, "load")
  /\ UNCHANGED <<pool, pending_job_count, sleepers, reg, refs>>

LoadCount(t) ==
  /\ pc[t] = "load"
  /\ reg' = [reg EXCEPT ![t] = pending_job_count]
  /\ Goto(t, "store")
  /\ UNCHANGED <<pool, pending_job_count, monitor, refs>>

\* Mutant: AddSplitterJob does not count the job.
StoreNoIncrement(t) ==
  /\ pc[t] = "store"
  /\ pending_job_count' = IF t \in Client \/ reg[t] = 0 THEN reg[t] ELSE reg[t] - 1
  /\ Goto(t, "notify")
  /\ UNCHANGED <<pool, monitor, reg, refs>>

\* Mutant: a signed count.
StoreSigned(t) ==
  /\ pc[t] = "store"
  /\ pending_job_count' = IF t \in Client THEN reg[t] + 1 ELSE reg[t] - 1
  /\ Goto(t, "notify")
  /\ UNCHANGED <<pool, monitor, reg, refs>>

\* pending_job_count_++ in AddSplitterJob, pending_job_count_-- in OnCompletedJob.
StoreCount(t) ==
  /\ pc[t] = "store"
  /\ pending_job_count' = IF t \in Client THEN (reg[t] + 1) % (SizeMax + 1)
                          ELSE (reg[t] + SizeMax) % (SizeMax + 1)
  /\ Goto(t, "notify")
  /\ UNCHANGED <<pool, monitor, reg, refs>>

NotifyAll(t) ==
  /\ pc[t] = "notify"
  /\ sleepers' = {}
  /\ Goto(t, "unlock")
  /\ UNCHANGED <<pool, pending_job_count, locked, reg, refs>>

LeaveMonitor(t) ==
  /\ pc[t] = "unlock"
  /\ locked' = FALSE
  /\ Goto(t, IF t \in Client THEN "idle" ELSE "observed")
  /\ UNCHANGED <<pool, pending_job_count, sleepers, reg, refs>>

-----------------------------------------------------------------------------
(* The clients.                                                            *)

\* The job is added to the pool, where it may run and end, before it is counted.
\* Add blocks while the queue is full.
AddSplitterJob(c, j) ==
  /\ MayCall(c)
  /\ PendingJobMaxCount > 0 => Len(queue) < PendingJobMaxCount
  /\ Pool!Accept(0, j)
  /\ Goto(c, "lock")
  /\ UNCHANGED <<output_paths, pending_job_count, monitor, reg, refs>>

\* Mutant: "if" for "while".
WaitOnce(c) ==
  /\ MayCall(c) \/ pc[c] = "check"
  /\ Goto(c, IF pending_job_count # 0 /\ pc[c] # "check" THEN "wait" ELSE "waited")
  /\ UNCHANGED <<pool, pending_job_count, monitor, reg, refs>>

\* WaitAllJobDone evaluates its loop's condition.
WaitAllJobDone(c) ==
  /\ MayCall(c) \/ pc[c] = "check"
  /\ Goto(c, IF pending_job_count # 0 THEN "wait" ELSE "waited")
  /\ UNCHANGED <<pool, pending_job_count, monitor, reg, refs>>

\* monitor_.Wait(): unlocks the mutex, its own or not, and sleeps ...
Wait(c) ==
  /\ pc[c] = "wait"
  /\ locked' = FALSE
  /\ sleepers' = sleepers \cup {c}
  /\ Goto(c, "asleep")
  /\ UNCHANGED <<pool, pending_job_count, reg, refs>>

\* ... and locks it when woken.  Nobody unlocks it when WaitAllJobDone returns.
Resume(c) ==
  /\ pc[c] = "asleep" /\ c \notin sleepers
  /\ ~locked
  /\ locked' = TRUE
  /\ Goto(c, "check")
  /\ UNCHANGED <<pool, pending_job_count, sleepers, reg, refs>>

SpuriousWakeup(c) ==
  /\ c \in sleepers
  /\ sleepers' = sleepers \ {c}
  /\ UNCHANGED <<pool, pending_job_count, locked, pc, reg, refs>>

\* The client lets go of the scheduler; the last one to do so destroys it.
Release(c) ==
  /\ pc[c] = "waited"
  /\ refs' = refs \ {c}
  /\ Goto(c, IF refs = {c} THEN "destroy" ELSE "gone")
  /\ UNCHANGED <<pool, pending_job_count, monitor, reg>>

\* ~SplitterJobScheduler: Stop returns when no worker is left.
Destroy(c) ==
  /\ pc[c] = "destroy"
  /\ Running = {}
  /\ Goto(c, "gone")
  /\ UNCHANGED <<pool, pending_job_count, monitor, reg, refs>>

-----------------------------------------------------------------------------
(* The jobs.                                                               *)

\* A worker starts to run the oldest job.
RunJob ==
  /\ Cardinality(Running) < NumWorkers
  /\ \E c \in Client : pc[c] # "gone"
  /\ Pool!Dispatch(0)
  /\ Goto(Head(queue), "split")
  /\ UNCHANGED <<output_paths, pending_job_count, monitor, reg, refs>>

GetSectionCount(j) == IF j \in Unreadable THEN 0 ELSE SectionCount

\* One turn of EpubSectionSplitter::Split's loop, which ends with the first ERROR; a
\* book without sections is done at once.  Run ignores what Split returns.
Split(j) ==
  /\ pc[j] = "split"
  /\ \/ /\ GetSectionCount(j) = 0
        /\ Goto(j, "split_done")
        /\ UNCHANGED output_paths
     \/ /\ GetSectionCount(j) > 0
        /\ \E state \in {"OK", "ERROR"} :
             /\ output_paths' = [output_paths EXCEPT ![j] = Append(@, state)]
             /\ Goto(j, IF state = "ERROR" \/ Len(output_paths'[j]) = GetSectionCount(j)
                        THEN "split_done" ELSE "split")
  /\ UNCHANGED <<queue, outcome, pending_job_count, monitor, reg, refs>>

\* Split throws; the worker catches it, and no observer is told.
SplitThrows(j) ==
  /\ pc[j] = "split" /\ j \in Throwing
  /\ Pool!Finish(j)
  /\ Goto(j, "failed")
  /\ UNCHANGED <<output_paths, pending_job_count, monitor, reg, refs>>

\* The weak_ptr to the scheduler is locked, and the result is not looked at.
NotifyAllObservers(j) ==
  /\ pc[j] = "split_done"
  /\ Goto(j, IF refs = {} THEN "crashed" ELSE "lock")
  /\ refs' = IF refs = {} THEN refs ELSE refs \cup {j}
  /\ UNCHANGED <<pool, pending_job_count, monitor, reg>>

\* OnCompletedJob has returned; the reference goes, and Run returns.
JobReturn(j) ==
  /\ pc[j] = "observed" /\ refs # {j}
  /\ refs' = refs \ {j}
  /\ Pool!Finish(j)
  /\ Goto(j, "done")
  /\ UNCHANGED <<output_paths, pending_job_count, monitor, reg>>

\* It was the last one: ~SplitterJobScheduler runs on the worker, and its Stop
\* waits for this very worker.
JobDestroys(j) ==
  /\ pc[j] = "observed" /\ refs = {j}
  /\ refs' = {}
  /\ Goto(j, "destroy")
  /\ UNCHANGED <<pool, pending_job_count, monitor, reg>>

-----------------------------------------------------------------------------

Synchronized(t) ==
  EnterMonitor(t) \/ LoadCount(t) \/ StoreCount(t) \/ NotifyAll(t) \/ LeaveMonitor(t)

Waiting(c) == (pc[c] = "check" /\ WaitAllJobDone(c)) \/ Wait(c) \/ Resume(c)

RunningJob(j) ==
  Split(j) \/ SplitThrows(j) \/ NotifyAllObservers(j) \/ JobReturn(j) \/ JobDestroys(j)

Next ==
  \/ \E t \in Actor : Synchronized(t)
  \/ \E c \in Client :
       \/ \E j \in Job : AddSplitterJob(c, j)
       \/ WaitAllJobDone(c) \/ Wait(c) \/ Resume(c) \/ SpuriousWakeup(c)
       \/ Release(c) \/ Destroy(c)
  \/ RunJob
  \/ \E j \in Job : RunningJob(j)

Spec == Init /\ [][Next]_vars

\* Threads that can go on do, the workers serve the queue, and nobody is kept
\* from the mutex for ever.
FairSpec ==
  /\ Spec
  /\ WF_vars(RunJob)
  /\ \A t \in Actor : SF_vars(Synchronized(t))
  /\ \A c \in Client : SF_vars(Waiting(c) \/ Destroy(c))
  /\ \A j \in Job : WF_vars(RunningJob(j))

-----------------------------------------------------------------------------
(* Properties.                                                             *)

PCs == {"idle", "lock", "load", "store", "notify", "unlock", "wait", "asleep",
        "check", "waited", "destroy", "gone", "split", "split_done", "observed",
        "failed", "done", "crashed"}

\* pending_job_count_ is a size_t, and every thread is where the code has a line.
TypeOK ==
  /\ Pool!TypeOK
  /\ output_paths \in [Job -> Seq({"OK", "ERROR"})]
  /\ pending_job_count \in 0..SizeMax
  /\ locked \in BOOLEAN /\ sleepers \subseteq Client
  /\ pc \in [Actor -> PCs]
  /\ reg \in [Actor -> 0..SizeMax]
  /\ refs \subseteq Actor

\* WaitAllJobDone returns to the scheduler's only client no earlier than every job it
\* added has been split, and what the job wrote is final: all sections are there, or
\* just the last one it tried failed.  A completion that comes before its
\* AddSplitterJob counts the job, and an update lost to the unlocked Wait, leave the
\* count too high and never too low.
WaitedJobsDone ==
  \A c \in Client : pc[c] = "waited" =>
    \A j \in Job : outcome[j] # "new" =>
      LET written == output_paths[j]
      IN /\ pc[j] \in {"notify", "unlock", "observed", "done"}
         /\ \A i \in 1..Len(written) - 1 : written[i] = "OK"
         /\ \/ Len(written) = GetSectionCount(j)
            \/ written # <<>> /\ written[Len(written)] = "ERROR"

\* A client that waits before it lets go of the scheduler never leaves a job whose
\* weak_ptr to it has expired: NotifyAllObservers would call through nullptr.
NoNullObserver == \A j \in Job : pc[j] # "crashed"

\* WaitAllJobDone returns when no job throws, as the test Basic of
\* splitter_unittest.cc expects.
WaitAllReturns == \A c \in Client : pc[c] = "wait" ~> pc[c] = "waited"
=============================================================================
