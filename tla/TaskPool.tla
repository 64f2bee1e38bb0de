------------------------------ MODULE TaskPool ------------------------------
(***************************************************************************)
(* What the thread pool promises to those who add tasks, whatever its      *)
(* workers, locks and monitors do: a task is refused or accepted; accepted *)
(* tasks leave the queue in the order they came, and each leaves it once:  *)
(* it is run, it expires, or it is handed back.                            *)
(***************************************************************************)
EXTENDS Naturals, Sequences

CONSTANT Task

VARIABLES queue,    \* the accepted tasks that have not left
          outcome   \* what has become of each task

vars == <<queue, outcome>>

Outcomes == {"new", "rejected", "pending", "running", "finished", "expired", "returned"}

TypeOK == queue \in Seq(Task) /\ outcome \in [Task -> Outcomes]

Init == queue = <<>> /\ outcome = [k \in Task |-> "new"]

\* The queue and the outcomes once the n oldest tasks have expired.
Unexpired(n) == SubSeq(queue, n + 1, Len(queue))
Expired(n) ==
  [k \in Task |-> IF \E i \in 1..n : queue[i] = k THEN "expired" ELSE outcome[k]]

\* Expired tasks leave when somebody next looks at the queue.
Discard(n) ==
  /\ queue' = Unexpired(n)
  /\ outcome' = Expired(n)

Accept(n, k) ==
  /\ outcome[k] = "new"
  /\ queue' = Append(Unexpired(n), k)
  /\ outcome' = [Expired(n) EXCEPT ![k] = "pending"]

Reject(n, k) ==
  /\ outcome[k] = "new"
  /\ queue' = Unexpired(n)
  /\ outcome' = [Expired(n) EXCEPT ![k] = "rejected"]

\* The oldest task that has not expired is run ...
Dispatch(n) ==
  /\ n < Len(queue)
  /\ queue' = Unexpired(n + 1)
  /\ outcome' = [Expired(n) EXCEPT ![queue[n + 1]] = "running"]

\* ... to its end.
Finish(k) ==
  /\ outcome[k] = "running"
  /\ outcome' = [outcome EXCEPT ![k] = "finished"]
  /\ UNCHANGED queue

HandBack ==
  /\ queue # <<>>
  /\ queue' = Tail(queue)
  /\ outcome' = [outcome EXCEPT ![Head(queue)] = "returned"]

Next ==
  \/ \E n \in 0..Len(queue) :
       \/ Discard(n)
       \/ Dispatch(n)
       \/ \E k \in Task : Accept(n, k) \/ Reject(n, k)
  \/ \E k \in Task : Finish(k)
  \/ HandBack

Spec == Init /\ [][Next]_vars

-----------------------------------------------------------------------------

\* Exactly the tasks in the queue are pending, each there once: a task that has
\* been refused, run, expired or handed back can not come up again.
PendingOnce ==
  /\ \A k \in Task : outcome[k] = "pending" <=> \E i \in 1..Len(queue) : queue[i] = k
  /\ \A i, j \in 1..Len(queue) : queue[i] = queue[j] => i = j
=============================================================================
