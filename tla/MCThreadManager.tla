-------------------------- MODULE MCThreadManager --------------------------
(***************************************************************************)
(* Instances of ThreadManager for TLC: which thread calls what.            *)
(***************************************************************************)
EXTENDS ThreadManager

CONSTANTS ctl,  \* the thread that owns the manager
          app   \* another thread of the application

CallsOf(ctlOps, appOps, taskOps) ==
  [t \in Thread |-> IF t = ctl THEN ctlOps ELSE IF t = app THEN appOps ELSE taskOps]

\* One thread starts, grows and stops the pool; the other feeds it.
LifecycleCalls ==
  CallsOf({"SimpleStart", "AddWorker", "Stop", "Join"}, {"Add", "RemoveNextPending"}, {})

\* SimpleThreadManager as its users drive it: one thread starts it, then adds
\* tasks, and the tasks add tasks.
ServiceCalls == CallsOf({"SimpleStart", "Add"}, {}, {"Add"})

\* Two threads feed a bounded queue, one of them from before Start.
FeedCalls == CallsOf({"SimpleStart", "Add", "ExpiredTaskCount"}, {"Add"}, {})

\* Two threads resize the pool and stop it, with no coordination.
ResizeCalls ==
  CallsOf({"Start", "AddWorker", "RemoveWorker", "Add"},
          {"AddWorker", "RemoveWorker", "Stop"}, {})
=============================================================================
