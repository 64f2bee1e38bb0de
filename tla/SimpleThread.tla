---------------------------- MODULE SimpleThread ----------------------------
(***************************************************************************)
(* src/threads/simple_thread_factory.cc: a SimpleThreadFactory, one Thread *)
(* object that it makes and that its owners share, and the pthread that    *)
(* runs its Runnable.                                                      *)
(*                                                                         *)
(* state_ and detached_ are plain fields that the owners and the pthread   *)
(* read and write with no lock, so each access is a step of its own.  The  *)
(* object lives as long as someone holds a shared_ptr to it: an owner, or  *)
(* ThreadMain through the self_ref that Start hands it.                    *)
(***************************************************************************)
EXTENDS Naturals

CONSTANTS
  Policies, Priorities,  \* the settings the factory is tried with
  Owner,    \* threads that hold a shared_ptr to the Thread
  Calls,    \* Calls[o]: the operations owner o calls, in any order
  Main      \* the pthread that Start creates

PolicyEnum == {"OTHER", "FIFO", "ROUND_ROBIN"}

\* PriorityEnum: LOWEST is 0, and INCREMENT and DECREMENT follow HIGHEST.
LOWEST == 0
NORMAL == 3
HIGHEST == 6
DECREMENT == 8

ASSUME OwnerAssumption == Main \notin Owner /\ DOMAIN Calls = Owner
ASSUME SettingsAssumption ==
  Policies \subseteq PolicyEnum /\ Priorities \subseteq LOWEST..DECREMENT

VARIABLES factory,   \* the factory's settings
          native,    \* the thread's policy_ and priority_, in pthread's terms
          state,     \* "none" until NewThread has made the object
          detached,
          refs,      \* who holds a shared_ptr
          pc,        \* where the owners and the pthread are
          reclaimed, \* how often the pthread's resources have been given back: by
                     \* pthread_join, or because it was created detached
          runs,      \* how often Run has been called
          promised   \* history: owners that called Join on a started, joinable thread

settings == <<factory, native>>
vars == <<settings, state, detached, refs, pc, reclaimed, runs, promised>>

\* The constructor's arguments and their defaults.
Init ==
  /\ factory \in [policy : Policies, priority : {NORMAL}, detached : {TRUE}]
  /\ native = [policy |-> "SCHED_OTHER", priority |-> 0]
  /\ state = "none" /\ detached = FALSE
  /\ refs = {}
  /\ pc = [x \in Owner \cup {Main} |-> IF x = Main THEN "none" ELSE "idle"]
  /\ reclaimed = 0 /\ runs = 0 /\ promised = {}

Goto(x, to) == pc' = [pc EXCEPT ![x] = to]
MayCall(o, op) ==
  op \in Calls[o] /\ state # "none" /\ pc[o] \in {"idle", "joined"}

-----------------------------------------------------------------------------
(* The factory.                                                            *)

MayConfigure(o) == "NewThread" \in Calls[o] /\ state = "none" /\ pc[o] = "idle"

SetPriority(o, value) ==
  /\ MayConfigure(o)
  /\ factory' = [factory EXCEPT !.priority = value]
  /\ UNCHANGED <<native, state, detached, refs, pc, reclaimed, runs, promised>>

FactorySetDetached(o, value) ==
  /\ MayConfigure(o)
  /\ factory' = [factory EXCEPT !.detached = value]
  /\ UNCHANGED <<native, state, detached, refs, pc, reclaimed, runs, promised>>

ToNativePolicy(policy) ==
  CASE policy = "FIFO" -> "SCHED_FIFO"
    [] policy = "ROUND_ROBIN" -> "SCHED_RR"
    [] OTHER -> "SCHED_OTHER"

\* sched_get_priority_min and sched_get_priority_max on Linux.
PriorityMin(native_policy) == IF native_policy = "SCHED_OTHER" THEN 0 ELSE 1
PriorityMax(native_policy) == IF native_policy = "SCHED_OTHER" THEN 0 ELSE 99

ToNativePriority(policy, priority) ==
  LET pthread_policy == ToNativePolicy(policy)
      min == PriorityMin(pthread_policy)
      quanta == (HIGHEST - LOWEST) + 1
  IN min + ((PriorityMax(pthread_policy) - min) * priority) \div quanta

\* Mutant: every enumerator counts as a priority.
AnyPriority(priority) == TRUE

\* INCREMENT and DECREMENT fail the assertion in ToNativePriority.
IsPriority(priority) == priority <= HIGHEST

\* NewThread copies the settings of the moment into a thread that the owners share.
NewThread(o) ==
  /\ MayConfigure(o)
  /\ IsPriority(factory.priority)
  /\ native' = [policy |-> ToNativePolicy(factory.policy),
                priority |-> ToNativePriority(factory.policy, factory.priority)]
  /\ state' = "UNINITIALIZED"
  /\ detached' = factory.detached
  /\ reclaimed' = IF factory.detached THEN 1 ELSE 0
  /\ refs' = Owner
  /\ UNCHANGED <<factory, pc, runs, promised>>

NewThreadAborts(o) ==
  /\ MayConfigure(o)
  /\ ~IsPriority(factory.priority)
  /\ Goto(o, "aborted")
  /\ UNCHANGED <<settings, state, detached, refs, reclaimed, runs, promised>>

-----------------------------------------------------------------------------
(* Start.                                                                  *)

\* Mutant: state_ = STARTING is missing.
StartLate(o) ==
  /\ MayCall(o, "Start")
  /\ state = "UNINITIALIZED"
  /\ Goto(o, "create")
  /\ UNCHANGED <<settings, state, detached, refs, reclaimed, runs, promised>>

\* A thread that was started before is left alone.
Start(o) ==
  /\ MayCall(o, "Start")
  /\ state = "UNINITIALIZED"
  /\ Goto(o, "set_starting")
  /\ UNCHANGED <<settings, state, detached, refs, reclaimed, runs, promised>>

SetStarting(o) ==
  /\ pc[o] = "set_starting"
  /\ state' = "STARTING"
  /\ Goto(o, "create")
  /\ UNCHANGED <<settings, detached, refs, reclaimed, runs, promised>>

\* pthread_create, with a shared_ptr for ThreadMain.
Create(o) ==
  /\ pc[o] = "create"
  /\ refs' = refs \cup {Main}
  /\ pc' = [pc EXCEPT ![o] = "idle", ![Main] = "main"]
  /\ UNCHANGED <<settings, state, detached, reclaimed, runs, promised>>

\* pthread_create fails, and its result is ignored: the reference meant for
\* ThreadMain is never given back, and pthread_ stays 0.
CreateFails(o) ==
  /\ pc[o] = "create"
  /\ refs' = refs \cup {Main}
  /\ pc' = [pc EXCEPT ![o] = "idle", ![Main] = "failed"]
  /\ UNCHANGED <<settings, state, detached, reclaimed, runs, promised>>

-----------------------------------------------------------------------------
(* Join, and the destructor, which calls it.                               *)

Ended == pc[Main] = "ended"

\* Mutant: only a thread that has reached STARTED is waited for.
JoinableIfStarted == ~detached /\ state = "STARTED"

\* The condition under which Join calls pthread_join.
Joinable == ~detached /\ state # "UNINITIALIZED"

Join(o) ==
  /\ MayCall(o, "Join")
  /\ Goto(o, IF Joinable THEN "join" ELSE "joined")
  /\ promised' = IF ~detached /\ pc[Main] \notin {"none", "failed"} THEN promised \cup {o} ELSE promised
  /\ UNCHANGED <<settings, state, detached, refs, reclaimed, runs>>

\* pthread_join returns when the pthread has ended ...
PthreadJoin(o) ==
  /\ pc[o] \in {"join", "destructor_join"}
  /\ Ended
  /\ reclaimed' = reclaimed + 1
  /\ Goto(o, IF pc[o] = "join" THEN "set_detached" ELSE "gone")
  /\ UNCHANGED <<settings, state, detached, refs, runs, promised>>

\* ... but state_ is STARTING before pthread_ is set: a Join in between, or after
\* pthread_create has failed, hands pthread_join a null pthread_t.
JoinNull(o) ==
  /\ pc[o] = "join"
  /\ pc[Main] \in {"none", "failed"}
  /\ Goto(o, "crashed")
  /\ UNCHANGED <<settings, state, detached, refs, reclaimed, runs, promised>>

\* Mutant: the result of pthread_join is forgotten.
ForgetJoined(o) ==
  /\ pc[o] = "set_detached"
  /\ Goto(o, "joined")
  /\ UNCHANGED <<settings, state, detached, refs, reclaimed, runs, promised>>

SetDetached(o) ==
  /\ pc[o] = "set_detached"
  /\ detached' = TRUE
  /\ Goto(o, "joined")
  /\ UNCHANGED <<settings, state, refs, reclaimed, runs, promised>>

\* An owner lets go of its shared_ptr; the last one runs the destructor.
Release(o) ==
  /\ state # "none"
  /\ pc[o] \in {"idle", "joined"}
  /\ refs' = refs \ {o}
  /\ Goto(o, IF refs = {o} THEN "destructor" ELSE "gone")
  /\ UNCHANGED <<settings, state, detached, reclaimed, runs, promised>>

Destructor(o) ==
  /\ pc[o] = "destructor"
  /\ Goto(o, IF Joinable THEN "destructor_join" ELSE "gone")
  /\ UNCHANGED <<settings, state, detached, refs, reclaimed, runs, promised>>

-----------------------------------------------------------------------------
(* ThreadMain.                                                             *)

ThreadMain ==
  /\ pc[Main] = "main"
  /\ Goto(Main, IF state = "STARTING" THEN "set_started" ELSE "leave")
  /\ UNCHANGED <<settings, state, detached, refs, reclaimed, runs, promised>>

SetStarted ==
  /\ pc[Main] = "set_started"
  /\ state' = "STARTED"
  /\ runs' = runs + 1
  /\ Goto(Main, "running")
  /\ UNCHANGED <<settings, detached, refs, reclaimed, promised>>

\* The Runnable's Run returns; state_ is STARTED then, so it becomes STOPPING.
RunReturns ==
  /\ pc[Main] = "running"
  /\ Goto(Main, IF state \in {"STOPPING", "STOPPED"} THEN "leave" ELSE "set_stopping")
  /\ UNCHANGED <<settings, state, detached, refs, reclaimed, runs, promised>>

SetStopping ==
  /\ pc[Main] = "set_stopping"
  /\ state' = "STOPPING"
  /\ Goto(Main, "leave")
  /\ UNCHANGED <<settings, detached, refs, reclaimed, runs, promised>>

\* ThreadMain's shared_ptr goes; the last one runs the destructor here, and its
\* pthread_join of the calling thread fails, which leaves detached_ false.
Leave ==
  /\ pc[Main] = "leave"
  /\ refs' = refs \ {Main}
  /\ detached' = IF refs = {Main} /\ Joinable THEN FALSE ELSE detached
  /\ Goto(Main, "ended")
  /\ UNCHANGED <<settings, state, reclaimed, runs, promised>>

-----------------------------------------------------------------------------

Configure(o) ==
  \/ \E value \in Priorities : SetPriority(o, value)
  \/ \E value \in BOOLEAN : FactorySetDetached(o, value)
  \/ NewThread(o) \/ NewThreadAborts(o)

Call(o) == Start(o) \/ Join(o) \/ Release(o)

Continue(o) ==
  \/ SetStarting(o) \/ Create(o) \/ CreateFails(o)
  \/ PthreadJoin(o) \/ JoinNull(o) \/ SetDetached(o) \/ Destructor(o)

Body == ThreadMain \/ SetStarted \/ RunReturns \/ SetStopping \/ Leave

Next == Body \/ \E o \in Owner : Configure(o) \/ Call(o) \/ Continue(o)

Spec == Init /\ [][Next]_vars

-----------------------------------------------------------------------------
(* Properties.                                                             *)

\* A Join of a joinable thread that had been started returns only after Run has,
\* however far ThreadMain had got when Join looked at state_.
JoinAwaitsRun ==
  \A o \in promised : pc[o] \in {"set_detached", "joined"} => Ended

\* The pthread's resources are given back at most once: a pthread created detached is
\* never joined, and an owner's Joins and the destructor, whichever owner runs it,
\* call pthread_join once between them.
ReclaimedOnce == reclaimed <= 1

\* A thread that Start has let through runs its Runnable, if its pthread could be
\* created: ThreadMain never finds a state_ that makes it return at once.
StartedRuns ==
  \A o \in Owner : pc[o] \in {"set_starting", "create"} ~>
                      runs = 1 \/ pc[Main] = "failed"

\* Whatever the factory is set to, the thread it makes asks pthread for a priority
\* that its policy has.
NativePriorityValid ==
  native.priority \in PriorityMin(native.policy)..PriorityMax(native.policy)
=============================================================================
