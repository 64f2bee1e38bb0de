------------------------ MODULE SimpleThreadProofs ------------------------
(***************************************************************************)
(* Proofs about SimpleThread: the priority handed to pthread is valid, a   *)
(* Join awaits Run, and the pthread's resources are given back once.  They *)
(* hold for every number of owners and every set of factory settings.      *)
(*                                                                         *)
(* Then SyncStartTask: the test and its task are a SimpleThread whose Run  *)
(* they spell out, so that all this holds there too, and the task has left *)
(* the test's monitor when the test returns.                               *)
(***************************************************************************)
EXTENDS SyncStartTask, TLAPS

\* Only one of the owners ever calls op.  Start and Join check state_ and detached_
\* with no lock, so two owners that call the same one can both pass the check.
OneCaller(op) ==
  \A o, p \in Owner : op \in Calls[o] /\ op \in Calls[p] => o = p

OwnerPCs == {"idle", "joined", "aborted", "set_starting", "create", "join",
             "set_detached", "destructor", "destructor_join", "gone", "crashed"}
MainPCs == {"none", "main", "failed", "set_started", "running", "set_stopping",
            "leave", "ended"}

ThreadTypeOK ==
  /\ factory \in [policy : PolicyEnum, priority : LOWEST..DECREMENT, detached : BOOLEAN]
  /\ native \in [policy : {"SCHED_OTHER", "SCHED_FIFO", "SCHED_RR"}, priority : Nat]
  /\ state \in {"none", "UNINITIALIZED", "STARTING", "STARTED", "STOPPING"}
  /\ detached \in BOOLEAN
  /\ refs \subseteq Owner \cup {Main}
  /\ pc \in [Owner \cup {Main} -> OwnerPCs \cup MainPCs]
  /\ \A o \in Owner : pc[o] \in OwnerPCs
  /\ pc[Main] \in MainPCs
  /\ reclaimed \in Nat /\ runs \in Nat /\ promised \subseteq Owner

Released == {"destructor", "destructor_join", "gone"}
Destroying(o) == pc[o] \in {"destructor", "destructor_join"}

\* Before NewThread there is nothing to start, to join or to destroy; afterwards an
\* owner has its shared_ptr until it lets go; and one owner at most, the last one,
\* runs the destructor.
LifeInv ==
  /\ state = "none" =>
       /\ refs = {} /\ reclaimed = 0 /\ promised = {}
       /\ \A o \in Owner : pc[o] \in {"idle", "aborted"}
  /\ state \in {"none", "UNINITIALIZED"} =>
       pc[Main] = "none" /\ \A o \in Owner : pc[o] # "create"
  /\ state # "none" => \A o \in Owner : o \in refs <=> pc[o] \notin Released
  /\ \A o \in Owner : Destroying(o) => refs = {}
  /\ \A o, p \in Owner : Destroying(o) /\ Destroying(p) => o = p

\* Start creates one pthread, and an owner that has been promised to wait for it is
\* past the wait only when it has ended.
StartInv ==
  /\ \A o \in Owner :
       pc[o] \in {"set_starting", "create"} => "Start" \in Calls[o] /\ pc[Main] = "none"
  /\ \A o \in promised :
       /\ pc[Main] \notin {"none", "failed"}
       /\ \/ pc[o] \in {"join", "crashed"} \cup Released
          \/ pc[o] \in {"set_detached", "joined"} /\ Ended

\* While detached_ is false the pthread has not been joined, except by the owner that
\* is about to set it, or by a destructor that has finished.
ReclaimInv ==
  /\ reclaimed \in {0, 1}
  /\ \A o \in Owner : pc[o] \in {"join", "set_detached"} => "Join" \in Calls[o]
  /\ \A o \in Owner : pc[o] \in {"join", "destructor_join"} => ~detached /\ reclaimed = 0
  /\ ~detached /\ reclaimed = 1 =>
       \/ \E o \in Owner : pc[o] = "set_detached"
       \/ \A o \in Owner : pc[o] = "gone"

-----------------------------------------------------------------------------
(* Types, and the priority that pthread is asked for.                      *)

USE DEF settings, PolicyEnum, LOWEST, NORMAL, HIGHEST, DECREMENT

\* ToNativePriority maps the seven priorities into the range of the policy, whose
\* bounds are equal for SCHED_OTHER.
LEMMA NativeRange ==
  ASSUME NEW policy \in PolicyEnum, NEW priority \in LOWEST..HIGHEST
  PROVE  LET np == ToNativePolicy(policy)
         IN /\ np \in {"SCHED_OTHER", "SCHED_FIFO", "SCHED_RR"}
            /\ ToNativePriority(policy, priority) \in PriorityMin(np)..PriorityMax(np)
            /\ ToNativePriority(policy, priority) \in Nat
<1>1. /\ (98 * priority) \div 7 \in 0..98
      /\ (0 * priority) \div 7 = 0
  OBVIOUS
<1>2. CASE policy = "OTHER"
  BY <1>1, <1>2 DEF ToNativePolicy, ToNativePriority, PriorityMin, PriorityMax
<1>3. CASE policy = "FIFO"
  BY <1>1, <1>3 DEF ToNativePolicy, ToNativePriority, PriorityMin, PriorityMax
<1>4. CASE policy = "ROUND_ROBIN"
  BY <1>1, <1>4 DEF ToNativePolicy, ToNativePriority, PriorityMin, PriorityMax
<1>. QED
  BY <1>2, <1>3, <1>4

TypeInv == ThreadTypeOK /\ NativePriorityValid

\* What a factory starts with has its types, and there is no pthread yet.
LEMMA TypeInit == Init => TypeInv
<1>. SUFFICES ASSUME Init PROVE TypeInv
  OBVIOUS
<1>1. factory \in [policy : PolicyEnum, priority : LOWEST..DECREMENT, detached : BOOLEAN]
  <2>1. Policies \subseteq PolicyEnum
    BY SettingsAssumption
  <2>2. factory \in [policy : Policies, priority : {NORMAL}, detached : {TRUE}]
    BY DEF Init
  <2>3. PICK policy \in Policies : factory = [policy |-> policy, priority |-> 3, detached |-> TRUE]
    BY <2>2
  <2>. QED
    BY <2>1, <2>3
<1>2. NativePriorityValid
  BY DEF Init, NativePriorityValid, PriorityMin, PriorityMax
<1>. QED
  BY <1>1, <1>2, OwnerAssumption DEF Init, TypeInv, ThreadTypeOK, OwnerPCs, MainPCs

\* Every step keeps the types and the range of the native priority.
LEMMA TypeStep == TypeInv /\ [Next]_vars => TypeInv'
<1>. SUFFICES ASSUME TypeInv, [Next]_vars PROVE TypeInv'
  OBVIOUS
<1>s. CASE UNCHANGED vars
  BY <1>s DEF TypeInv, ThreadTypeOK, NativePriorityValid, vars
<1>1. ASSUME NEW o \in Owner, NEW value \in Priorities, SetPriority(o, value)
      PROVE  TypeInv'
  BY <1>1, OwnerAssumption, SettingsAssumption
  DEF TypeInv, ThreadTypeOK, NativePriorityValid, OwnerPCs, MainPCs, SetPriority,
      MayConfigure
<1>2. ASSUME NEW o \in Owner, NEW value \in BOOLEAN, FactorySetDetached(o, value)
      PROVE  TypeInv'
  BY <1>2, OwnerAssumption
  DEF TypeInv, ThreadTypeOK, NativePriorityValid, OwnerPCs, MainPCs,
      FactorySetDetached, MayConfigure
<1>3. ASSUME NEW o \in Owner, NewThread(o) PROVE TypeInv'
  <2>1. factory.policy \in PolicyEnum /\ factory.priority \in LOWEST..HIGHEST
    BY <1>3 DEF TypeInv, ThreadTypeOK, NewThread, IsPriority
  <2>2. /\ native' \in [policy : {"SCHED_OTHER", "SCHED_FIFO", "SCHED_RR"}, priority : Nat]
        /\ NativePriorityValid'
    BY <1>3, <2>1, NativeRange DEF NewThread, NativePriorityValid
  <2>. QED
    BY <1>3, <2>2 DEF TypeInv, ThreadTypeOK, NewThread
<1>4. ASSUME NEW o \in Owner, NewThreadAborts(o) PROVE TypeInv'
  BY <1>4, OwnerAssumption
  DEF TypeInv, ThreadTypeOK, NativePriorityValid, OwnerPCs, MainPCs,
      NewThreadAborts, MayConfigure, Goto
<1>5. ASSUME NEW o \in Owner, Start(o) PROVE TypeInv'
  BY <1>5, OwnerAssumption
  DEF TypeInv, ThreadTypeOK, NativePriorityValid, OwnerPCs, MainPCs, Start, MayCall,
      Goto
<1>6. ASSUME NEW o \in Owner, Join(o) PROVE TypeInv'
  BY <1>6, OwnerAssumption
  DEF TypeInv, ThreadTypeOK, NativePriorityValid, OwnerPCs, MainPCs, Join, MayCall,
      Goto
<1>7. ASSUME NEW o \in Owner, Release(o) PROVE TypeInv'
  BY <1>7, OwnerAssumption
  DEF TypeInv, ThreadTypeOK, NativePriorityValid, OwnerPCs, MainPCs, Release, Goto
<1>8. ASSUME NEW o \in Owner, SetStarting(o) PROVE TypeInv'
  BY <1>8, OwnerAssumption
  DEF TypeInv, ThreadTypeOK, NativePriorityValid, OwnerPCs, MainPCs, SetStarting,
      Goto
<1>9. ASSUME NEW o \in Owner, Create(o) PROVE TypeInv'
  BY <1>9, OwnerAssumption
  DEF TypeInv, ThreadTypeOK, NativePriorityValid, OwnerPCs, MainPCs, Create
<1>10. ASSUME NEW o \in Owner, CreateFails(o) PROVE TypeInv'
  BY <1>10, OwnerAssumption
  DEF TypeInv, ThreadTypeOK, NativePriorityValid, OwnerPCs, MainPCs, CreateFails
<1>11. ASSUME NEW o \in Owner, PthreadJoin(o) PROVE TypeInv'
  BY <1>11, OwnerAssumption
  DEF TypeInv, ThreadTypeOK, NativePriorityValid, OwnerPCs, MainPCs, PthreadJoin,
      Goto
<1>12. ASSUME NEW o \in Owner, JoinNull(o) PROVE TypeInv'
  BY <1>12, OwnerAssumption
  DEF TypeInv, ThreadTypeOK, NativePriorityValid, OwnerPCs, MainPCs, JoinNull, Goto
<1>13. ASSUME NEW o \in Owner, SetDetached(o) PROVE TypeInv'
  BY <1>13, OwnerAssumption
  DEF TypeInv, ThreadTypeOK, NativePriorityValid, OwnerPCs, MainPCs, SetDetached,
      Goto
<1>14. ASSUME NEW o \in Owner, Destructor(o) PROVE TypeInv'
  BY <1>14, OwnerAssumption
  DEF TypeInv, ThreadTypeOK, NativePriorityValid, OwnerPCs, MainPCs, Destructor,
      Goto
<1>15. CASE ThreadMain
  BY <1>15, OwnerAssumption
  DEF TypeInv, ThreadTypeOK, NativePriorityValid, OwnerPCs, MainPCs, ThreadMain,
      Goto
<1>16. CASE SetStarted
  BY <1>16, OwnerAssumption
  DEF TypeInv, ThreadTypeOK, NativePriorityValid, OwnerPCs, MainPCs, SetStarted,
      Goto
<1>17. CASE RunReturns
  BY <1>17, OwnerAssumption
  DEF TypeInv, ThreadTypeOK, NativePriorityValid, OwnerPCs, MainPCs, RunReturns,
      Goto
<1>18. CASE SetStopping
  BY <1>18, OwnerAssumption
  DEF TypeInv, ThreadTypeOK, NativePriorityValid, OwnerPCs, MainPCs, SetStopping,
      Goto
<1>19. CASE Leave
  BY <1>19, OwnerAssumption
  DEF TypeInv, ThreadTypeOK, NativePriorityValid, OwnerPCs, MainPCs, Leave, Goto
<1>. QED
  BY <1>1, <1>2, <1>3, <1>4, <1>5, <1>6, <1>7, <1>8, <1>9, <1>10, <1>11, <1>12,
     <1>13, <1>14, <1>15, <1>16, <1>17, <1>18, <1>19, <1>s
  DEF Next, Configure, Call, Continue, Body

-----------------------------------------------------------------------------
(* The object's life.                                                      *)

\* Before NewThread there is no object.
LEMMA LifeInit == Init => LifeInv
  BY OwnerAssumption DEF Init, LifeInv, Destroying, Released

\* Every step keeps to the order of making, sharing and destroying the object.
LEMMA LifeStep == TypeInv /\ LifeInv /\ [Next]_vars => LifeInv'
<1>. SUFFICES ASSUME TypeInv, LifeInv, [Next]_vars PROVE LifeInv'
  OBVIOUS
<1>s. CASE UNCHANGED vars
  BY <1>s DEF LifeInv, Destroying, Released, vars
<1>1. ASSUME NEW o \in Owner, NEW value \in Priorities, SetPriority(o, value)
      PROVE  LifeInv'
  BY <1>1, OwnerAssumption
  DEF TypeInv, ThreadTypeOK, LifeInv, Destroying, Released, SetPriority,
      MayConfigure
<1>2. ASSUME NEW o \in Owner, NEW value \in BOOLEAN, FactorySetDetached(o, value)
      PROVE  LifeInv'
  BY <1>2, OwnerAssumption
  DEF TypeInv, ThreadTypeOK, LifeInv, Destroying, Released, FactorySetDetached,
      MayConfigure
<1>3. ASSUME NEW o \in Owner, NewThread(o) PROVE LifeInv'
  BY <1>3, OwnerAssumption
  DEF TypeInv, ThreadTypeOK, LifeInv, Destroying, Released, NewThread, MayConfigure
<1>4. ASSUME NEW o \in Owner, NewThreadAborts(o) PROVE LifeInv'
  BY <1>4, OwnerAssumption
  DEF TypeInv, ThreadTypeOK, LifeInv, Destroying, Released, NewThreadAborts,
      MayConfigure, Goto
<1>5. ASSUME NEW o \in Owner, Start(o) PROVE LifeInv'
  BY <1>5, OwnerAssumption
  DEF TypeInv, ThreadTypeOK, LifeInv, Destroying, Released, Start, MayCall, Goto
<1>6. ASSUME NEW o \in Owner, Join(o) PROVE LifeInv'
  BY <1>6, OwnerAssumption
  DEF TypeInv, ThreadTypeOK, LifeInv, Destroying, Released, Join, MayCall, Goto
<1>7. ASSUME NEW o \in Owner, Release(o) PROVE LifeInv'
  BY <1>7, OwnerAssumption
  DEF TypeInv, ThreadTypeOK, LifeInv, Destroying, Released, Release, Goto
<1>8. ASSUME NEW o \in Owner, SetStarting(o) PROVE LifeInv'
  BY <1>8, OwnerAssumption
  DEF TypeInv, ThreadTypeOK, LifeInv, Destroying, Released, SetStarting, Goto
<1>9. ASSUME NEW o \in Owner, Create(o) PROVE LifeInv'
  BY <1>9, OwnerAssumption
  DEF TypeInv, ThreadTypeOK, LifeInv, Destroying, Released, Create
<1>10. ASSUME NEW o \in Owner, CreateFails(o) PROVE LifeInv'
  BY <1>10, OwnerAssumption
  DEF TypeInv, ThreadTypeOK, LifeInv, Destroying, Released, CreateFails
<1>11. ASSUME NEW o \in Owner, PthreadJoin(o) PROVE LifeInv'
  BY <1>11, OwnerAssumption
  DEF TypeInv, ThreadTypeOK, LifeInv, Destroying, Released, PthreadJoin, Goto
<1>12. ASSUME NEW o \in Owner, JoinNull(o) PROVE LifeInv'
  BY <1>12, OwnerAssumption
  DEF TypeInv, ThreadTypeOK, LifeInv, Destroying, Released, JoinNull, Goto
<1>13. ASSUME NEW o \in Owner, SetDetached(o) PROVE LifeInv'
  BY <1>13, OwnerAssumption
  DEF TypeInv, ThreadTypeOK, LifeInv, Destroying, Released, SetDetached, Goto
<1>14. ASSUME NEW o \in Owner, Destructor(o) PROVE LifeInv'
  BY <1>14, OwnerAssumption
  DEF TypeInv, ThreadTypeOK, LifeInv, Destroying, Released, Destructor, Goto
<1>15. CASE ThreadMain
  BY <1>15, OwnerAssumption
  DEF TypeInv, ThreadTypeOK, LifeInv, Destroying, Released, ThreadMain, Goto
<1>16. CASE SetStarted
  BY <1>16, OwnerAssumption
  DEF TypeInv, ThreadTypeOK, LifeInv, Destroying, Released, SetStarted, Goto
<1>17. CASE RunReturns
  BY <1>17, OwnerAssumption
  DEF TypeInv, ThreadTypeOK, LifeInv, Destroying, Released, RunReturns, Goto
<1>18. CASE SetStopping
  BY <1>18, OwnerAssumption
  DEF TypeInv, ThreadTypeOK, LifeInv, Destroying, Released, SetStopping, Goto
<1>19. CASE Leave
  BY <1>19, OwnerAssumption
  DEF TypeInv, ThreadTypeOK, LifeInv, Destroying, Released, Leave, Goto
<1>. QED
  BY <1>1, <1>2, <1>3, <1>4, <1>5, <1>6, <1>7, <1>8, <1>9, <1>10, <1>11, <1>12,
     <1>13, <1>14, <1>15, <1>16, <1>17, <1>18, <1>19, <1>s
  DEF Next, Configure, Call, Continue, Body

-----------------------------------------------------------------------------
(* Start and Join.                                                         *)

\* With one starting owner, every step keeps a promised Join waiting for the pthread
\* that was created.
LEMMA StartStep ==
  ASSUME OneCaller("Start")
  PROVE  TypeInv /\ LifeInv /\ StartInv /\ [Next]_vars => StartInv'
<1>. SUFFICES ASSUME TypeInv, LifeInv, StartInv, [Next]_vars PROVE StartInv'
  OBVIOUS
<1>s. CASE UNCHANGED vars
  BY <1>s DEF StartInv, Ended, vars
<1>1. ASSUME NEW o \in Owner, NEW value \in Priorities, SetPriority(o, value)
      PROVE  StartInv'
  BY <1>1, OwnerAssumption
  DEF TypeInv, ThreadTypeOK, LifeInv, StartInv, Ended, Released, SetPriority,
      MayConfigure
<1>2. ASSUME NEW o \in Owner, NEW value \in BOOLEAN, FactorySetDetached(o, value)
      PROVE  StartInv'
  BY <1>2, OwnerAssumption
  DEF TypeInv, ThreadTypeOK, LifeInv, StartInv, Ended, Released, FactorySetDetached,
      MayConfigure
<1>3. ASSUME NEW o \in Owner, NewThread(o) PROVE StartInv'
  BY <1>3, OwnerAssumption
  DEF TypeInv, ThreadTypeOK, LifeInv, StartInv, Ended, Released, NewThread,
      MayConfigure
<1>4. ASSUME NEW o \in Owner, NewThreadAborts(o) PROVE StartInv'
  BY <1>4, OwnerAssumption
  DEF TypeInv, ThreadTypeOK, LifeInv, StartInv, Ended, Released, NewThreadAborts,
      MayConfigure, Goto
<1>5. ASSUME NEW o \in Owner, Start(o) PROVE StartInv'
  BY <1>5, OwnerAssumption
  DEF TypeInv, ThreadTypeOK, LifeInv, StartInv, Ended, Released, Start, MayCall,
      Goto
<1>6. ASSUME NEW o \in Owner, Join(o) PROVE StartInv'
  BY <1>6, OwnerAssumption
  DEF TypeInv, ThreadTypeOK, LifeInv, StartInv, Ended, Released, Join, Joinable,
      MayCall, Goto
<1>7. ASSUME NEW o \in Owner, Release(o) PROVE StartInv'
  BY <1>7, OwnerAssumption
  DEF TypeInv, ThreadTypeOK, LifeInv, StartInv, Ended, Released, Release, Goto
<1>8. ASSUME NEW o \in Owner, SetStarting(o) PROVE StartInv'
  BY <1>8, OwnerAssumption
  DEF TypeInv, ThreadTypeOK, LifeInv, StartInv, Ended, Released, SetStarting, Goto
<1>9. ASSUME NEW o \in Owner, Create(o) PROVE StartInv'
  BY <1>9, OwnerAssumption
  DEF TypeInv, ThreadTypeOK, LifeInv, StartInv, Ended, Released, Create, OneCaller
<1>10. ASSUME NEW o \in Owner, CreateFails(o) PROVE StartInv'
  BY <1>10, OwnerAssumption
  DEF TypeInv, ThreadTypeOK, LifeInv, StartInv, Ended, Released, CreateFails,
      OneCaller
<1>11. ASSUME NEW o \in Owner, PthreadJoin(o) PROVE StartInv'
  BY <1>11, OwnerAssumption
  DEF TypeInv, ThreadTypeOK, LifeInv, StartInv, Ended, Released, PthreadJoin, Goto
<1>12. ASSUME NEW o \in Owner, JoinNull(o) PROVE StartInv'
  BY <1>12, OwnerAssumption
  DEF TypeInv, ThreadTypeOK, LifeInv, StartInv, Ended, Released, JoinNull, Goto
<1>13. ASSUME NEW o \in Owner, SetDetached(o) PROVE StartInv'
  BY <1>13, OwnerAssumption
  DEF TypeInv, ThreadTypeOK, LifeInv, StartInv, Ended, Released, SetDetached, Goto
<1>14. ASSUME NEW o \in Owner, Destructor(o) PROVE StartInv'
  BY <1>14, OwnerAssumption
  DEF TypeInv, ThreadTypeOK, LifeInv, StartInv, Ended, Released, Destructor, Goto
<1>15. CASE ThreadMain
  BY <1>15, OwnerAssumption
  DEF TypeInv, ThreadTypeOK, LifeInv, StartInv, Ended, Released, ThreadMain, Goto
<1>16. CASE SetStarted
  BY <1>16, OwnerAssumption
  DEF TypeInv, ThreadTypeOK, LifeInv, StartInv, Ended, Released, SetStarted, Goto
<1>17. CASE RunReturns
  BY <1>17, OwnerAssumption
  DEF TypeInv, ThreadTypeOK, LifeInv, StartInv, Ended, Released, RunReturns, Goto
<1>18. CASE SetStopping
  BY <1>18, OwnerAssumption
  DEF TypeInv, ThreadTypeOK, LifeInv, StartInv, Ended, Released, SetStopping, Goto
<1>19. CASE Leave
  BY <1>19, OwnerAssumption
  DEF TypeInv, ThreadTypeOK, LifeInv, StartInv, Ended, Released, Leave, Goto
<1>. QED
  BY <1>1, <1>2, <1>3, <1>4, <1>5, <1>6, <1>7, <1>8, <1>9, <1>10, <1>11, <1>12,
     <1>13, <1>14, <1>15, <1>16, <1>17, <1>18, <1>19, <1>s
  DEF Next, Configure, Call, Continue, Body

\* With one joining owner, every step keeps the pthread from being reclaimed twice.
LEMMA ReclaimStep ==
  ASSUME OneCaller("Join")
  PROVE  TypeInv /\ LifeInv /\ ReclaimInv /\ [Next]_vars => ReclaimInv'
<1>. SUFFICES ASSUME TypeInv, LifeInv, ReclaimInv, [Next]_vars PROVE ReclaimInv'
  OBVIOUS
<1>s. CASE UNCHANGED vars
  BY <1>s DEF ReclaimInv, vars
<1>1. ASSUME NEW o \in Owner, NEW value \in Priorities, SetPriority(o, value)
      PROVE  ReclaimInv'
  BY <1>1, OwnerAssumption
  DEF TypeInv, ThreadTypeOK, LifeInv, ReclaimInv, Destroying, Released, SetPriority,
      MayConfigure
<1>2. ASSUME NEW o \in Owner, NEW value \in BOOLEAN, FactorySetDetached(o, value)
      PROVE  ReclaimInv'
  BY <1>2, OwnerAssumption
  DEF TypeInv, ThreadTypeOK, LifeInv, ReclaimInv, Destroying, Released,
      FactorySetDetached, MayConfigure
<1>3. ASSUME NEW o \in Owner, NewThread(o) PROVE ReclaimInv'
  BY <1>3, OwnerAssumption
  DEF TypeInv, ThreadTypeOK, LifeInv, ReclaimInv, Destroying, Released, NewThread,
      MayConfigure
<1>4. ASSUME NEW o \in Owner, NewThreadAborts(o) PROVE ReclaimInv'
  BY <1>4, OwnerAssumption
  DEF TypeInv, ThreadTypeOK, LifeInv, ReclaimInv, Destroying, Released,
      NewThreadAborts, MayConfigure, Goto
<1>5. ASSUME NEW o \in Owner, Start(o) PROVE ReclaimInv'
  BY <1>5, OwnerAssumption
  DEF TypeInv, ThreadTypeOK, LifeInv, ReclaimInv, Destroying, Released, Start,
      MayCall, Goto
<1>6. ASSUME NEW o \in Owner, Join(o) PROVE ReclaimInv'
  BY <1>6, OwnerAssumption
  DEF TypeInv, ThreadTypeOK, LifeInv, ReclaimInv, Destroying, Released, Join,
      Joinable, OneCaller, MayCall, Goto
<1>7. ASSUME NEW o \in Owner, Release(o) PROVE ReclaimInv'
  BY <1>7, OwnerAssumption
  DEF TypeInv, ThreadTypeOK, LifeInv, ReclaimInv, Destroying, Released, Release,
      Goto
<1>8. ASSUME NEW o \in Owner, SetStarting(o) PROVE ReclaimInv'
  BY <1>8, OwnerAssumption
  DEF TypeInv, ThreadTypeOK, LifeInv, ReclaimInv, Destroying, Released, SetStarting,
      Goto
<1>9. ASSUME NEW o \in Owner, Create(o) PROVE ReclaimInv'
  BY <1>9, OwnerAssumption
  DEF TypeInv, ThreadTypeOK, LifeInv, ReclaimInv, Destroying, Released, Create
<1>10. ASSUME NEW o \in Owner, CreateFails(o) PROVE ReclaimInv'
  BY <1>10, OwnerAssumption
  DEF TypeInv, ThreadTypeOK, LifeInv, ReclaimInv, Destroying, Released, CreateFails
<1>11. ASSUME NEW o \in Owner, PthreadJoin(o) PROVE ReclaimInv'
  BY <1>11, OwnerAssumption
  DEF TypeInv, ThreadTypeOK, LifeInv, ReclaimInv, Destroying, Released, PthreadJoin,
      OneCaller, Goto
<1>12. ASSUME NEW o \in Owner, JoinNull(o) PROVE ReclaimInv'
  BY <1>12, OwnerAssumption
  DEF TypeInv, ThreadTypeOK, LifeInv, ReclaimInv, Destroying, Released, JoinNull,
      Goto
<1>13. ASSUME NEW o \in Owner, SetDetached(o) PROVE ReclaimInv'
  BY <1>13, OwnerAssumption
  DEF TypeInv, ThreadTypeOK, LifeInv, ReclaimInv, Destroying, Released, SetDetached,
      OneCaller, Goto
<1>14. ASSUME NEW o \in Owner, Destructor(o) PROVE ReclaimInv'
  BY <1>14, OwnerAssumption
  DEF TypeInv, ThreadTypeOK, LifeInv, ReclaimInv, Destroying, Released, Destructor,
      Joinable, Goto
<1>15. CASE ThreadMain
  BY <1>15, OwnerAssumption
  DEF TypeInv, ThreadTypeOK, LifeInv, ReclaimInv, Destroying, Released, ThreadMain,
      Goto
<1>16. CASE SetStarted
  BY <1>16, OwnerAssumption
  DEF TypeInv, ThreadTypeOK, LifeInv, ReclaimInv, Destroying, Released, SetStarted,
      Goto
<1>17. CASE RunReturns
  BY <1>17, OwnerAssumption
  DEF TypeInv, ThreadTypeOK, LifeInv, ReclaimInv, Destroying, Released, RunReturns,
      Goto
<1>18. CASE SetStopping
  BY <1>18, OwnerAssumption
  DEF TypeInv, ThreadTypeOK, LifeInv, ReclaimInv, Destroying, Released, SetStopping,
      Goto
<1>19. CASE Leave
  BY <1>19, OwnerAssumption
  DEF TypeInv, ThreadTypeOK, LifeInv, ReclaimInv, Destroying, Released, Leave,
      Joinable, Goto
<1>. QED
  BY <1>1, <1>2, <1>3, <1>4, <1>5, <1>6, <1>7, <1>8, <1>9, <1>10, <1>11, <1>12,
     <1>13, <1>14, <1>15, <1>16, <1>17, <1>18, <1>19, <1>s
  DEF Next, Configure, Call, Continue, Body

-----------------------------------------------------------------------------
(* The theorems.                                                           *)

\* Whatever the factory is set to, by SetPriority and by its constructor, the pthread
\* is created with a priority that its policy has.
THEOREM ValidPriority == Spec => []NativePriorityValid
<1>1. TypeInv => NativePriorityValid
  BY DEF TypeInv
<1>. QED
  BY <1>1, TypeInit, TypeStep, PTL DEF Spec

\* Nobody but the last owner destroys the Thread, once, and nothing is started or
\* joined that NewThread has not made: for every number of owners and all they call.
THEOREM Lifetime == Spec => [](ThreadTypeOK /\ LifeInv)
<1>1. TypeInv => ThreadTypeOK
  BY DEF TypeInv
<1>. QED
  BY <1>1, TypeInit, TypeStep, LifeInit, LifeStep, PTL DEF Spec

\* If only one owner calls Start, every Join of a started, joinable thread returns
\* after Run has, whoever joins and however far ThreadMain has got.
THEOREM JoinWaits ==
  ASSUME OneCaller("Start")
  PROVE  Spec => []JoinAwaitsRun
<1>1. Init => StartInv
  BY OwnerAssumption DEF Init, StartInv
<1>2. StartInv => JoinAwaitsRun
  BY DEF StartInv, JoinAwaitsRun, Released
<1>. QED
  BY <1>1, <1>2, TypeInit, TypeStep, LifeInit, LifeStep, StartStep, PTL DEF Spec

\* If only one owner calls Join, it and the destructor, on whichever owner's thread,
\* give the pthread's resources back at most once between them, and never those of a
\* pthread that was created detached.
THEOREM Reclaimed ==
  ASSUME OneCaller("Join")
  PROVE  Spec => []ReclaimedOnce
<1>1. Init => ReclaimInv
  BY OwnerAssumption DEF Init, ReclaimInv
<1>2. ReclaimInv => ReclaimedOnce
  BY DEF ReclaimInv, ReclaimedOnce
<1>. QED
  BY <1>1, <1>2, TypeInit, TypeStep, LifeInit, LifeStep, ReclaimStep, PTL DEF Spec

-----------------------------------------------------------------------------
(* SyncStartTaskTest.                                                      *)

\* The test is the one that starts the thread.
TestStarts == \A o \in Owner : "Start" \in Calls[o] => o = starter

\* The mutex is the task's from the end of each of its blocks until it unlocks, and
\* the two follow each other through the states.
HandshakeInv ==
  /\ holder \in {None, Main}
  /\ holder = Main <=> task \in {"unlock_started", "unlock_stopped"}
  /\ test \in {"begin", "start"} =>
       pc[Main] = "none" /\ pc[starter] \notin {"set_starting", "create"}
  /\ \/ test = "begin" /\ task_state = "UNINITIALIZED" /\ task = "start"
     \/ test = "start" /\ task_state = "STARTING" /\ task = "start"
     \/ test = "await_started" /\ task_state = "STARTING" /\ task = "start"
     \/ test = "await_started" /\ task_state = "STARTED" /\ task \in {"unlock_started", "run"}
     \/ test \in {"pause", "paused"} /\ task_state = "STARTED" /\ task = "run"
     \/ test = "await_stopped" /\ task_state = "STOPPING" /\ task = "run"
     \/ test = "await_stopped" /\ task_state = "STOPPED" /\ task \in {"unlock_stopped", "done"}
     \/ test = "returned" /\ task_state = "STOPPED" /\ task = "done"

-----------------------------------------------------------------------------

\* Every step of the test, of its task and of the owners is a step of SimpleThread or
\* leaves the thread alone.
LEMMA SyncStepIsThreadStep == [SyncNext]_allVars => [Next]_vars
<1>. SUFFICES ASSUME SyncNext PROVE Next \/ UNCHANGED vars
  BY DEF allVars
<1>1. CASE ThreadBody
  BY <1>1 DEF ThreadBody, Next
<1>2. CASE Task
  BY <1>2 DEF Task, TaskStarted, TaskWait, TaskStopped, TaskUnlock
<1>3. CASE Test
  <2>1. CASE TestStart
    BY <2>1, StarterAssumption DEF TestStart, Next, Call
  <2>2. CASE Test /\ ~TestStart
    BY <2>2 DEF Test, TestBegin, TestAwait, TestPause, TestStop
  <2>. QED
    BY <1>3, <2>1, <2>2
<1>4. ASSUME NEW o \in Owner, OwnerStep(o) PROVE Next
  BY <1>4 DEF OwnerStep, Next, Call
<1>5. ASSUME NEW x \in Owner \cup {Main}, SpuriousWakeup(x) PROVE UNCHANGED vars
  BY <1>5 DEF SpuriousWakeup
<1>. QED
  BY <1>1, <1>2, <1>3, <1>4, <1>5 DEF SyncNext

\* Every behaviour of SyncStartTaskTest is one of SimpleThread: the test calls the
\* thread's operations as any owner may, and its blocks on the monitor touch nothing
\* of the thread.
THEOREM SyncImplementsThread == SyncSpec => Spec
<1>1. SyncInit => Init
  BY DEF SyncInit
<1>. QED
  BY <1>1, SyncStepIsThreadStep, PTL DEF SyncSpec, Spec

\* In particular the priority that the test's thread is created with is valid, the
\* thread is reclaimed once if one owner joins it, and a Join waits for the task.
THEOREM SyncThreadSafe ==
  ASSUME OneCaller("Start"), OneCaller("Join")
  PROVE  SyncSpec => [](NativePriorityValid /\ JoinAwaitsRun /\ ReclaimedOnce)
  BY SyncImplementsThread, ValidPriority, JoinWaits, Reclaimed, PTL

-----------------------------------------------------------------------------

\* Every step keeps test and task in one of the pairs of places of the handshake.
LEMMA HandshakeStep ==
  ASSUME TestStarts
  PROVE  TypeInv /\ LifeInv /\ StartInv /\ HandshakeInv /\ [SyncNext]_allVars => HandshakeInv'
<1>. SUFFICES ASSUME TypeInv, LifeInv, StartInv, HandshakeInv, SyncNext PROVE HandshakeInv'
  BY DEF allVars, vars, local, HandshakeInv
<1>. USE OwnerAssumption, StarterAssumption
<1>1. CASE ThreadBody
  <2>1. pc[Main] = "none" => pc'[Main] = "none"
    BY <1>1 DEF ThreadBody, Body, ThreadMain, SetStarted, RunReturns, SetStopping, Leave
  <2>2. pc'[starter] = pc[starter]
    BY <1>1 DEF ThreadBody, Body, ThreadMain, SetStarted, RunReturns, SetStopping, Leave,
                Goto, TypeInv, ThreadTypeOK
  <2>. QED
    BY <1>1, <2>1, <2>2 DEF ThreadBody, local, HandshakeInv
<1>2. CASE TaskStarted
  BY <1>2 DEF TaskStarted, Change, HandshakeInv, vars, Awake
<1>3. CASE TaskWait
  BY <1>3 DEF TaskWait, HandshakeInv, vars, Awake
<1>4. CASE TaskStopped
  BY <1>4 DEF TaskStopped, Change, HandshakeInv, vars, Awake
<1>5. CASE TaskUnlock
  BY <1>5 DEF TaskUnlock, HandshakeInv, vars
<1>6. CASE TestBegin
  BY <1>6 DEF TestBegin, HandshakeInv, vars
<1>7. CASE TestStart
  BY <1>7 DEF TestStart, Start, Goto, HandshakeInv, TypeInv, ThreadTypeOK
<1>8. CASE TestAwait("await_started", "STARTING", "pause")
  BY <1>8 DEF TestAwait, Awake, HandshakeInv, vars
<1>9. CASE TestPause
  BY <1>9 DEF TestPause, HandshakeInv, vars
<1>10. CASE TestStop
  BY <1>10 DEF TestStop, Change, HandshakeInv, vars
<1>11. CASE TestAwait("await_stopped", "STOPPING", "returned")
  BY <1>11 DEF TestAwait, Awake, HandshakeInv, vars
<1>12. ASSUME NEW o \in Owner, OwnerStep(o) PROVE HandshakeInv'
  <2>1. ASSUME test \in {"begin", "start"}
        PROVE  pc'[Main] = "none" /\ pc'[starter] \notin {"set_starting", "create"}
    <3>1. pc[Main] = "none" /\ pc[starter] \notin {"set_starting", "create"}
      BY <2>1 DEF HandshakeInv
    <3>2. pc[o] \notin {"set_starting", "create"}
      BY <3>1 DEF StartInv, TestStarts
    <3>. QED
      BY <1>12, <3>1, <3>2
      DEF OwnerStep, Configure, Call, Continue, SetPriority, FactorySetDetached, NewThread,
          NewThreadAborts, Start, Join, Release, SetStarting, Create, CreateFails,
          PthreadJoin, JoinNull, SetDetached, Destructor, Goto, MayCall, TypeInv, ThreadTypeOK
  <2>. QED
    BY <1>12, <2>1 DEF OwnerStep, local, HandshakeInv
<1>13. ASSUME NEW x \in Owner \cup {Main}, SpuriousWakeup(x) PROVE HandshakeInv'
  BY <1>13 DEF SpuriousWakeup, HandshakeInv, vars
<1>. QED
  BY <1>1, <1>2, <1>3, <1>4, <1>5, <1>6, <1>7, <1>8, <1>9, <1>10, <1>11, <1>12, <1>13
  DEF SyncNext, Task, Test

\* When SyncStartTaskTest returns, the task has left the monitor on its stack for good
\* and has stopped, whoever else owns, joins or destroys the thread meanwhile.
THEOREM TaskLeaves ==
  ASSUME TestStarts
  PROVE  SyncSpec => []TaskLeftMonitor
<1>1. SyncInit => HandshakeInv
  BY OwnerAssumption, StarterAssumption DEF SyncInit, Init, HandshakeInv
<1>2. HandshakeInv => TaskLeftMonitor
  BY DEF HandshakeInv, TaskLeftMonitor
<1>3. OneCaller("Start")
  BY DEF TestStarts, OneCaller
<1>4. Init => StartInv
  BY OwnerAssumption DEF Init, StartInv
<1>5. SyncInit => Init
  BY DEF SyncInit
<1>. QED
  BY <1>1, <1>2, <1>3, <1>4, <1>5, TypeInit, TypeStep, LifeInit, LifeStep, StartStep,
     SyncStepIsThreadStep, HandshakeStep, PTL DEF SyncSpec
=============================================================================
