---------------------------- MODULE NoStarveProofs ----------------------------
(***************************************************************************)
(* Proofs about NoStarveReadWriteMutex, for every set of threads.          *)
(***************************************************************************)
EXTENDS NoStarveReadWriteMutex, TLAPS

\* mutex_ is held exactly by the writer between its Lock and its Unlock.
MutexInv ==
  \A t \in Thread :
    mutex = t <=> pc[t] \in {"set_waiting", "write_lock", "clear_waiting", "unlock_mutex"}

\* The flag is raised exactly while its owner, who holds mutex_, waits.
FlagInv ==
  /\ \A t \in Thread : pc[t] \in {"write_lock", "clear_waiting"} => writer_waiting
  /\ writer_waiting => mutex \in Thread /\ pc[mutex] \in {"write_lock", "clear_waiting"}

\* The rwlock is held by those who were let in.
RWLockInv ==
  /\ \A t \in Thread : t \in readers <=> pc[t] = "reading"
  /\ \A t \in Thread : writer = t <=> pc[t] \in {"clear_waiting", "unlock_mutex", "writing"}
  /\ writer # None => readers = {}

\* Whoever has overtaken the waiting writer is not on its way to do it again.
OvertookInv == writer_waiting => \A t \in overtook : pc[t] # "read_lock"

Inv == TypeOK /\ MutexInv /\ FlagInv /\ RWLockInv /\ OvertookInv

\* Every step of every thread, the stuttering one included, keeps the invariant.
LEMMA InvStep ==
  ASSUME Inv, [Next]_vars
  PROVE  Inv'
<1> USE RWAssumption DEF Inv, TypeOK, PCs, rwlock, Goto, MayCall, TakeRead, TakeWrite
<1>1. ASSUME NEW t \in Thread, AcquireRead(t)
      PROVE  Inv'
  BY <1>1 DEF AcquireRead, MutexInv, FlagInv, RWLockInv, OvertookInv
<1>2. ASSUME NEW t \in Thread, AcquireWrite(t)
      PROVE  Inv'
  BY <1>2 DEF AcquireWrite, MutexInv, FlagInv, RWLockInv, OvertookInv
<1>3. ASSUME NEW t \in Thread, AttemptRead(t)
      PROVE  Inv'
  BY <1>3 DEF AttemptRead, MutexInv, FlagInv, RWLockInv, OvertookInv
<1>4. ASSUME NEW t \in Thread, AttemptWrite(t)
      PROVE  Inv'
  BY <1>4 DEF AttemptWrite, MutexInv, FlagInv, RWLockInv, OvertookInv
<1>5. ASSUME NEW t \in Thread, PassGate(t)
      PROVE  Inv'
  BY <1>5 DEF PassGate, MutexInv, FlagInv, RWLockInv, OvertookInv
<1>6. ASSUME NEW t \in Thread, ReadLock(t)
      PROVE  Inv'
  BY <1>6 DEF ReadLock, MutexInv, FlagInv, RWLockInv, OvertookInv
<1>7. ASSUME NEW t \in Thread, LockMutex(t)
      PROVE  Inv'
  BY <1>7 DEF LockMutex, MutexInv, FlagInv, RWLockInv, OvertookInv
<1>8. ASSUME NEW t \in Thread, SetWaiting(t)
      PROVE  Inv'
  BY <1>8 DEF SetWaiting, MutexInv, FlagInv, RWLockInv, OvertookInv
<1>9. ASSUME NEW t \in Thread, WriteLock(t)
      PROVE  Inv'
  <2>1. TypeOK' /\ MutexInv' /\ OvertookInv'
    BY <1>9 DEF WriteLock, MutexInv, OvertookInv
  <2>2. FlagInv'
    BY <1>9 DEF WriteLock, MutexInv, FlagInv
  <2>3. RWLockInv'
    BY <1>9 DEF WriteLock, RWLockInv
  <2> QED BY <2>1, <2>2, <2>3
<1>10. ASSUME NEW t \in Thread, EndWait(t)
       PROVE  Inv'
  <2>1. TypeOK' /\ OvertookInv'
    <3>1. CASE pc[t] = "clear_waiting" /\ writer_waiting' = FALSE /\ UNCHANGED mutex
               /\ pc' = [pc EXCEPT ![t] = "unlock_mutex"]
      BY <1>10, <3>1 DEF EndWait, OvertookInv
    <3>2. CASE pc[t] = "unlock_mutex" /\ mutex' = None /\ UNCHANGED writer_waiting
               /\ pc' = [pc EXCEPT ![t] = "writing"]
      BY <1>10, <3>2 DEF EndWait, OvertookInv
    <3> QED BY <1>10, <3>1, <3>2 DEF EndWait
  <2>2. MutexInv'
    BY <1>10 DEF EndWait, MutexInv
  <2>3. FlagInv'
    BY <1>10 DEF EndWait, MutexInv, FlagInv
  <2>4. RWLockInv'
    BY <1>10 DEF EndWait, RWLockInv
  <2> QED BY <2>1, <2>2, <2>3, <2>4
<1>11. ASSUME NEW t \in Thread, Release(t)
       PROVE  Inv'
  BY <1>11 DEF Release, MutexInv, FlagInv, RWLockInv, OvertookInv
<1>12. CASE UNCHANGED vars
  BY <1>12 DEF vars, MutexInv, FlagInv, RWLockInv, OvertookInv
<1> HIDE DEF Inv
<1> QED
  BY <1>1, <1>2, <1>3, <1>4, <1>5, <1>6, <1>7, <1>8, <1>9, <1>10, <1>11, <1>12
  DEF Next, Call, Continue

\* The inductive invariant of the gate.
THEOREM Invariance == Spec => []Inv
<1>1. Init => Inv
  BY RWAssumption
  DEF Init, Inv, TypeOK, PCs, MutexInv, FlagInv, RWLockInv, OvertookInv
<1>2. Inv /\ [Next]_vars => Inv'
  BY InvStep
<1> QED BY <1>1, <1>2, PTL DEF Spec

\* Writers exclude each other and the readers, whichever call let them in.
THEOREM WriterExclusion == Spec => []WriterAlone
<1>1. Inv => WriterAlone
  BY RWAssumption DEF Inv, TypeOK, RWLockInv, WriterAlone
<1> QED BY <1>1, Invariance, PTL

\* A waiting writer always has the gate closed and the flag raised.
THEOREM GateClosed == Spec => []WaitingWriterGatesReaders
<1>1. Inv => WaitingWriterGatesReaders
  BY DEF Inv, MutexInv, FlagInv, WaitingWriterGatesReaders
<1> QED BY <1>1, Invariance, PTL

\* Each reader overtakes a waiting writer at most once, for any number of readers.
THEOREM BoundedOvertaking == Spec => OvertakenOnce
<1>1. Inv /\ [Next]_vars =>
        [\A t \in Thread : pc[t] = "read_lock" /\ pc'[t] = "reading" /\ writer_waiting
                           => t \notin overtook]_vars
  BY DEF Inv, OvertookInv
<1> QED BY <1>1, Invariance, PTL DEF Spec, OvertakenOnce
=============================================================================
