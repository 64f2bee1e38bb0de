----------------------- MODULE NoStarveReadWriteMutex -----------------------
(***************************************************************************)
(* NoStarveReadWriteMutex of src/threads/mutex.cc, and the ReadWriteMutex  *)
(* it derives from: a pthread rwlock behind a gate.  A writer that does not *)
(* get the rwlock at once takes mutex_, raises writer_waiting_ and waits;  *)
(* AcquireRead passes through mutex_ while it sees writer_waiting_ raised. *)
(*                                                                         *)
(* writer_waiting_ is a volatile bool that AcquireRead reads with no lock  *)
(* held, so each access to it is a step of its own.  The rwlock admits a   *)
(* reader whenever no writer holds it, as glibc's default kind does even   *)
(* while a writer waits.                                                   *)
(***************************************************************************)
EXTENDS Naturals

CONSTANTS Thread,
          Calls,    \* Calls[t]: the operations thread t calls, in any order
          None

ASSUME RWAssumption == None \notin Thread /\ DOMAIN Calls = Thread

VARIABLES readers,         \* the threads that hold the rwlock for reading
          writer,          \* the thread that holds it for writing
          mutex,           \* the thread that holds mutex_
          writer_waiting,
          pc,
          overtook         \* history: who got past the waiting writer in AcquireRead

rwlock == <<readers, writer>>
vars == <<rwlock, mutex, writer_waiting, pc, overtook>>

PCs == {"idle", "gate", "read_lock", "reading", "write_mutex", "set_waiting",
        "write_lock", "clear_waiting", "unlock_mutex", "writing"}

\* The rwlock, mutex_ and the flag have their types.
TypeOK ==
  /\ readers \subseteq Thread
  /\ writer \in Thread \cup {None}
  /\ mutex \in Thread \cup {None}
  /\ writer_waiting \in BOOLEAN
  /\ pc \in [Thread -> PCs]
  /\ overtook \subseteq Thread

Init ==
  /\ readers = {} /\ writer = None /\ mutex = None
  /\ writer_waiting = FALSE
  /\ pc = [t \in Thread |-> "idle"]
  /\ overtook = {}

MayCall(t, op) == op \in Calls[t] /\ pc[t] = "idle"
Goto(t, to) == pc' = [pc EXCEPT ![t] = to]

-----------------------------------------------------------------------------
(* The pthread rwlock.                                                     *)

TakeRead(t) == writer = None /\ readers' = readers \cup {t} /\ UNCHANGED writer

TakeWrite(t) == writer = None /\ readers = {} /\ writer' = t /\ UNCHANGED readers

AttemptRead(t) ==
  /\ MayCall(t, "AttemptRead")
  /\ TakeRead(t)
  /\ Goto(t, "reading")
  /\ UNCHANGED <<mutex, writer_waiting, overtook>>

AttemptWrite(t) ==
  /\ MayCall(t, "AttemptWrite")
  /\ TakeWrite(t)
  /\ Goto(t, "writing")
  /\ UNCHANGED <<mutex, writer_waiting, overtook>>

Release(t) ==
  /\ pc[t] \in {"reading", "writing"}
  /\ readers' = readers \ {t}
  /\ writer' = IF writer = t THEN None ELSE writer
  /\ Goto(t, "idle")
  /\ UNCHANGED <<mutex, writer_waiting, overtook>>

-----------------------------------------------------------------------------
(* AcquireRead.                                                            *)

\* Mutant: writer_waiting_ is not looked at.
BlindRead(t) ==
  /\ MayCall(t, "AcquireRead")
  /\ Goto(t, "read_lock")
  /\ UNCHANGED <<rwlock, mutex, writer_waiting, overtook>>

AcquireRead(t) ==
  /\ MayCall(t, "AcquireRead")
  /\ Goto(t, IF writer_waiting THEN "gate" ELSE "read_lock")
  /\ UNCHANGED <<rwlock, mutex, writer_waiting, overtook>>

\* Mutant: a single TryLock in place of Lock.
TryGate(t) ==
  /\ pc[t] = "gate"
  /\ Goto(t, "read_lock")
  /\ UNCHANGED <<rwlock, mutex, writer_waiting, overtook>>

\* mutex_.Lock(); mutex_.Unlock().
PassGate(t) ==
  /\ pc[t] = "gate"
  /\ mutex = None
  /\ Goto(t, "read_lock")
  /\ UNCHANGED <<rwlock, mutex, writer_waiting, overtook>>

ReadLock(t) ==
  /\ pc[t] = "read_lock"
  /\ TakeRead(t)
  /\ Goto(t, "reading")
  /\ overtook' = IF writer_waiting THEN overtook \cup {t} ELSE overtook
  /\ UNCHANGED <<mutex, writer_waiting>>

-----------------------------------------------------------------------------
(* AcquireWrite.                                                           *)

AcquireWrite(t) ==
  /\ MayCall(t, "AcquireWrite")
  /\ \/ TakeWrite(t) /\ Goto(t, "writing")
     \/ /\ writer # None \/ readers # {}
        /\ Goto(t, "write_mutex")
        /\ UNCHANGED rwlock
  /\ UNCHANGED <<mutex, writer_waiting, overtook>>

LockMutex(t) ==
  /\ pc[t] = "write_mutex"
  /\ mutex = None
  /\ mutex' = t
  /\ Goto(t, "set_waiting")
  /\ UNCHANGED <<rwlock, writer_waiting, overtook>>

SetWaiting(t) ==
  /\ pc[t] = "set_waiting"
  /\ writer_waiting' = TRUE
  /\ overtook' = {}
  /\ Goto(t, "write_lock")
  /\ UNCHANGED <<rwlock, mutex>>

\* Mutant: AttemptWrite() once more, its result ignored.
WriteLockUnchecked(t) ==
  /\ pc[t] = "write_lock"
  /\ TakeWrite(t) \/ UNCHANGED rwlock
  /\ Goto(t, "clear_waiting")
  /\ UNCHANGED <<mutex, writer_waiting, overtook>>

WriteLock(t) ==
  /\ pc[t] = "write_lock"
  /\ TakeWrite(t)
  /\ Goto(t, "clear_waiting")
  /\ UNCHANGED <<mutex, writer_waiting, overtook>>

\* Mutant: Unlock() before writer_waiting_ = false.
EndWaitSwapped(t) ==
  /\ \/ /\ pc[t] = "clear_waiting"
        /\ mutex' = None
        /\ Goto(t, "unlock_mutex")
        /\ UNCHANGED writer_waiting
     \/ /\ pc[t] = "unlock_mutex"
        /\ writer_waiting' = FALSE
        /\ Goto(t, "writing")
        /\ UNCHANGED mutex
  /\ UNCHANGED <<rwlock, overtook>>

\* writer_waiting_ = false, then mutex_.Unlock().
EndWait(t) ==
  /\ \/ /\ pc[t] = "clear_waiting"
        /\ writer_waiting' = FALSE
        /\ Goto(t, "unlock_mutex")
        /\ UNCHANGED mutex
     \/ /\ pc[t] = "unlock_mutex"
        /\ mutex' = None
        /\ Goto(t, "writing")
        /\ UNCHANGED writer_waiting
  /\ UNCHANGED <<rwlock, overtook>>

-----------------------------------------------------------------------------

Call(t) == AcquireRead(t) \/ AcquireWrite(t) \/ AttemptRead(t) \/ AttemptWrite(t)

Continue(t) ==
  \/ PassGate(t) \/ ReadLock(t)
  \/ LockMutex(t) \/ SetWaiting(t) \/ WriteLock(t) \/ EndWait(t)
  \/ Release(t)

Next == \E t \in Thread : Call(t) \/ Continue(t)

Spec == Init /\ [][Next]_vars

\* Threads that can go on do, and what a lock protects ends; no lock is fair.
FairSpec == Spec /\ \A t \in Thread : WF_vars(Continue(t))

-----------------------------------------------------------------------------
(* Properties.                                                             *)

\* A thread that AcquireWrite or AttemptWrite has let in is alone.
WriterAlone ==
  \A t, u \in Thread : pc[t] = "writing" /\ pc[u] \in {"reading", "writing"} => t = u

\* While a writer waits for the rwlock, readers see writer_waiting_ raised and
\* find mutex_ taken: a writer that is done lowers only its own flag.
WaitingWriterGatesReaders ==
  \A t \in Thread : pc[t] = "write_lock" => writer_waiting /\ mutex = t

\* No thread gets the rwlock in AcquireRead twice while one and the same writer
\* waits: it may have passed the check before the flag was raised, once.
OvertakenOnce ==
  [][\A t \in Thread : pc[t] = "read_lock" /\ pc'[t] = "reading" /\ writer_waiting
                       => t \notin overtook]_vars

\* Another thread gets in without the gate (AttemptRead, AttemptWrite and the
\* AttemptWrite that AcquireWrite begins with), or gets mutex_ first.
Bypassed(t) ==
  \E u \in Thread \ {t} :
    \/ pc[u] = "idle" /\ pc'[u] \in {"reading", "writing"}
    \/ pc[u] = "write_mutex" /\ pc'[u] = "set_waiting"

\* A thread that asked to write does, however often others come back with
\* AcquireRead: it can starve only if others for ever bypass the gate or, mutexes
\* being unfair, for ever get mutex_ before it.
WriterNotStarved ==
  \A t \in Thread :
    []<><<Bypassed(t)>>_vars \/ (pc[t] = "write_mutex" ~> pc[t] = "writing")
=============================================================================
