--------------------------- MODULE MCSimpleThread ---------------------------
(***************************************************************************)
(* SyncStartTask and SimpleThread for TLC: one owner makes the thread and  *)
(* starts it, another one joins it, as often and as early as it likes.     *)
(***************************************************************************)
EXTENDS SyncStartTask

CONSTANT joiner

MCCalls ==
  [o \in Owner |-> CASE o = starter -> {"NewThread", "Start"}
                     [] o = joiner -> {"Join"}
                     [] OTHER -> {}]
=============================================================================
