----------------------------- MODULE MCNoStarve -----------------------------
(***************************************************************************)
(* NoStarveReadWriteMutex for TLC: every thread makes every call.          *)
(***************************************************************************)
EXTENDS NoStarveReadWriteMutex

MCCalls == [t \in Thread |-> {"AcquireRead", "AcquireWrite", "AttemptRead", "AttemptWrite"}]
=============================================================================
