----------------------------- MODULE MCLoadTest -----------------------------
(***************************************************************************)
(* LoadTest for TLC.                                                       *)
(***************************************************************************)
EXTENDS LoadTest

TestCalls == [t \in Thread |-> IF t = ctl THEN {"SimpleStart", "Add", "Stop"} ELSE {}]
=============================================================================
