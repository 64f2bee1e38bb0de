-------------------------- MODULE MCBlockTaskTest --------------------------
(***************************************************************************)
(* BlockTaskTest for TLC.                                                  *)
(***************************************************************************)
EXTENDS BlockTaskTest

TestCalls == [t \in Thread |-> IF t = ctl THEN {"SimpleStart", "Add"} ELSE {}]
=============================================================================
