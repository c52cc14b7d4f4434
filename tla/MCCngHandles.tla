----------------------------- MODULE MCCngHandles -----------------------------
(***************************************************************************)
(* Values of the constants of CngHandles for TLC.                          *)
(***************************************************************************)
EXTENDS CngHandles

CONSTANTS t1, t2

TwoThreads == {t1, t2}
TwoAndOne == [t \in TwoThreads |-> IF t = t1 THEN 2 ELSE 1]
SomeUnavailable == {<<"sha256", "hash">>}
================================================================================
