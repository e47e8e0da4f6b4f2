----------------------------- MODULE MCRundown -----------------------------
(* Instances of Rundown for TLC.                                           *)
EXTENDS Rundown

CONSTANTS t1, t2, t3, r1, r2

ThreeThreads == {t1, t2, t3}
TwoRefs == {r1, r2}
=============================================================================
