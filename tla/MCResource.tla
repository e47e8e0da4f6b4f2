----------------------------- MODULE MCResource -----------------------------
(* Instances of Resource for TLC.                                          *)
EXTENDS Resource

CONSTANTS t1, t2, t3, p1

ThreeThreads == {t1, t2, t3}
OnePointer == {p1}
=============================================================================
