--------------------------- MODULE MCHandleEntry ---------------------------
(* Instances of HandleEntry for TLC.                                       *)
EXTENDS HandleEntry

CONSTANTS t1, t2, t3, h1, o1, o2

ThreeThreads == {t1, t2, t3}
OneHandle == {h1}
TwoObjects == {o1, o2}
=============================================================================
