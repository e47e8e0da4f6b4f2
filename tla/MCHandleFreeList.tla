-------------------------- MODULE MCHandleFreeList --------------------------
(* Instances of HandleFreeList for TLC.                                    *)
EXTENDS HandleFreeList

CONSTANTS t1, t2

TwoThreads == {t1, t2}
=============================================================================
