------------------------ MODULE MCRundownCacheAware ------------------------
(* Instances of RundownCacheAware for TLC.                                 *)
EXTENDS RundownCacheAware

CONSTANTS t1, t2, r1, r2

TwoThreads == {t1, t2}
TwoRefs == {r1, r2}
=============================================================================
