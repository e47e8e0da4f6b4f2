----------------------------- MODULE MCPushLock -----------------------------
(* Instances of PushLock for TLC.                                          *)
EXTENDS PushLock, TLC

CONSTANTS t1, t2, t3

ThreeThreads == {t1, t2, t3}

AllOps == {"AcquireExclusive", "TryToAcquireExclusive", "AcquireShared",
           "ConvertSharedToExclusive", "WaitOn", "ReleaseShared",
           "ReleaseExclusive", "Release"}

(* Threads are interchangeable; used for the safety runs.                  *)
Symmetry == Permutations(Threads)
=============================================================================
