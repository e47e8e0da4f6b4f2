---------------------------- MODULE MCRemoveLock ----------------------------
(* Instances of RemoveLock for TLC.                                        *)
EXTENDS RemoveLock

CONSTANTS t1, t2, t3, irp1, irp2

ThreeThreads == {t1, t2, t3}
TwoTags == {irp1, irp2}
=============================================================================
