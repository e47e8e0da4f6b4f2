----------------------------- MODULE MCCondVar ------------------------------
(* Instances of CondVar for TLC.                                           *)
EXTENDS CondVar

CONSTANTS t1, t2, t3

ThreeThreads == {t1, t2, t3}
=============================================================================
