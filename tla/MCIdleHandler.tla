--------------------------- MODULE MCIdleHandler ---------------------------
(* An instance of IdleHandler for TLC.                                     *)
EXTENDS IdleHandler

CONSTANTS e1, e2, e3

ThreeTables == {e1, e2, e3}
=============================================================================
