------------------------- MODULE MCLifecycleRecovery -------------------------
(* Model values for the runs of LifecycleRecovery: the main thread, alone  *)
(* or with one more thread that runs guest code.                           *)
EXTENDS LifecycleRecovery

CONSTANTS main, o1

MCNone == {}
MCOne  == {o1}
=============================================================================
