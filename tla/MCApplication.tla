---------------------------- MODULE MCApplication ----------------------------
(* Model values for the run of Application: the main thread, one worker    *)
(* and two X11 windows.                                                    *)
EXTENDS Application

CONSTANTS main, w1, x1, x2

MCWorkers == {w1}
MCXIDs    == {x1, x2}
MCKinds   == {"EXPOSE", "CLOSE"}
=============================================================================
