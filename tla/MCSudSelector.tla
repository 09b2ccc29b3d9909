---------------------------- MODULE MCSudSelector ----------------------------
(* Model values for the runs of SudSelector: the main thread, which calls  *)
(* bracketed shims only, a thread it creates, which does everything, and a *)
(* host thread that runs guest callbacks and calls imports.                *)
EXTENDS SudSelector

CONSTANTS main, c1, h1

MCCreated == {c1}
MCHost    == {h1}
MCLoose   == {c1, h1}
=============================================================================
