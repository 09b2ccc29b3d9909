------------------------------ MODULE MCMachIPC ------------------------------
(* Model values for the runs of MachIPC. *)
EXTENDS MachIPC

MCSpecial == {1}
MCGuest == {1, 2, 3}
=============================================================================
