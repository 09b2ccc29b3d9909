----------------------------- MODULE MCPasteboard -----------------------------
(* Model values for the runs of Pasteboard: one guest thread, and the      *)
(* polling thread, which runs guest code in observers.                     *)
EXTENDS Pasteboard

CONSTANTS g1, hello

MCGuest == {g1}
MCTexts == {hello}
MCMaxCount == [t \in {g1, Poller} |-> IF t = Poller THEN 2 ELSE 1]
MCMaxCount_double == [t \in {g1, Poller} |-> 2]
=============================================================================
