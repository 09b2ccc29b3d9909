------------------------------ MODULE MCRunLoop ------------------------------
(* Model values for the run of RunLoop. *)
EXTENDS RunLoop

CONSTANTS s1, t1, o1, dflt, track, modal, common, user

MCSources   == {s1}
MCTimers    == {t1}
MCObservers == {o1}
MCUserModes == {user}
MCActivities == [o \in MCObservers |-> {"BEFORE_SOURCES"}]
MCInterval  == [t \in MCTimers |-> 2]
MCFirstDate == [t \in MCTimers |-> 1]
MCSites == {<<"sources", s1, track>>, <<"timers", t1, common>>, <<"observers", o1, dflt>>}
MCCalls == {<<dflt, FALSE, TRUE>>, <<track, FALSE, FALSE>>}
=============================================================================
