------------------------------- MODULE RunLoop -------------------------------
(***************************************************************************)
(* The CFRunLoop of one thread (grafted-frameworks/src/cf/runloop.rs):     *)
(* nested CFRunLoopRunInMode calls, the sources, timers and observers      *)
(* registered per mode, the stop flag and the stack of entered modes.      *)
(*                                                                         *)
(* The thread runs the loop and the callbacks the loop makes; a callback   *)
(* may change the registries and run the loop again.  Other threads only   *)
(* signal sources and stop the loop, through the pointers they hold, while *)
(* the thread is anywhere in its code.  A registry is a set: the order of  *)
(* registration is abstracted into a free choice at each dispatch.         *)
(***************************************************************************)
EXTENDS Integers, Sequences, FiniteSets

CONSTANTS
  Sources, Timers, Observers,
  Default, Tracking, Modal,  \* the modes a loop is created with
  Common,                    \* kCFRunLoopCommonModes, not a mode of its own
  UserModes,                 \* modes the program names itself
  Activities,                \* observer -> the activities it asks for
  Interval, FirstDate,       \* timer -> interval (0: one shot), first fire date
  Sites,                     \* bound: the <<kind, item, mode>> the guest registers
  Calls,                     \* bound: the <<mode, forever, return_after_source>> of its runs
  MaxClock,                  \* bound: the clock stops there
  MaxDepth,                  \* bound: nesting of runs
  MaxStops,                  \* bound: calls of CFRunLoopStop
  Null

Mode  == {Default, Tracking, Modal, Common} \cup UserModes
Kind  == {"sources", "timers", "observers"}
Item  == Sources \cup Timers \cup Observers
Never == MaxClock + 1000     \* f64::MAX
Time  == 0 .. Never
Activity == {"ENTRY", "BEFORE_TIMERS", "BEFORE_SOURCES", "BEFORE_WAITING",
             "AFTER_WAITING", "EXIT"}
Result   == {"FINISHED", "STOPPED", "TIMED_OUT", "HANDLED_SOURCE"}

ASSUME RunLoopAssumption ==
  /\ MaxClock \in Nat /\ MaxDepth \in Nat /\ MaxStops \in Nat
  /\ Activities \in [Observers -> SUBSET Activity]
  /\ Interval \in [Timers -> 0 .. 999] /\ FirstDate \in [Timers -> 0 .. MaxClock]
  /\ Sites \subseteq ({"sources"} \X Sources \X Mode) \cup ({"timers"} \X Timers \X Mode)
                       \cup ({"observers"} \X Observers \X Mode)
  /\ Calls \subseteq Mode \X BOOLEAN \X BOOLEAN
  /\ Null \notin Item
  /\ Sources \cap Timers = {} /\ Sources \cap Observers = {} /\ Timers \cap Observers = {}

VARIABLES
  modes,        \* created mode -> what is registered in it
  common_modes, \* the modes that count as common
  mode_stack,   \* the entered modes, innermost last
  stopped,      \* the flag CFRunLoopStop sets
  signaled,     \* source -> its flag
  fire_date,    \* timer -> when it fires next
  clock,        \* CFAbsoluteTimeGetCurrent
  frames,       \* the CFRunLoopRunInMode calls in progress, innermost last
  pending,      \* history: source -> signalled since its perform last began
  stops,        \* history: calls of CFRunLoopStop
  answered      \* history: runs that returned STOPPED

loop  == <<modes, common_modes, mode_stack, stopped, signaled, fire_date>>
vars  == <<modes, common_modes, mode_stack, stopped, signaled, fire_date, clock, frames,
           pending, stops, answered>>

CallbackPC == {"in_observer", "in_source", "in_timer"}
LoopPC     == {"observe", "sources", "perform", "timers", "wait"}

Registry == [sources : SUBSET Sources, timers : SUBSET Timers, observers : SUBSET Observers]
NoneIn   == [sources |-> {}, timers |-> {}, observers |-> {}]

Frame ==
  [mode : Mode, forever : BOOLEAN, ras : BOOLEAN,
   again : BOOLEAN,            \* called by CFRunLoopRun, which calls it again
   pc : LoopPC \cup CallbackPC,
   act : Activity,             \* the activity whose observers are or were fired
   obs : SUBSET Observers,     \* the observers of to_fire that are left
   todo : SUBSET Item,         \* the snapshot's sources or timers that are left
   item : Item \cup {Null},    \* the source or timer in dispatch
   now : Time, result : Result,
   duty : SUBSET Item,         \* history: ready in this mode at entry, still to dispatch
   gone : SUBSET Item]         \* history: in the snapshot, removed from the mode since

-----------------------------------------------------------------------------
(* Helpers on modes and frames. *)

Depth == Len(frames)
Top   == frames[Depth]

(* Guest code runs: outside every run, or in a callback of the innermost.  *)
InGuest == frames # <<>> => Top.pc \in CallbackPC

In(kind, m) == IF m \in DOMAIN modes THEN modes[m][kind] ELSE {}

(* `entry(m).or_insert_with(CFRunLoopModeInner::new)` for every m in ms. *)
WithModes(ms) == [m \in DOMAIN modes \cup ms |-> IF m \in DOMAIN modes THEN modes[m] ELSE NoneIn]

(* The modes a registration in m means now. *)
Targets(m) == IF m = Common THEN common_modes ELSE {m}

Snapshot(f) == f.todo \cup ({f.item} \ {Null})

(* The observers of a mode that fire_observers calls for an activity. *)
ToFire(m, act) == {o \in In("observers", m) : act \in Activities[o]}

(* The same frame about to fire the observers of act. *)
Observing(f, act) == [f EXCEPT !.pc = "observe", !.act = act, !.obs = ToFire(f.mode, act)]

(* The same frame leaving with a result: EXIT observers first. *)
Leaving(f, result) == [Observing(f, "EXIT") EXCEPT !.result = result, !.todo = {},
                                                   !.item = Null, !.now = 0, !.gone = {}]

NewFrame(m, forever, ras, again) ==
  [mode |-> m, forever |-> forever, ras |-> ras, again |-> again,
   pc |-> "observe", act |-> "ENTRY", obs |-> ToFire(m, "ENTRY"),
   todo |-> {}, item |-> Null, now |-> 0, result |-> "TIMED_OUT",
   duty |-> {s \in In("sources", m) : signaled[s]}
              \cup {t \in In("timers", m) : clock >= fire_date[t]},
   gone |-> {}]

SetTop(f) == frames' = [frames EXCEPT ![Depth] = f]
Pop(s)    == SubSeq(s, 1, Len(s) - 1)

Init ==
  /\ modes = [m \in {Default, Tracking, Modal} |-> NoneIn]
  /\ common_modes = {Default, Tracking}
  /\ mode_stack = <<>>
  /\ stopped = FALSE
  /\ signaled = [s \in Sources |-> FALSE]
  /\ fire_date = FirstDate
  /\ clock = 0
  /\ frames = <<>>
  /\ pending = [s \in Sources |-> FALSE]
  /\ stops = 0
  /\ answered = 0

-----------------------------------------------------------------------------
(* What guest code does with the registries: outside the loop or in a      *)
(* callback.                                                               *)

(* Item i of a kind goes into the modes that m means now. *)
Add(kind, i, m) ==
  /\ InGuest
  /\ modes' = [n \in DOMAIN WithModes(Targets(m)) |->
                 IF n \in Targets(m)
                 THEN [WithModes(Targets(m))[n] EXCEPT ![kind] = In(kind, n) \cup {i}]
                 ELSE modes[n]]
  /\ UNCHANGED <<common_modes, mode_stack, stopped, signaled, fire_date, clock, frames,
                 pending, stops, answered>>

(* Item i goes out of those modes, but stays in the snapshots of the runs  *)
(* in progress.                                                            *)
Remove(kind, i, m) ==
  /\ InGuest
  /\ modes' = [n \in DOMAIN modes |->
                 IF n \in Targets(m) THEN [modes[n] EXCEPT ![kind] = modes[n][kind] \ {i}]
                 ELSE modes[n]]
  /\ frames' = [d \in DOMAIN frames |->
                  IF frames[d].mode \in Targets(m)
                  THEN [frames[d] EXCEPT !.duty = frames[d].duty \ {i},
                                         !.gone = frames[d].gone \cup (Snapshot(frames[d]) \cap {i})]
                  ELSE frames[d]]
  /\ UNCHANGED <<common_modes, mode_stack, stopped, signaled, fire_date, clock,
                 pending, stops, answered>>

CFRunLoopAddSource(s, m)      == Add("sources", s, m)
CFRunLoopAddTimer(t, m)       == Add("timers", t, m)
CFRunLoopAddObserver(o, m)    == Add("observers", o, m)
CFRunLoopRemoveSource(s, m)   == Remove("sources", s, m)
CFRunLoopRemoveTimer(t, m)    == Remove("timers", t, m)
CFRunLoopRemoveObserver(o, m) == Remove("observers", o, m)

CFRunLoopAddCommonMode(m) ==
  /\ InGuest
  /\ common_modes' = common_modes \cup {m}
  /\ modes' = WithModes({m})
  /\ UNCHANGED <<mode_stack, stopped, signaled, fire_date, clock, frames,
                 pending, stops, answered>>

(* CFRunLoopSourceSignal and CFRunLoopStop, by any thread at any time.     *)
CFRunLoopSourceSignal(s) ==
  /\ signaled' = [signaled EXCEPT ![s] = TRUE]
  /\ pending' = [pending EXCEPT ![s] = TRUE]
  /\ UNCHANGED <<modes, common_modes, mode_stack, stopped, fire_date, clock, frames,
                 stops, answered>>

CFRunLoopStop ==
  /\ stops < MaxStops
  /\ stopped' = TRUE
  /\ stops' = stops + 1
  /\ UNCHANGED <<modes, common_modes, mode_stack, signaled, fire_date, clock, frames,
                 pending, answered>>

-----------------------------------------------------------------------------
(* CFRunLoopRunInMode. *)

(* Mutant: a run refused at entry leaves the flag set. *)
Enter_keeping_stop(rest, m, forever, ras, again) ==
  /\ modes' = WithModes({m})
  /\ IF stopped
     THEN /\ answered' = answered + 1
          /\ frames' = rest
          /\ UNCHANGED <<stopped, mode_stack>>
     ELSE /\ mode_stack' = Append(mode_stack, m)
          /\ frames' = Append(rest, NewFrame(m, forever, ras, again))
          /\ UNCHANGED <<stopped, answered>>

(* Entry on top of the frames in rest: create the mode, and unless a stop  *)
(* is pending, push it and fire the ENTRY observers.                       *)
Enter(rest, m, forever, ras, again) ==
  /\ modes' = WithModes({m})
  /\ IF stopped
     THEN /\ stopped' = FALSE
          /\ answered' = answered + 1
          /\ frames' = rest
          /\ UNCHANGED mode_stack
     ELSE /\ mode_stack' = Append(mode_stack, m)
          /\ frames' = Append(rest, NewFrame(m, forever, ras, again))
          /\ UNCHANGED <<stopped, answered>>

CFRunLoopRunInMode(m, forever, ras) ==
  /\ InGuest /\ Depth < MaxDepth
  /\ Enter(frames, m, forever, ras, FALSE)
  /\ UNCHANGED <<common_modes, signaled, fire_date, clock, pending, stops>>

CFRunLoopRun ==
  /\ InGuest /\ Depth < MaxDepth
  /\ Enter(frames, Default, TRUE, FALSE, TRUE)
  /\ UNCHANGED <<common_modes, signaled, fire_date, clock, pending, stops>>

Running(pc) == frames # <<>> /\ Top.pc = pc

(* fire_observers: call the next observer of the snapshot. *)
FireObserver ==
  /\ Running("observe")
  /\ \E o \in Top.obs : SetTop([Top EXCEPT !.obs = Top.obs \ {o}, !.pc = "in_observer"])
  /\ UNCHANGED <<loop, clock, pending, stops, answered>>

(* Mutants: the sources of every mode, and those of the default mode,      *)
(* whatever mode runs.                                                     *)
SourcesOf_all(m)     == UNION {modes[n].sources : n \in DOMAIN modes}
SourcesOf_default(m) == In("sources", Default)

(* sources_to_check, collected before the BEFORE_SOURCES observers run. *)
SourcesOf(m) == In("sources", m)

(* Every observer of the activity was called: go on with the phase behind. *)
EntryDone ==
  /\ Running("observe") /\ Top.obs = {} /\ Top.act = "ENTRY"
  /\ SetTop([Observing(Top, "BEFORE_SOURCES") EXCEPT !.todo = SourcesOf(Top.mode)])
  /\ UNCHANGED <<loop, clock, pending, stops, answered>>

PhaseAfter(act) == CASE act = "BEFORE_SOURCES" -> "sources"
                     [] act = "BEFORE_TIMERS"  -> "timers"
                     [] OTHER                  -> "wait"

BeforeDone ==
  /\ Running("observe") /\ Top.obs = {}
  /\ Top.act \in {"BEFORE_SOURCES", "BEFORE_TIMERS", "BEFORE_WAITING"}
  /\ SetTop([Top EXCEPT !.pc = PhaseAfter(Top.act)])
  /\ UNCHANGED <<loop, clock, pending, stops, answered>>

(* Source dispatch: the next source of the snapshot.  `src.signaled =      *)
(* false` comes before perform is called.                                  *)
CheckSource ==
  /\ Running("sources")
  /\ \E s \in Top.todo :
       IF signaled[s]
       THEN /\ signaled' = [signaled EXCEPT ![s] = FALSE]
            /\ SetTop([Top EXCEPT !.pc = "perform", !.item = s, !.todo = Top.todo \ {s}])
       ELSE /\ SetTop([Top EXCEPT !.todo = Top.todo \ {s}])
            /\ UNCHANGED signaled
  /\ UNCHANGED <<modes, common_modes, mode_stack, stopped, fire_date, clock,
                 pending, stops, answered>>

(* The frames after a dispatch of i by the innermost one, which becomes f. *)
Dispatched(i, f) ==
  [d \in DOMAIN frames |->
     LET g == IF d = Depth THEN f ELSE frames[d] IN [g EXCEPT !.duty = g.duty \ {i}]]

Perform ==
  /\ Running("perform")
  /\ frames' = Dispatched(Top.item, [Top EXCEPT !.pc = "in_source"])
  /\ pending' = [pending EXCEPT ![Top.item] = FALSE]
  /\ UNCHANGED <<loop, clock, stops, answered>>

(* The snapshot is done: capture the time and the timers of the mode. *)
SourcesDone ==
  /\ Running("sources") /\ Top.todo = {}
  /\ SetTop([Observing(Top, "BEFORE_TIMERS") EXCEPT !.now = clock, !.gone = {},
                                                      !.todo = In("timers", Top.mode)])
  /\ UNCHANGED <<loop, clock, pending, stops, answered>>

(* Timer dispatch, against the time captured before the callbacks. *)
CheckTimer ==
  /\ Running("timers")
  /\ \E t \in Top.todo :
       frames' = IF Top.now >= fire_date[t]
                 THEN Dispatched(t, [Top EXCEPT !.pc = "in_timer", !.item = t,
                                                !.todo = Top.todo \ {t}])
                 ELSE [frames EXCEPT ![Depth].todo = Top.todo \ {t}]
  /\ UNCHANGED <<loop, clock, pending, stops, answered>>

TimersDone ==
  /\ Running("timers") /\ Top.todo = {}
  /\ SetTop([Observing(Top, "BEFORE_WAITING") EXCEPT !.now = 0, !.gone = {}])
  /\ UNCHANGED <<loop, clock, pending, stops, answered>>

(* epoll_wait on a set that nothing is ever added to: with a timeout it    *)
(* returns by itself, with -1 (seconds > 1e9) only when a signal handler   *)
(* interrupts it.  CFRunLoopWakeUp does nothing.                           *)
WaitTimesOut ==
  /\ Running("wait") /\ ~Top.forever
  /\ SetTop(Observing(Top, "AFTER_WAITING"))
  /\ UNCHANGED <<loop, clock, pending, stops, answered>>

WaitInterrupted ==
  /\ Running("wait") /\ Top.forever
  /\ SetTop(Observing(Top, "AFTER_WAITING"))
  /\ UNCHANGED <<loop, clock, pending, stops, answered>>

(* The result, and the stop flag it consumes. *)
AfterWaiting ==
  /\ Running("observe") /\ Top.obs = {} /\ Top.act = "AFTER_WAITING"
  /\ stopped' = FALSE
  /\ SetTop(Leaving(Top, IF stopped THEN "STOPPED" ELSE "TIMED_OUT"))
  /\ UNCHANGED <<modes, common_modes, mode_stack, signaled, fire_date, clock, pending,
                 stops, answered>>

(* Mutant: the early return after a source does not pop the mode. *)
Return_unpopped ==
  /\ Running("observe") /\ Top.obs = {} /\ Top.act = "EXIT"
  /\ ~(Top.again /\ Top.result # "STOPPED")
  /\ frames' = Pop(frames)
  /\ mode_stack' = IF Top.result = "HANDLED_SOURCE" THEN mode_stack ELSE Pop(mode_stack)
  /\ answered' = IF Top.result = "STOPPED" THEN answered + 1 ELSE answered
  /\ UNCHANGED <<modes, common_modes, stopped, signaled, fire_date, clock, pending, stops>>

(* The EXIT observers ran: pop and return.  CFRunLoopRun calls again       *)
(* unless the result is STOPPED (FINISHED is never returned).              *)
Return ==
  /\ Running("observe") /\ Top.obs = {} /\ Top.act = "EXIT"
  /\ ~(Top.again /\ Top.result # "STOPPED")
  /\ frames' = Pop(frames)
  /\ mode_stack' = Pop(mode_stack)
  /\ answered' = IF Top.result = "STOPPED" THEN answered + 1 ELSE answered
  /\ UNCHANGED <<modes, common_modes, stopped, signaled, fire_date, clock, pending, stops>>

RunAgain ==
  /\ Running("observe") /\ Top.obs = {} /\ Top.act = "EXIT"
  /\ Top.again /\ Top.result # "STOPPED"
  /\ modes' = WithModes({Default})
  /\ IF stopped
     THEN /\ stopped' = FALSE
          /\ answered' = answered + 1
          /\ frames' = Pop(frames)
          /\ mode_stack' = Pop(mode_stack)
     ELSE /\ SetTop(NewFrame(Default, TRUE, FALSE, TRUE))
          /\ mode_stack' = Append(Pop(mode_stack), Default)
          /\ UNCHANGED <<stopped, answered>>
  /\ UNCHANGED <<common_modes, signaled, fire_date, clock, pending, stops>>

LoopStep ==
  \/ FireObserver \/ EntryDone \/ BeforeDone \/ CheckSource \/ Perform \/ SourcesDone
  \/ CheckTimer \/ TimersDone \/ WaitTimesOut \/ AfterWaiting \/ Return \/ RunAgain

-----------------------------------------------------------------------------
(* A callback returns into the loop. *)

ObserverReturns ==
  /\ Running("in_observer")
  /\ SetTop([Top EXCEPT !.pc = "observe"])
  /\ UNCHANGED <<loop, clock, pending, stops, answered>>

(* Mutant: a source is looked at again until its flag stays down. *)
AfterCallback_rescan(f, pc) ==
  IF f.ras THEN Leaving(f, "HANDLED_SOURCE")
  ELSE [f EXCEPT !.pc = pc, !.item = Null,
                 !.todo = IF pc = "sources" THEN f.todo \cup {f.item} ELSE f.todo]

(* With return_after_source the run is over after one dispatch. *)
AfterCallback(f, pc) ==
  IF f.ras THEN Leaving(f, "HANDLED_SOURCE") ELSE [f EXCEPT !.pc = pc, !.item = Null]

(* Mutant: the flag is cleared after the callback, too. *)
SourceReturns_clearing ==
  /\ Running("in_source")
  /\ SetTop(AfterCallback(Top, "sources"))
  /\ signaled' = [signaled EXCEPT ![Top.item] = FALSE]
  /\ UNCHANGED <<modes, common_modes, mode_stack, stopped, fire_date, clock, pending,
                 stops, answered>>

SourceReturns ==
  /\ Running("in_source")
  /\ SetTop(AfterCallback(Top, "sources"))
  /\ UNCHANGED <<loop, clock, pending, stops, answered>>

NextDate(f) == IF Interval[f.item] > 0 THEN f.now + Interval[f.item] ELSE Never

TimerReturns ==
  /\ Running("in_timer")
  /\ fire_date' = [fire_date EXCEPT ![Top.item] = NextDate(Top)]
  /\ SetTop(AfterCallback(Top, "timers"))
  /\ UNCHANGED <<modes, common_modes, mode_stack, stopped, signaled, clock, pending,
                 stops, answered>>

CallbackReturns == ObserverReturns \/ SourceReturns \/ TimerReturns

Tick ==
  /\ clock < MaxClock
  /\ clock' = clock + 1
  /\ UNCHANGED <<loop, frames, pending, stops, answered>>

Guest ==
  \/ \E m \in Mode :
       \/ \E s \in Sources : /\ <<"sources", s, m>> \in Sites
                             /\ CFRunLoopAddSource(s, m) \/ CFRunLoopRemoveSource(s, m)
       \/ \E t \in Timers : /\ <<"timers", t, m>> \in Sites
                            /\ CFRunLoopAddTimer(t, m) \/ CFRunLoopRemoveTimer(t, m)
       \/ \E o \in Observers : /\ <<"observers", o, m>> \in Sites
                               /\ CFRunLoopAddObserver(o, m) \/ CFRunLoopRemoveObserver(o, m)
  \/ \E m \in UserModes : CFRunLoopAddCommonMode(m)
  \/ \E c \in Calls : CFRunLoopRunInMode(c[1], c[2], c[3])
  \/ CFRunLoopRun

Anyone == (\E s \in Sources : CFRunLoopSourceSignal(s)) \/ CFRunLoopStop

Next == LoopStep \/ CallbackReturns \/ Guest \/ Anyone \/ WaitInterrupted \/ Tick

Spec == Init /\ [][Next]_vars

(* The thread is scheduled, and each callback returns in the end, however  *)
(* often it runs the loop itself.                                          *)
FairSpec ==
  /\ Spec
  /\ WF_vars(LoopStep)
  /\ \A d \in 1 .. MaxDepth : SF_vars(Depth = d /\ CallbackReturns)

-----------------------------------------------------------------------------
(* Properties. *)

TypeOK ==
  /\ DOMAIN modes \subseteq Mode
  /\ modes \in [DOMAIN modes -> Registry]
  /\ common_modes \subseteq Mode
  /\ mode_stack \in Seq(Mode)
  /\ stopped \in BOOLEAN
  /\ signaled \in [Sources -> BOOLEAN]
  /\ fire_date \in [Timers -> Time]
  /\ clock \in 0 .. MaxClock
  /\ frames \in Seq(Frame)
  /\ pending \in [Sources -> BOOLEAN]
  /\ stops \in 0 .. MaxStops
  /\ answered \in Nat

(* The stack of entered modes is that of the calls in progress, on every   *)
(* way out of CFRunLoopRunInMode: refused at entry, early return, stop,    *)
(* time-out, and the repetition in CFRunLoopRun.                           *)
ModeStackMatches == mode_stack = [d \in DOMAIN frames |-> frames[d].mode]

(* A signal is never lost: until perform begins once more the flag is up,  *)
(* or the source has just been taken for dispatch.  Signals come from      *)
(* other threads and from the callback itself.                             *)
NoSignalLost ==
  \A s \in Sources :
    pending[s] => \/ signaled[s]
                  \/ \E d \in DOMAIN frames : frames[d].pc = "perform" /\ frames[d].item = s

(* "source registered in default mode should NOT fire when running in      *)
(* tracking mode": a run dispatches sources and timers of its own mode     *)
(* only, or ones a callback took out of that mode since the run began.     *)
DispatchesOwnMode ==
  \A d \in DOMAIN frames :
    frames[d].pc \in {"perform", "in_source", "in_timer"} =>
      frames[d].item \in In("sources", frames[d].mode) \cup In("timers", frames[d].mode)
                        \cup frames[d].gone

(* A run that gets as far as waiting has dispatched all that was ready in  *)
(* its mode when it began - itself or through a run nested in it - except  *)
(* what was taken out of the mode meanwhile.                               *)
ReadyIsServed ==
  \A d \in DOMAIN frames :
    \/ frames[d].pc = "wait"
    \/ frames[d].act \in {"BEFORE_WAITING", "AFTER_WAITING"}
    \/ frames[d].act = "EXIT" /\ frames[d].result # "HANDLED_SOURCE"
    => frames[d].duty = {}

(* One CFRunLoopStop ends at most one run, although every nested run looks *)
(* at the same flag.                                                       *)
StopEndsOneRun ==
  answered + Cardinality({d \in DOMAIN frames : frames[d].result = "STOPPED"})
           + (IF stopped THEN 1 ELSE 0) <= stops

(* A run of the loop ends, however many sources are signalled again and    *)
(* again, unless the thread falls asleep in a wait without time-out, which *)
(* neither a signal nor CFRunLoopStop nor CFRunLoopWakeUp ends.            *)
Asleep == \E d \in DOMAIN frames : frames[d].pc = "wait" /\ frames[d].forever
RunsEnd == frames # <<>> ~> frames = <<>> \/ Asleep
=============================================================================
