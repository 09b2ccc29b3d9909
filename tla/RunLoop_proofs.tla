---------------------------- MODULE RunLoop_proofs ----------------------------
(***************************************************************************)
(* Proofs about RunLoop, for any number of sources, timers, observers and  *)
(* nested runs: the stack of modes is that of the runs in progress, no     *)
(* signal is lost, a run dispatches what is or was in its own mode, a stop *)
(* ends one run, and a run waits only when it has served what was ready.   *)
(***************************************************************************)
EXTENDS RunLoop, SequenceTheorems, FiniteSetTheorems, TLAPS

(* The shape of the state, as far as the arguments need it. *)
Shape ==
  /\ DOMAIN modes \subseteq Mode /\ \A m \in DOMAIN modes : modes[m] \in Registry
  /\ common_modes \subseteq Mode
  /\ clock \in 0 .. MaxClock
  /\ signaled \in [Sources -> BOOLEAN] /\ pending \in [Sources -> BOOLEAN]
  /\ mode_stack \in Seq(Mode) /\ frames \in Seq(Frame)

InStep ==
  /\ Len(mode_stack) = Len(frames)
  /\ \A d \in DOMAIN frames : mode_stack[d] = frames[d].mode

(* What a run has in hand, the snapshot and the item in dispatch, is in    *)
(* its mode or was taken out of it; there is an item just in a dispatch.   *)
Dispatching == {"perform", "in_source", "in_timer"}
Allowed(m, gone) == In("sources", m) \cup In("timers", m) \cup gone
Good(f) ==
  /\ f.todo \subseteq Allowed(f.mode, f.gone)
  /\ f.item = Null \/ f.item \in Allowed(f.mode, f.gone)
  /\ f.pc \in Dispatching <=> f.item # Null
AllGood == \A d \in DOMAIN frames : Good(frames[d])

Inv == Shape /\ InStep /\ NoSignalLost /\ AllGood

LEMMA InTyped ==
  ASSUME Shape, NEW m
  PROVE  /\ In("sources", m) \subseteq Sources /\ In("timers", m) \subseteq Timers
         /\ In("observers", m) \subseteq Observers
BY DEF Shape, In, Registry

LEMMA TopTyped ==
  ASSUME Shape, frames # <<>>
  PROVE  Depth \in DOMAIN frames /\ Top \in Frame /\ Depth \in Nat /\ Depth >= 1 /\ DOMAIN frames = 1 .. Depth
<1>1. Len(frames) \in Nat /\ Len(frames) # 0 /\ DOMAIN frames = 1 .. Len(frames) BY DEF Shape
<1>2. Len(frames) \in DOMAIN frames BY <1>1
<1> QED BY <1>1, <1>2 DEF Shape, Depth, Top

LEMMA SetTopDoes ==
  ASSUME Shape, frames # <<>>, NEW f \in Frame, SetTop(f)
  PROVE  /\ frames' \in Seq(Frame) /\ Len(frames') = Len(frames) /\ DOMAIN frames' = DOMAIN frames
         /\ frames'[Depth] = f /\ \A d \in DOMAIN frames \ {Depth} : frames'[d] = frames[d]
<1>1. Depth \in DOMAIN frames /\ frames \in Seq(Frame) BY TopTyped DEF Shape
<1>2. frames' = [frames EXCEPT ![Depth] = f] BY DEF SetTop
<1> QED BY <1>1, <1>2

(* A step of the innermost run that touches no registry and no flag of a   *)
(* source.                                                                 *)
LEMMA TopMoves ==
  ASSUME Inv, frames # <<>>, NEW f \in Frame, SetTop(f), f.mode = Top.mode, Good(f),
         Top.pc # "perform",
         UNCHANGED <<modes, common_modes, mode_stack, signaled, clock, pending>>
  PROVE  Inv'
<1>1. /\ frames' \in Seq(Frame) /\ Len(frames') = Len(frames) /\ DOMAIN frames' = DOMAIN frames
      /\ frames'[Depth] = f /\ \A d \in DOMAIN frames \ {Depth} : frames'[d] = frames[d]
      BY SetTopDoes DEF Inv
<1>2. Top = frames[Depth] BY DEF Top
<1>3. Shape' BY <1>1 DEF Inv, Shape
<1>4. InStep' BY <1>1, <1>2 DEF Inv, InStep
<1>5. \A d \in DOMAIN frames : frames[d].pc = "perform" => frames'[d] = frames[d]
      BY <1>1, <1>2
<1>6. NoSignalLost' BY <1>1, <1>5 DEF Inv, NoSignalLost
<1>8. \A d \in DOMAIN frames' : Good(frames'[d])
      BY <1>1 DEF Inv, AllGood
<1>9. AllGood' BY <1>8 DEF AllGood, Good, Allowed, In
<1> QED BY <1>3, <1>4, <1>6, <1>9 DEF Inv

LEMMA InvInit == Init => Inv
<1> SUFFICES ASSUME Init PROVE Inv OBVIOUS
<1>1. Shape BY RunLoopAssumption DEF Init, Shape, Mode, Registry, NoneIn
<1>2. InStep /\ AllGood BY DEF Init, InStep, AllGood
<1>3. NoSignalLost BY DEF Init, NoSignalLost
<1> QED BY <1>1, <1>2, <1>3 DEF Inv

LEMMA ObservingTyped ==
  ASSUME Shape, NEW f \in Frame, NEW act \in Activity
  PROVE  LET g == Observing(f, act)
         IN  /\ g \in Frame /\ g.mode = f.mode /\ g.pc = "observe" /\ g.todo = f.todo
             /\ g.item = f.item /\ g.gone = f.gone
<1>1. ToFire(f.mode, act) \subseteq Observers BY InTyped DEF ToFire
<1> DEFINE obs == ToFire(f.mode, act)
           g == [f EXCEPT !.pc = "observe", !.act = act, !.obs = obs]
<1>2. Observing(f, act) = g BY DEF Observing
<1> HIDE DEF obs
<1>3. obs \subseteq Observers BY <1>1 DEF obs
<1>4. g \in Frame BY <1>3 DEF Frame, LoopPC
<1>5. g.mode = f.mode /\ g.pc = "observe" /\ g.todo = f.todo /\ g.item = f.item /\ g.gone = f.gone
      BY DEF Frame
<1> QED BY <1>2, <1>4, <1>5

LEMMA LeavingTyped ==
  ASSUME Shape, NEW f \in Frame, NEW r \in Result
  PROVE  Leaving(f, r) \in Frame /\ Leaving(f, r).mode = f.mode /\ Good(Leaving(f, r))
<1> DEFINE g == Observing(f, "EXIT")
           h == [g EXCEPT !.result = r, !.todo = {}, !.item = Null, !.now = 0, !.gone = {}]
<1>0. "EXIT" \in Activity BY DEF Activity
<1>1. g \in Frame /\ g.mode = f.mode /\ g.pc = "observe" BY <1>0, ObservingTyped
<1>2. 0 \in Time BY RunLoopAssumption DEF Time, Never
<1>3. Leaving(f, r) = h BY DEF Leaving
<1> HIDE DEF g
<1>4. h \in Frame /\ h.mode = f.mode /\ h.todo = {} /\ h.item = Null /\ h.pc = "observe"
      BY <1>1, <1>2 DEF Frame
<1> HIDE DEF h
<1> QED BY <1>3, <1>4 DEF Good, Dispatching

LEMMA NewFrameTyped ==
  ASSUME Shape, NEW m \in Mode, NEW forever \in BOOLEAN, NEW ras \in BOOLEAN, NEW again \in BOOLEAN
  PROVE  /\ NewFrame(m, forever, ras, again) \in Frame
         /\ NewFrame(m, forever, ras, again).mode = m /\ Good(NewFrame(m, forever, ras, again))
<1> DEFINE f == NewFrame(m, forever, ras, again)
<1>1. ToFire(m, "ENTRY") \subseteq Observers BY InTyped DEF ToFire
<1>2. {s \in In("sources", m) : signaled[s]} \cup {t \in In("timers", m) : clock >= fire_date[t]} \subseteq Item
      BY InTyped DEF Item
<1>3. 0 \in Time BY RunLoopAssumption DEF Time, Never
<1>4. f \in Frame BY <1>1, <1>2, <1>3 DEF NewFrame, Frame, LoopPC, Activity, Result
<1>5. f.mode = m /\ f.todo = {} /\ f.item = Null /\ f.pc = "observe" BY DEF NewFrame
<1> HIDE DEF f
<1>6. Good(f) BY <1>5 DEF Good, Dispatching
<1> QED BY <1>4, <1>5, <1>6 DEF f

(* The steps of the innermost run that TopMoves covers. *)
LEMMA QuietSteps ==
  ASSUME Inv,
         \/ FireObserver \/ EntryDone \/ BeforeDone \/ SourcesDone \/ TimersDone
         \/ WaitTimesOut \/ WaitInterrupted \/ AfterWaiting
         \/ ObserverReturns \/ SourceReturns \/ TimerReturns
  PROVE  Inv'
<1> USE DEF Running, loop
<1>a. {"BEFORE_SOURCES", "BEFORE_TIMERS", "BEFORE_WAITING", "AFTER_WAITING"} \subseteq Activity BY DEF Activity
<1>0. Shape /\ (frames # <<>> => Top \in Frame /\ Good(Top))
      BY TopTyped DEF Inv, AllGood, Top
<1>1. CASE FireObserver
  <2>1. PICK o \in Top.obs : SetTop([Top EXCEPT !.obs = Top.obs \ {o}, !.pc = "in_observer"])
        BY <1>1 DEF FireObserver
  <2> DEFINE f == [Top EXCEPT !.obs = Top.obs \ {o}, !.pc = "in_observer"]
  <2>2. frames # <<>> /\ Top.pc = "observe" BY <1>1 DEF FireObserver
  <2>3. f \in Frame /\ f.mode = Top.mode BY <1>0, <2>2 DEF Frame, CallbackPC
  <2>4. Good(f) BY <1>0, <2>2 DEF Good, Frame, Dispatching
  <2> QED BY <1>1, <2>1, <2>2, <2>3, <2>4, TopMoves DEF FireObserver
<1>2. CASE EntryDone
  <2> DEFINE g == Observing(Top, "BEFORE_SOURCES")
             f == [g EXCEPT !.todo = SourcesOf(Top.mode)]
  <2>1. frames # <<>> /\ Top.pc = "observe" /\ SetTop(f) BY <1>2 DEF EntryDone
  <2>2. g \in Frame /\ g.mode = Top.mode /\ g.item = Top.item /\ g.gone = Top.gone /\ g.pc = "observe"
        BY <1>0, <1>a, <2>1, ObservingTyped
  <2>3. SourcesOf(Top.mode) = In("sources", Top.mode) /\ SourcesOf(Top.mode) \subseteq Item
        BY <1>0, InTyped DEF SourcesOf, Item
  <2> HIDE DEF g
  <2>4. f \in Frame /\ f.mode = Top.mode BY <2>2, <2>3 DEF Frame
  <2>5. Good(f) BY <1>0, <2>1, <2>2, <2>3 DEF Good, Frame, Dispatching, Allowed
  <2> QED BY <1>2, <2>1, <2>4, <2>5, TopMoves DEF EntryDone
<1>3. CASE BeforeDone
  <2> DEFINE f == [Top EXCEPT !.pc = PhaseAfter(Top.act)]
  <2>1. frames # <<>> /\ Top.pc = "observe" /\ SetTop(f) BY <1>3 DEF BeforeDone
  <2>2. f \in Frame /\ f.mode = Top.mode BY <1>0, <2>1 DEF Frame, PhaseAfter, LoopPC
  <2>a. f.todo = Top.todo /\ f.gone = Top.gone /\ f.item = Top.item /\ f.pc \in {"sources", "timers", "wait"}
        BY <1>0, <2>1 DEF Frame, PhaseAfter
  <2>3. Good(f) BY <1>0, <2>1, <2>2, <2>a DEF Good, Dispatching
  <2> QED BY <1>3, <2>1, <2>2, <2>3, TopMoves DEF BeforeDone
<1>4. CASE SourcesDone
  <2> DEFINE g == Observing(Top, "BEFORE_TIMERS")
             f == [g EXCEPT !.now = clock, !.gone = {}, !.todo = In("timers", Top.mode)]
  <2>1. frames # <<>> /\ Top.pc = "sources" /\ SetTop(f) BY <1>4 DEF SourcesDone
  <2>2. g \in Frame /\ g.mode = Top.mode /\ g.item = Top.item /\ g.pc = "observe"
        BY <1>0, <1>a, <2>1, ObservingTyped
  <2>3. In("timers", Top.mode) \subseteq Item /\ clock \in Time
        BY <1>0, InTyped, RunLoopAssumption DEF Item, Shape, Time, Never
  <2>4. Top.item = Null BY <1>0, <2>1 DEF Good, Dispatching
  <2> HIDE DEF g
  <2>5. f \in Frame /\ f.mode = Top.mode BY <2>2, <2>3 DEF Frame
  <2>6. Good(f) BY <2>2, <2>4 DEF Good, Frame, Dispatching, Allowed
  <2> QED BY <1>4, <2>1, <2>5, <2>6, TopMoves DEF SourcesDone
<1>5. CASE TimersDone
  <2> DEFINE g == Observing(Top, "BEFORE_WAITING")
             f == [g EXCEPT !.now = 0, !.gone = {}]
  <2>1. frames # <<>> /\ Top.pc = "timers" /\ Top.todo = {} /\ SetTop(f) BY <1>5 DEF TimersDone
  <2>2. g \in Frame /\ g.mode = Top.mode /\ g.item = Top.item /\ g.pc = "observe" /\ g.todo = {}
        BY <1>0, <1>a, <2>1, ObservingTyped
  <2>3. Top.item = Null /\ 0 \in Time
        BY <1>0, <2>1, RunLoopAssumption DEF Good, Dispatching, Time, Never
  <2> HIDE DEF g
  <2>5. f \in Frame /\ f.mode = Top.mode BY <2>2, <2>3 DEF Frame
  <2>6. Good(f) BY <2>2, <2>3 DEF Good, Frame, Dispatching
  <2> QED BY <1>5, <2>1, <2>5, <2>6, TopMoves DEF TimersDone
<1>6. CASE WaitTimesOut \/ WaitInterrupted
  <2> DEFINE f == Observing(Top, "AFTER_WAITING")
  <2>1. frames # <<>> /\ Top.pc = "wait" /\ SetTop(f) BY <1>6 DEF WaitTimesOut, WaitInterrupted
  <2>2. /\ f \in Frame /\ f.mode = Top.mode /\ f.item = Top.item /\ f.todo = Top.todo
        /\ f.gone = Top.gone /\ f.pc = "observe"
        BY <1>0, <1>a, <2>1, ObservingTyped
  <2>3. Good(f) BY <1>0, <2>1, <2>2 DEF Good, Dispatching
  <2> QED BY <1>6, <2>1, <2>2, <2>3, TopMoves DEF WaitTimesOut, WaitInterrupted
<1>7. CASE AfterWaiting
  <2>1. PICK r \in Result : SetTop(Leaving(Top, r))
        BY <1>7 DEF AfterWaiting, Result
  <2>2. frames # <<>> /\ Top.pc = "observe" BY <1>7 DEF AfterWaiting
  <2>3. Leaving(Top, r) \in Frame /\ Leaving(Top, r).mode = Top.mode /\ Good(Leaving(Top, r))
        BY <1>0, <2>2, LeavingTyped
  <2> QED BY <1>7, <2>1, <2>2, <2>3, TopMoves DEF AfterWaiting
<1>8. CASE ObserverReturns
  <2> DEFINE f == [Top EXCEPT !.pc = "observe"]
  <2>1. frames # <<>> /\ Top.pc = "in_observer" /\ SetTop(f) BY <1>8 DEF ObserverReturns
  <2>2. f \in Frame /\ f.mode = Top.mode BY <1>0, <2>1 DEF Frame, LoopPC
  <2>3. Good(f) BY <1>0, <2>1 DEF Good, Frame, Dispatching
  <2> QED BY <1>8, <2>1, <2>2, <2>3, TopMoves DEF ObserverReturns
<1>9. ASSUME frames # <<>>, NEW pc \in {"sources", "timers"}
      PROVE  /\ AfterCallback(Top, pc) \in Frame /\ AfterCallback(Top, pc).mode = Top.mode
             /\ Good(AfterCallback(Top, pc))
  <2>1. CASE Top.ras BY <1>0, <1>9, <2>1, LeavingTyped DEF AfterCallback, Result
  <2>2. CASE ~Top.ras
    <3> DEFINE f == [Top EXCEPT !.pc = pc, !.item = Null]
    <3>1. AfterCallback(Top, pc) = f BY <2>2 DEF AfterCallback
    <3>2. f \in Frame /\ f.mode = Top.mode BY <1>0, <1>9 DEF Frame, LoopPC
    <3>a. f.todo = Top.todo /\ f.gone = Top.gone /\ f.item = Null /\ f.pc = pc BY <1>0, <1>9 DEF Frame
    <3>3. Good(f) BY <1>0, <1>9, <3>2, <3>a DEF Good, Dispatching
    <3> QED BY <3>1, <3>2, <3>3
  <2> QED BY <2>1, <2>2
<1>10. CASE SourceReturns
  <2>1. frames # <<>> /\ Top.pc = "in_source" /\ SetTop(AfterCallback(Top, "sources"))
        BY <1>10 DEF SourceReturns
  <2> QED BY <1>9, <1>10, <2>1, TopMoves DEF SourceReturns
<1>11. CASE TimerReturns
  <2>1. frames # <<>> /\ Top.pc = "in_timer" /\ SetTop(AfterCallback(Top, "timers"))
        BY <1>11 DEF TimerReturns
  <2> QED BY <1>9, <1>11, <2>1, TopMoves DEF TimerReturns
<1> QED BY <1>1, <1>2, <1>3, <1>4, <1>5, <1>6, <1>7, <1>8, <1>10, <1>11

-----------------------------------------------------------------------------
(* Steps that change more than the innermost run. *)

LEMMA FcnIsSeq ==
  ASSUME NEW n \in Nat, NEW S, NEW q \in [1 .. n -> S]
  PROVE  q \in Seq(S) /\ Len(q) = n /\ DOMAIN q = 1 .. n
<1>1. q \in Seq(S) BY SeqDef
<1>2. DOMAIN q = 1 .. n /\ DOMAIN q = 1 .. Len(q) /\ Len(q) \in Nat BY <1>1
<1>3. Len(q) = n BY <1>2
<1> QED BY <1>1, <1>2, <1>3

(* Two frames that differ in nothing the invariant looks at. *)
Alike(f, g) ==
  /\ f.mode = g.mode /\ f.pc = g.pc /\ f.todo = g.todo /\ f.item = g.item /\ f.gone = g.gone

LEMMA DispatchedDoes ==
  ASSUME Shape, frames # <<>>, NEW i, NEW f \in Frame, frames' = Dispatched(i, f)
  PROVE  /\ frames' \in Seq(Frame) /\ Len(frames') = Len(frames) /\ DOMAIN frames' = DOMAIN frames
         /\ Alike(frames'[Depth], f)
         /\ \A d \in DOMAIN frames \ {Depth} : Alike(frames'[d], frames[d])
<1>1. Depth \in DOMAIN frames /\ DOMAIN frames = 1 .. Depth /\ Depth \in Nat /\ Len(frames) = Depth
      BY TopTyped DEF Depth
<1>2. \A d \in DOMAIN frames : frames[d] \in Frame BY DEF Shape
<1>3. ASSUME NEW g \in Frame
      PROVE  [g EXCEPT !.duty = g.duty \ {i}] \in Frame /\ Alike([g EXCEPT !.duty = g.duty \ {i}], g)
      BY DEF Frame, Alike
<1>4. frames' = [d \in DOMAIN frames |->
                   LET g == IF d = Depth THEN f ELSE frames[d] IN [g EXCEPT !.duty = g.duty \ {i}]]
      BY DEF Dispatched
<1>a. ASSUME NEW d \in DOMAIN frames
      PROVE  (LET g == IF d = Depth THEN f ELSE frames[d] IN [g EXCEPT !.duty = g.duty \ {i}]) \in Frame
  <2>1. PICK g \in Frame : g = IF d = Depth THEN f ELSE frames[d] BY <1>2
  <2> QED BY <1>3, <2>1
<1>5. frames' \in [1 .. Depth -> Frame] BY <1>1, <1>4, <1>a
<1>6. \A d \in DOMAIN frames : Alike(frames'[d], IF d = Depth THEN f ELSE frames[d])
      BY <1>2, <1>3, <1>4
<1> QED BY <1>1, <1>5, <1>6, FcnIsSeq

(* The registries as they are: frames alike are good alike. *)
LEMMA FramesChange ==
  ASSUME Inv, Shape', UNCHANGED <<modes, mode_stack>>,
         Len(frames') = Len(frames), DOMAIN frames' = DOMAIN frames,
         \A d \in DOMAIN frames : frames'[d].mode = frames[d].mode /\ Good(frames'[d])
  PROVE  InStep' /\ AllGood'
<1>1. InStep' BY DEF Inv, InStep
<1>2. AllGood' BY DEF AllGood, Good, Allowed, In
<1> QED BY <1>1, <1>2

LEMMA CheckSourceKeeps ==
  ASSUME Inv, CheckSource
  PROVE  Inv'
<1>0. /\ Shape /\ frames # <<>> /\ Top \in Frame /\ Good(Top) /\ Top.pc = "sources" /\ Top = frames[Depth]
      /\ Depth \in DOMAIN frames
      BY TopTyped DEF Inv, AllGood, CheckSource, Running, Top
<1>1. PICK s \in Top.todo :
        IF signaled[s]
        THEN /\ signaled' = [signaled EXCEPT ![s] = FALSE]
             /\ SetTop([Top EXCEPT !.pc = "perform", !.item = s, !.todo = Top.todo \ {s}])
        ELSE /\ SetTop([Top EXCEPT !.todo = Top.todo \ {s}])
             /\ UNCHANGED signaled
      BY DEF CheckSource
<1>2. UNCHANGED <<modes, common_modes, mode_stack, clock, pending>> BY DEF CheckSource
<1>3. CASE signaled[s]
  <2> DEFINE f == [Top EXCEPT !.pc = "perform", !.item = s, !.todo = Top.todo \ {s}]
  <2>1. /\ f \in Frame /\ f.mode = Top.mode /\ f.pc = "perform" /\ f.item = s
        /\ f.todo = Top.todo \ {s} /\ f.gone = Top.gone
        BY <1>0 DEF Frame, LoopPC
  <2>2. SetTop(f) /\ signaled' = [signaled EXCEPT ![s] = FALSE] BY <1>1, <1>3
  <2> HIDE DEF f
  <2>a. s # Null BY <1>0, RunLoopAssumption DEF Frame
  <2>3. Good(f) BY <1>0, <2>1, <2>a DEF Good, Dispatching
  <2>4. /\ frames' \in Seq(Frame) /\ Len(frames') = Len(frames) /\ DOMAIN frames' = DOMAIN frames
        /\ frames'[Depth] = f /\ \A d \in DOMAIN frames \ {Depth} : frames'[d] = frames[d]
        BY <1>0, <2>1, <2>2, SetTopDoes
  <2>5. signaled' \in [Sources -> BOOLEAN] BY <2>2 DEF Inv, Shape
  <2>6. Shape' BY <1>2, <2>4, <2>5 DEF Inv, Shape
  <2>7. \A d \in DOMAIN frames : frames'[d].mode = frames[d].mode /\ Good(frames'[d])
        BY <1>0, <2>1, <2>3, <2>4 DEF Inv, AllGood
  <2>8. InStep' /\ AllGood' BY <1>2, <2>4, <2>6, <2>7, FramesChange
  <2>9. ASSUME NEW r \in Sources, pending'[r]
        PROVE  signaled'[r] \/ \E d \in DOMAIN frames' : frames'[d].pc = "perform" /\ frames'[d].item = r
    <3>1. CASE r = s BY <1>0, <2>1, <2>4, <3>1
    <3>2. CASE r # s
      <4>1. pending[r] BY <1>2, <2>9
      <4>2. CASE signaled[r]
        <5>1. signaled'[r] = signaled[r] BY <2>2, <3>2 DEF Inv, Shape
        <5> QED BY <4>2, <5>1
      <4>3. CASE ~signaled[r]
        <5>1. PICK d \in DOMAIN frames : frames[d].pc = "perform" /\ frames[d].item = r
              BY <4>1, <4>3 DEF Inv, NoSignalLost
        <5>2. d # Depth BY <1>0, <5>1
        <5> QED BY <2>4, <5>1, <5>2
      <4> QED BY <4>2, <4>3
    <3> QED BY <3>1, <3>2
  <2>10. NoSignalLost' BY <2>9 DEF NoSignalLost
  <2> QED BY <2>6, <2>8, <2>10 DEF Inv
<1>4. CASE ~signaled[s]
  <2> DEFINE f == [Top EXCEPT !.todo = Top.todo \ {s}]
  <2>1. /\ f \in Frame /\ f.mode = Top.mode /\ f.pc = Top.pc /\ f.item = Top.item
        /\ f.todo = Top.todo \ {s} /\ f.gone = Top.gone
        BY <1>0 DEF Frame
  <2>2. SetTop(f) /\ UNCHANGED signaled BY <1>1, <1>4
  <2> HIDE DEF f
  <2>3. Good(f) BY <1>0, <2>1 DEF Good
  <2> QED BY <1>0, <1>2, <2>1, <2>2, <2>3, TopMoves
<1> QED BY <1>3, <1>4

LEMMA PerformKeeps ==
  ASSUME Inv, Perform
  PROVE  Inv'
<1>0. /\ Shape /\ frames # <<>> /\ Top \in Frame /\ Good(Top) /\ Top.pc = "perform" /\ Top = frames[Depth]
      /\ Depth \in DOMAIN frames
      BY TopTyped DEF Inv, AllGood, Perform, Running, Top
<1> DEFINE f == [Top EXCEPT !.pc = "in_source"]
<1>1. /\ f \in Frame /\ f.mode = Top.mode /\ f.pc = "in_source" /\ f.item = Top.item
      /\ f.todo = Top.todo /\ f.gone = Top.gone
      BY <1>0 DEF Frame, CallbackPC
<1>2. frames' = Dispatched(Top.item, f) /\ pending' = [pending EXCEPT ![Top.item] = FALSE]
      BY DEF Perform
<1>3. UNCHANGED <<modes, common_modes, mode_stack, signaled, clock>> BY DEF Perform, loop
<1> HIDE DEF f
<1>4. /\ frames' \in Seq(Frame) /\ Len(frames') = Len(frames) /\ DOMAIN frames' = DOMAIN frames
      /\ Alike(frames'[Depth], f) /\ \A d \in DOMAIN frames \ {Depth} : Alike(frames'[d], frames[d])
      BY <1>0, <1>1, <1>2, DispatchedDoes
<1>5. pending' \in [Sources -> BOOLEAN] BY <1>2 DEF Inv, Shape
<1>6. Shape' BY <1>3, <1>4, <1>5 DEF Inv, Shape
<1>7. Good(f) BY <1>0, <1>1 DEF Good, Dispatching
<1>8. \A d \in DOMAIN frames : frames'[d].mode = frames[d].mode /\ Good(frames'[d])
      BY <1>0, <1>1, <1>4, <1>7 DEF Inv, AllGood, Alike, Good
<1>9. InStep' /\ AllGood' BY <1>3, <1>4, <1>6, <1>8, FramesChange
<1>10. ASSUME NEW r \in Sources, pending'[r]
       PROVE  signaled'[r] \/ \E d \in DOMAIN frames' : frames'[d].pc = "perform" /\ frames'[d].item = r
  <2>1. r # Top.item BY <1>2, <1>10 DEF Inv, Shape
  <2>2. pending'[r] = pending[r] BY <1>2, <2>1 DEF Inv, Shape
  <2>3. pending[r] BY <1>10, <2>2
  <2>4. CASE signaled[r] BY <1>3, <2>4
  <2>5. CASE ~signaled[r]
    <3>1. PICK d \in DOMAIN frames : frames[d].pc = "perform" /\ frames[d].item = r
          BY <2>3, <2>5 DEF Inv, NoSignalLost
    <3>2. d # Depth BY <1>0, <2>1, <3>1
    <3> QED BY <1>4, <3>1, <3>2 DEF Alike
  <2> QED BY <2>4, <2>5
<1>11. NoSignalLost' BY <1>10 DEF NoSignalLost
<1> QED BY <1>6, <1>9, <1>11 DEF Inv

LEMMA CheckTimerKeeps ==
  ASSUME Inv, CheckTimer
  PROVE  Inv'
<1>0. /\ Shape /\ frames # <<>> /\ Top \in Frame /\ Good(Top) /\ Top.pc = "timers" /\ Top = frames[Depth]
      /\ Depth \in DOMAIN frames
      BY TopTyped DEF Inv, AllGood, CheckTimer, Running, Top
<1>1. PICK t \in Top.todo :
        frames' = IF Top.now >= fire_date[t]
                  THEN Dispatched(t, [Top EXCEPT !.pc = "in_timer", !.item = t, !.todo = Top.todo \ {t}])
                  ELSE [frames EXCEPT ![Depth].todo = Top.todo \ {t}]
      BY DEF CheckTimer
<1>2. UNCHANGED <<modes, common_modes, mode_stack, signaled, clock, pending>> BY DEF CheckTimer, loop
<1>3. CASE Top.now >= fire_date[t]
  <2> DEFINE f == [Top EXCEPT !.pc = "in_timer", !.item = t, !.todo = Top.todo \ {t}]
  <2>1. /\ f \in Frame /\ f.mode = Top.mode /\ f.pc = "in_timer" /\ f.item = t
        /\ f.todo = Top.todo \ {t} /\ f.gone = Top.gone
        BY <1>0 DEF Frame, CallbackPC
  <2>2. frames' = Dispatched(t, f) BY <1>1, <1>3
  <2> HIDE DEF f
  <2>a. t # Null BY <1>0, RunLoopAssumption DEF Frame
  <2>3. Good(f) BY <1>0, <2>1, <2>a DEF Good, Dispatching
  <2>4. /\ frames' \in Seq(Frame) /\ Len(frames') = Len(frames) /\ DOMAIN frames' = DOMAIN frames
        /\ Alike(frames'[Depth], f) /\ \A d \in DOMAIN frames \ {Depth} : Alike(frames'[d], frames[d])
        BY <1>0, <2>1, <2>2, DispatchedDoes
  <2>5. Shape' BY <1>2, <2>4 DEF Inv, Shape
  <2>6. \A d \in DOMAIN frames : frames'[d].mode = frames[d].mode /\ Good(frames'[d])
        BY <1>0, <2>1, <2>3, <2>4 DEF Inv, AllGood, Alike, Good
  <2>7. InStep' /\ AllGood' BY <1>2, <2>4, <2>5, <2>6, FramesChange
  <2>8. \A d \in DOMAIN frames : frames[d].pc = "perform" => frames'[d].pc = "perform" /\ frames'[d].item = frames[d].item
        BY <1>0, <2>4 DEF Alike
  <2>9. NoSignalLost' BY <1>2, <2>4, <2>8 DEF Inv, NoSignalLost
  <2> QED BY <2>5, <2>7, <2>9 DEF Inv
<1>4. CASE ~(Top.now >= fire_date[t])
  <2> DEFINE f == [Top EXCEPT !.todo = Top.todo \ {t}]
  <2>1. /\ f \in Frame /\ f.mode = Top.mode /\ f.pc = Top.pc /\ f.item = Top.item
        /\ f.todo = Top.todo \ {t} /\ f.gone = Top.gone
        BY <1>0 DEF Frame
  <2>2. frames' = [frames EXCEPT ![Depth].todo = Top.todo \ {t}] BY <1>1, <1>4
  <2>3. SetTop(f) BY <1>0, <2>2 DEF SetTop
  <2> HIDE DEF f
  <2>4. Good(f) BY <1>0, <2>1 DEF Good
  <2> QED BY <1>0, <1>2, <2>1, <2>3, <2>4, TopMoves
<1> QED BY <1>3, <1>4

-----------------------------------------------------------------------------
(* Steps that change the registries. *)

Typed == /\ DOMAIN modes \subseteq Mode /\ \A m \in DOMAIN modes : modes[m] \in Registry

LEMMA WithModesKeeps ==
  ASSUME Shape, NEW ms \in SUBSET Mode, modes' = WithModes(ms)
  PROVE  /\ Typed'
         /\ \A m : In("sources", m)' = In("sources", m)
         /\ \A m : In("timers", m)' = In("timers", m)
<1>1. NoneIn \in Registry /\ NoneIn.sources = {} /\ NoneIn.timers = {} BY DEF NoneIn, Registry
<1>2. DOMAIN modes' = DOMAIN modes \cup ms BY DEF WithModes
<1>3. \A m \in DOMAIN modes' : modes'[m] = IF m \in DOMAIN modes THEN modes[m] ELSE NoneIn
      BY DEF WithModes
<1>4. Typed' BY <1>1, <1>2, <1>3 DEF Shape, Typed
<1>5. ASSUME NEW m PROVE In("sources", m)' = In("sources", m) BY <1>1, <1>2, <1>3 DEF In
<1>6. ASSUME NEW m PROVE In("timers", m)' = In("timers", m) BY <1>1, <1>2, <1>3 DEF In
<1> QED BY <1>4, <1>5, <1>6

(* A good frame stays good when nothing leaves its mode. *)
LEMMA GoodStays ==
  ASSUME NEW f, Good(f),
         \A m : In("sources", m) \subseteq In("sources", m)',
         \A m : In("timers", m) \subseteq In("timers", m)'
  PROVE  Good(f)'
<1>1. Allowed(f.mode, f.gone) \subseteq Allowed(f.mode, f.gone)' BY DEF Allowed
<1> QED BY <1>1 DEF Good

LEMMA PopDoes ==
  ASSUME NEW S, NEW s \in Seq(S), s # <<>>
  PROVE  /\ Pop(s) \in Seq(S) /\ Len(Pop(s)) = Len(s) - 1
         /\ DOMAIN Pop(s) = 1 .. (Len(s) - 1) /\ \A d \in DOMAIN Pop(s) : d \in DOMAIN s /\ Pop(s)[d] = s[d]
<1>1. Len(s) \in Nat /\ Len(s) >= 1 /\ DOMAIN s = 1 .. Len(s) BY EmptySeq
<1>2. Pop(s) \in Seq(S) /\ Len(Pop(s)) = Len(s) - 1 BY <1>1 DEF Pop
<1>3. \A d \in 1 .. (Len(s) - 1) : Pop(s)[d] = s[d] BY <1>1 DEF Pop
<1> QED BY <1>1, <1>2, <1>3

(* The innermost run is over. *)
LEMMA Popped ==
  ASSUME Inv, frames # <<>>, Top.pc # "perform",
         frames' = Pop(frames), mode_stack' = Pop(mode_stack), Typed',
         \A m : In("sources", m)' = In("sources", m), \A m : In("timers", m)' = In("timers", m),
         UNCHANGED <<common_modes, signaled, clock, pending>>
  PROVE  Inv'
<1>0. /\ Shape /\ frames \in Seq(Frame) /\ mode_stack \in Seq(Mode) /\ Len(mode_stack) = Len(frames)
      /\ Top = frames[Depth] /\ Depth = Len(frames) /\ DOMAIN frames = 1 .. Depth /\ Depth \in Nat
      BY TopTyped DEF Inv, Shape, InStep, Top, Depth
<1>1. mode_stack # <<>> BY <1>0
<1>2. /\ frames' \in Seq(Frame) /\ Len(frames') = Depth - 1 /\ DOMAIN frames' = 1 .. (Depth - 1)
      /\ \A d \in DOMAIN frames' : d \in DOMAIN frames /\ frames'[d] = frames[d]
      BY <1>0, PopDoes
<1>3. /\ mode_stack' \in Seq(Mode) /\ Len(mode_stack') = Depth - 1
      /\ \A d \in 1 .. (Depth - 1) : mode_stack'[d] = mode_stack[d]
      BY <1>0, <1>1, PopDoes
<1>4. Shape' BY <1>0, <1>2, <1>3 DEF Shape, Typed
<1>5. InStep' BY <1>2, <1>3 DEF Inv, InStep
<1>6. NoSignalLost'
  <2>1. SUFFICES ASSUME NEW r \in Sources, pending[r], ~signaled[r]
                 PROVE  \E d \in DOMAIN frames' : frames'[d].pc = "perform" /\ frames'[d].item = r
        BY DEF NoSignalLost
  <2>2. PICK d \in DOMAIN frames : frames[d].pc = "perform" /\ frames[d].item = r
        BY <2>1 DEF Inv, NoSignalLost
  <2>3. d # Depth BY <1>0, <2>2
  <2>4. d \in DOMAIN frames' BY <1>0, <1>2, <2>3
  <2> QED BY <1>2, <2>2, <2>4
<1>7. ASSUME NEW d \in DOMAIN frames' PROVE Good(frames[d])'
  <2>1. PICK f : f = frames'[d] OBVIOUS
  <2>2. Good(f) BY <1>2, <2>1 DEF Inv, AllGood
  <2>3. Good(f)' BY <2>2, GoodStays
  <2> QED BY <2>1, <2>3 DEF Good, Allowed, In
<1>8. AllGood' BY <1>7 DEF AllGood
<1> QED BY <1>4, <1>5, <1>6, <1>8 DEF Inv

LEMMA FramesGood ==
  ASSUME \A d \in DOMAIN frames' : Good(frames'[d]),
         \A m : In("sources", m) \subseteq In("sources", m)',
         \A m : In("timers", m) \subseteq In("timers", m)'
  PROVE  AllGood'
<1>1. ASSUME NEW d \in DOMAIN frames' PROVE Good(frames[d])'
  <2>1. PICK f : f = frames'[d] OBVIOUS
  <2>2. Good(f)' BY <2>1, GoodStays
  <2> QED BY <2>1, <2>2 DEF Good, Allowed, In
<1> QED BY <1>1 DEF AllGood

LEMMA AppendDoes ==
  ASSUME NEW S, NEW s \in Seq(S), NEW e \in S
  PROVE  /\ Append(s, e) \in Seq(S) /\ Len(Append(s, e)) = Len(s) + 1
         /\ DOMAIN Append(s, e) = 1 .. (Len(s) + 1) /\ DOMAIN s = 1 .. Len(s) /\ Len(s) \in Nat
         /\ Append(s, e)[Len(s) + 1] = e /\ \A d \in 1 .. Len(s) : Append(s, e)[d] = s[d]
OBVIOUS

(* A new run on top of those in progress, or a stop answered at entry. *)
LEMMA Entered ==
  ASSUME Inv, NEW m \in Mode, NEW forever \in BOOLEAN, NEW ras \in BOOLEAN, NEW again \in BOOLEAN,
         Enter(frames, m, forever, ras, again),
         UNCHANGED <<common_modes, signaled, clock, pending>>
  PROVE  Inv'
<1>0. Shape /\ {m} \in SUBSET Mode BY DEF Inv
<1>1. modes' = WithModes({m}) BY DEF Enter
<1>2. /\ Typed' /\ \A n : In("sources", n)' = In("sources", n)
      /\ \A n : In("timers", n)' = In("timers", n)
      BY <1>0, <1>1, WithModesKeeps
<1>3. CASE stopped
  <2>1. UNCHANGED <<frames, mode_stack>> BY <1>3 DEF Enter
  <2>2. Shape' /\ InStep' /\ NoSignalLost'
        BY <1>0, <1>2, <2>1 DEF Inv, Shape, Typed, InStep, NoSignalLost
  <2>3. \A d \in DOMAIN frames' : Good(frames'[d]) BY <2>1 DEF Inv, AllGood
  <2>4. AllGood' BY <1>2, <2>3, FramesGood
  <2> QED BY <2>2, <2>4 DEF Inv
<1>4. CASE ~stopped
  <2> DEFINE f == NewFrame(m, forever, ras, again)
  <2>1. f \in Frame /\ f.mode = m /\ Good(f) BY <1>0, NewFrameTyped
  <2>2. frames' = Append(frames, f) /\ mode_stack' = Append(mode_stack, m) BY <1>4 DEF Enter
  <2> HIDE DEF f
  <2>3. /\ frames' \in Seq(Frame) /\ Len(frames') = Len(frames) + 1 /\ Len(frames) \in Nat
        /\ DOMAIN frames' = 1 .. (Len(frames) + 1) /\ DOMAIN frames = 1 .. Len(frames)
        /\ frames'[Len(frames) + 1] = f /\ \A d \in 1 .. Len(frames) : frames'[d] = frames[d]
        BY <1>0, <2>1, <2>2, AppendDoes DEF Shape
  <2>4. /\ mode_stack' \in Seq(Mode) /\ Len(mode_stack') = Len(frames) + 1
        /\ mode_stack'[Len(frames) + 1] = m
        /\ \A d \in 1 .. Len(frames) : mode_stack'[d] = mode_stack[d]
        BY <1>0, <2>2, AppendDoes DEF Inv, Shape, InStep
  <2>5. \A d \in DOMAIN frames' : d \in DOMAIN frames \/ d = Len(frames) + 1 BY <2>3
  <2>6. Shape' BY <1>0, <1>2, <2>3, <2>4 DEF Shape, Typed
  <2>7. InStep' BY <2>1, <2>3, <2>4, <2>5 DEF Inv, InStep
  <2>8. \A d \in DOMAIN frames : d \in DOMAIN frames' /\ frames'[d] = frames[d] BY <2>3
  <2>9. NoSignalLost' BY <2>8 DEF Inv, NoSignalLost
  <2>10. \A d \in DOMAIN frames' : Good(frames'[d]) BY <2>1, <2>3, <2>5, <2>8 DEF Inv, AllGood
  <2>11. AllGood' BY <1>2, <2>10, FramesGood
  <2> QED BY <2>6, <2>7, <2>9, <2>11 DEF Inv
<1> QED BY <1>3, <1>4

LEMMA ReturnKeeps ==
  ASSUME Inv, Return \/ RunAgain
  PROVE  Inv'
<1>0. /\ Shape /\ frames # <<>> /\ Top.pc = "observe" /\ Top = frames[Depth] /\ Depth \in DOMAIN frames
      /\ Depth = Len(frames) /\ DOMAIN frames = 1 .. Depth /\ Depth \in Nat /\ Depth >= 1
      BY TopTyped DEF Inv, Return, RunAgain, Running, Top, Depth
<1>1. CASE Return
  <2>1. Typed' /\ \A m : In("sources", m)' = In("sources", m) BY <1>0, <1>1 DEF Return, Shape, Typed, In
  <2>2. \A m : In("timers", m)' = In("timers", m) BY <1>1 DEF Return, In
  <2> QED BY <1>0, <1>1, <2>1, <2>2, Popped DEF Return
<1>2. CASE RunAgain
  <2>0. Default \in Mode /\ TRUE \in BOOLEAN /\ FALSE \in BOOLEAN BY DEF Mode
  <2>1. /\ Typed' /\ \A m : In("sources", m)' = In("sources", m)
        /\ \A m : In("timers", m)' = In("timers", m)
        BY <1>0, <1>2, <2>0, WithModesKeeps DEF RunAgain
  <2>2. CASE stopped BY <1>0, <1>2, <2>1, <2>2, Popped DEF RunAgain
  <2>3. CASE ~stopped
    <3> DEFINE f == NewFrame(Default, TRUE, FALSE, TRUE)
    <3>1. f \in Frame /\ f.mode = Default /\ Good(f) BY <1>0, <2>0, NewFrameTyped
    <3>2. /\ SetTop(f) /\ mode_stack' = Append(Pop(mode_stack), Default)
          /\ UNCHANGED <<common_modes, signaled, clock, pending>>
          BY <1>2, <2>3 DEF RunAgain
    <3> HIDE DEF f
    <3>3. /\ frames' \in Seq(Frame) /\ Len(frames') = Len(frames) /\ DOMAIN frames' = DOMAIN frames
          /\ frames'[Depth] = f /\ \A d \in DOMAIN frames \ {Depth} : frames'[d] = frames[d]
          BY <1>0, <3>1, <3>2, SetTopDoes
    <3>4. mode_stack \in Seq(Mode) /\ Len(mode_stack) = Depth BY <1>0 DEF Inv, InStep, Shape
    <3>5. mode_stack # <<>> BY <1>0, <3>4
    <3>6. PICK q : q = Pop(mode_stack) OBVIOUS
    <3>7. /\ q \in Seq(Mode) /\ Len(q) = Depth - 1 /\ DOMAIN q = 1 .. (Depth - 1)
          /\ \A d \in DOMAIN q : q[d] = mode_stack[d]
          BY <3>4, <3>5, <3>6, PopDoes
    <3>8. /\ mode_stack' \in Seq(Mode) /\ Len(mode_stack') = Depth /\ mode_stack'[Depth] = Default
          /\ \A d \in 1 .. (Depth - 1) : mode_stack'[d] = q[d]
      <4>1. mode_stack' = Append(q, Default) BY <3>2, <3>6
      <4>2. Len(q) + 1 = Depth BY <1>0, <3>7
      <4> QED BY <2>0, <3>7, <4>1, <4>2, AppendDoes
    <3>9. Shape' BY <1>0, <2>1, <3>2, <3>3, <3>8 DEF Shape, Typed
    <3>10. \A d \in DOMAIN frames : d = Depth \/ d \in 1 .. (Depth - 1) BY <1>0
    <3>11. InStep' BY <1>0, <3>1, <3>3, <3>7, <3>8, <3>10 DEF Inv, InStep
    <3>12. \A d \in DOMAIN frames : frames[d].pc = "perform" => frames'[d] = frames[d] BY <1>0, <3>3
    <3>13. NoSignalLost' BY <3>2, <3>3, <3>12 DEF Inv, NoSignalLost
    <3>14. \A d \in DOMAIN frames' : Good(frames'[d]) BY <3>1, <3>3 DEF Inv, AllGood
    <3>15. AllGood' BY <2>1, <3>14, FramesGood
    <3> QED BY <3>9, <3>11, <3>13, <3>15 DEF Inv
  <2> QED BY <2>2, <2>3
<1> QED BY <1>1, <1>2

LEMMA TargetsTyped ==
  ASSUME Shape, NEW m \in Mode
  PROVE  Targets(m) \in SUBSET Mode
BY DEF Shape, Targets

(* What a registration leaves in the modes. *)
LEMMA AddGrows ==
  ASSUME Shape, NEW kind, NEW i, NEW m \in Mode, Add(kind, i, m),
         \/ kind = "sources" /\ i \in Sources
         \/ kind = "timers" /\ i \in Timers
         \/ kind = "observers" /\ i \in Observers
  PROVE  /\ Typed'
         /\ \A n : In("sources", n) \subseteq In("sources", n)'
         /\ \A n : In("timers", n) \subseteq In("timers", n)'
<1>1. PICK T \in SUBSET Mode : T = Targets(m) BY TargetsTyped
<1>2. PICK W : W = WithModes(T) OBVIOUS
<1>3. DOMAIN W = DOMAIN modes \cup T /\ \A n \in DOMAIN W : W[n] = IF n \in DOMAIN modes THEN modes[n] ELSE NoneIn
      BY <1>2 DEF WithModes
<1>4. \A n \in DOMAIN W : W[n] \in Registry BY <1>3 DEF Shape, Registry, NoneIn
<1>5. \A n : In(kind, n) = IF n \in DOMAIN modes THEN modes[n][kind] ELSE {} BY DEF In
<1>6. modes' = [n \in DOMAIN W |-> IF n \in T THEN [W[n] EXCEPT ![kind] = In(kind, n) \cup {i}] ELSE modes[n]]
      BY <1>1, <1>2 DEF Add
<1>7. DOMAIN modes' = DOMAIN modes \cup T BY <1>3, <1>6
<1>8. ASSUME NEW n \in DOMAIN modes'
      PROVE  /\ modes'[n] \in Registry /\ In("sources", n) \subseteq modes'[n].sources
             /\ In("timers", n) \subseteq modes'[n].timers
  <2>1. CASE n \notin T
    <3>1. modes'[n] = modes[n] /\ n \in DOMAIN modes BY <1>3, <1>6, <1>7, <1>8, <2>1
    <3> QED BY <3>1 DEF Shape, In
  <2>2. CASE n \in T
    <3>1. PICK w \in Registry : w = W[n] BY <1>3, <1>4, <1>7, <1>8
    <3>2. PICK k : k = In(kind, n) \cup {i} OBVIOUS
    <3>3. modes'[n] = [w EXCEPT ![kind] = k] BY <1>3, <1>6, <1>7, <1>8, <2>2, <3>1, <3>2
    <3>4. In("sources", n) \subseteq w.sources /\ In("timers", n) \subseteq w.timers
          BY <1>3, <1>7, <1>8, <3>1 DEF In
    <3>5. CASE kind = "sources"
      <4>1. k \subseteq Sources /\ In("sources", n) \subseteq k BY <3>2, <3>5, InTyped, RunLoopAssumption DEF Item
      <4> QED BY <3>3, <3>4, <3>5, <4>1 DEF Registry
    <3>6. CASE kind = "timers"
      <4>1. k \subseteq Timers /\ In("timers", n) \subseteq k BY <3>2, <3>6, InTyped DEF Item
      <4> QED BY <3>3, <3>4, <3>6, <4>1 DEF Registry
    <3>7. CASE kind = "observers"
      <4>1. k \subseteq Observers BY <3>2, <3>7, InTyped
      <4> QED BY <3>3, <3>4, <3>7, <4>1 DEF Registry
    <3> QED BY <3>5, <3>6, <3>7
  <2> QED BY <2>1, <2>2
<1>9. Typed' BY <1>7, <1>8 DEF Typed, Shape
<1>10. ASSUME NEW n PROVE /\ In("sources", n) \subseteq In("sources", n)'
                          /\ In("timers", n) \subseteq In("timers", n)'
       BY <1>7, <1>8 DEF In
<1> QED BY <1>9, <1>10

LEMMA AddKeeps ==
  ASSUME Inv, NEW kind, NEW i, NEW m \in Mode, Add(kind, i, m),
         \/ kind = "sources" /\ i \in Sources
         \/ kind = "timers" /\ i \in Timers
         \/ kind = "observers" /\ i \in Observers
  PROVE  Inv'
<1>0. Shape BY DEF Inv
<1>1. /\ Typed' /\ \A n : In("sources", n) \subseteq In("sources", n)'
      /\ \A n : In("timers", n) \subseteq In("timers", n)'
      BY <1>0, AddGrows
<1>2. UNCHANGED <<common_modes, mode_stack, signaled, clock, frames, pending>> BY DEF Add
<1>3. Shape' /\ InStep' /\ NoSignalLost' BY <1>1, <1>2 DEF Inv, Shape, Typed, InStep, NoSignalLost
<1>4. \A d \in DOMAIN frames' : Good(frames'[d]) BY <1>2 DEF Inv, AllGood
<1>5. AllGood' BY <1>1, <1>4, FramesGood
<1> QED BY <1>3, <1>5 DEF Inv

(* What a removal leaves in the modes. *)
LEMMA RemoveShrinks ==
  ASSUME Shape, NEW kind \in Kind, NEW i, NEW m \in Mode, Remove(kind, i, m)
  PROVE  /\ Typed'
         /\ \A n : In("sources", n) \ {i} \subseteq In("sources", n)' /\ In("timers", n) \ {i} \subseteq In("timers", n)'
         /\ \A n : n \notin Targets(m) =>
              In("sources", n)' = In("sources", n) /\ In("timers", n)' = In("timers", n)
<1>1. PICK T : T = Targets(m) OBVIOUS
<1>2. modes' = [n \in DOMAIN modes |->
                  IF n \in T THEN [modes[n] EXCEPT ![kind] = modes[n][kind] \ {i}] ELSE modes[n]]
      BY <1>1 DEF Remove
<1>3. ASSUME NEW n \in DOMAIN modes
      PROVE  /\ modes'[n] \in Registry /\ modes[n].sources \ {i} \subseteq modes'[n].sources
             /\ modes[n].timers \ {i} \subseteq modes'[n].timers
             /\ n \notin T => modes'[n] = modes[n]
  <2>1. PICK w \in Registry : w = modes[n] BY <1>3 DEF Shape
  <2>2. CASE n \notin T BY <1>2, <1>3, <2>1, <2>2
  <2>3. CASE n \in T
    <3>1. modes'[n] = [w EXCEPT ![kind] = w[kind] \ {i}] BY <1>2, <1>3, <2>1, <2>3
    <3>2. CASE kind = "sources" BY <2>1, <2>3, <3>1, <3>2 DEF Registry
    <3>3. CASE kind = "timers" BY <2>1, <2>3, <3>1, <3>3 DEF Registry
    <3>4. CASE kind = "observers" BY <2>1, <2>3, <3>1, <3>4 DEF Registry
    <3> QED BY <3>2, <3>3, <3>4 DEF Kind
  <2> QED BY <2>2, <2>3
<1>4. DOMAIN modes' = DOMAIN modes BY <1>2
<1>5. Typed' BY <1>3, <1>4 DEF Typed, Shape
<1>6. ASSUME NEW n
      PROVE  /\ In("sources", n) \ {i} \subseteq In("sources", n)'
             /\ In("timers", n) \ {i} \subseteq In("timers", n)'
             /\ n \notin T => In("sources", n)' = In("sources", n) /\ In("timers", n)' = In("timers", n)
      BY <1>3, <1>4 DEF In
<1> QED BY <1>1, <1>5, <1>6

LEMMA RemoveKeeps ==
  ASSUME Inv, NEW kind \in Kind, NEW i \in Item, NEW m \in Mode, Remove(kind, i, m)
  PROVE  Inv'
<1>0. Shape /\ frames \in Seq(Frame) BY DEF Inv, Shape
<1>1. PICK T : T = Targets(m) OBVIOUS
<1>2. /\ Typed' /\ \A n : In("sources", n) \ {i} \subseteq In("sources", n)' /\ In("timers", n) \ {i} \subseteq In("timers", n)'
      /\ \A n : n \notin T => In("sources", n)' = In("sources", n) /\ In("timers", n)' = In("timers", n)
      BY <1>0, <1>1, RemoveShrinks
<1> DEFINE Taken(f) == [f EXCEPT !.duty = f.duty \ {i}, !.gone = f.gone \cup (Snapshot(f) \cap {i})]
<1>3. frames' = [d \in DOMAIN frames |-> IF frames[d].mode \in T THEN Taken(frames[d]) ELSE frames[d]]
      BY <1>1 DEF Remove
<1>4. UNCHANGED <<common_modes, mode_stack, signaled, clock, pending>> BY DEF Remove
<1>5. ASSUME NEW f \in Frame
      PROVE  /\ Taken(f) \in Frame /\ Taken(f).mode = f.mode /\ Taken(f).pc = f.pc /\ Taken(f).item = f.item
             /\ Taken(f).todo = f.todo /\ Taken(f).gone = f.gone \cup (Snapshot(f) \cap {i})
  <2>1. PICK g : g = f.gone \cup (Snapshot(f) \cap {i}) OBVIOUS
  <2>2. g \subseteq Item BY <2>1 DEF Frame
  <2>3. Taken(f) = [f EXCEPT !.duty = f.duty \ {i}, !.gone = g] BY <2>1
  <2>4. /\ [f EXCEPT !.duty = f.duty \ {i}, !.gone = g] \in Frame
        /\ [f EXCEPT !.duty = f.duty \ {i}, !.gone = g].mode = f.mode
        /\ [f EXCEPT !.duty = f.duty \ {i}, !.gone = g].pc = f.pc
        /\ [f EXCEPT !.duty = f.duty \ {i}, !.gone = g].item = f.item
        /\ [f EXCEPT !.duty = f.duty \ {i}, !.gone = g].todo = f.todo
        /\ [f EXCEPT !.duty = f.duty \ {i}, !.gone = g].gone = g
        BY <2>2 DEF Frame
  <2> QED BY <2>1, <2>3, <2>4
<1> HIDE DEF Taken
<1>6. Len(frames) \in Nat /\ DOMAIN frames = 1 .. Len(frames) /\ \A d \in DOMAIN frames : frames[d] \in Frame
      BY <1>0
<1>7. frames' \in [1 .. Len(frames) -> Frame] BY <1>3, <1>5, <1>6
<1>8. frames' \in Seq(Frame) /\ Len(frames') = Len(frames) /\ DOMAIN frames' = DOMAIN frames
      BY <1>6, <1>7, FcnIsSeq
<1>9. \A d \in DOMAIN frames :
        /\ frames'[d].mode = frames[d].mode /\ frames'[d].pc = frames[d].pc /\ frames'[d].item = frames[d].item
      BY <1>3, <1>5, <1>6
<1>10. Shape' BY <1>2, <1>4, <1>8 DEF Inv, Shape, Typed
<1>11. InStep' BY <1>4, <1>8, <1>9 DEF Inv, InStep
<1>12. NoSignalLost' BY <1>4, <1>8, <1>9 DEF Inv, NoSignalLost
<1>13. ASSUME NEW d \in DOMAIN frames' PROVE Good(frames[d])'
  <2>1. PICK f \in Frame : f = frames[d] BY <1>6, <1>8, <1>13
  <2>2. PICK g : g = frames'[d] OBVIOUS
  <2>3. Good(f) BY <1>8, <1>13, <2>1 DEF Inv, AllGood
  <2>4. CASE f.mode \in T
    <3>1. g = Taken(f) BY <1>3, <1>8, <1>13, <2>1, <2>2, <2>4
    <3>2. /\ g.mode = f.mode /\ g.pc = f.pc /\ g.item = f.item /\ g.todo = f.todo
          /\ g.gone = f.gone \cup ((f.todo \cup ({f.item} \ {Null})) \cap {i})
          BY <1>5, <3>1 DEF Snapshot
    <3>3. \A x \in f.todo \cup ({f.item} \ {Null}) :
            x \in Allowed(f.mode, f.gone) => x \in Allowed(g.mode, g.gone)'
          BY <1>2, <3>2 DEF Allowed
    <3>4. Good(g)' BY <2>3, <3>2, <3>3 DEF Good
    <3> QED BY <2>2, <3>4 DEF Good, Allowed, In
  <2>5. CASE f.mode \notin T
    <3>1. g = f BY <1>3, <1>8, <1>13, <2>1, <2>2, <2>5
    <3>2. Allowed(f.mode, f.gone)' = Allowed(f.mode, f.gone) BY <1>2, <2>5 DEF Allowed
    <3>3. Good(f)' BY <2>3, <3>2 DEF Good
    <3> QED BY <2>2, <3>1, <3>3 DEF Good, Allowed, In
  <2> QED BY <2>4, <2>5
<1>14. AllGood' BY <1>13 DEF AllGood
<1> QED BY <1>10, <1>11, <1>12, <1>14 DEF Inv

-----------------------------------------------------------------------------
LEMMA GuestKeeps ==
  ASSUME Inv, Guest
  PROVE  Inv'
<1> USE DEF Kind, Item
<1>1. CASE \E m \in Mode : \E s \in Sources : CFRunLoopAddSource(s, m) \/ CFRunLoopRemoveSource(s, m)
      BY <1>1, AddKeeps, RemoveKeeps DEF CFRunLoopAddSource, CFRunLoopRemoveSource
<1>2. CASE \E m \in Mode : \E t \in Timers : CFRunLoopAddTimer(t, m) \/ CFRunLoopRemoveTimer(t, m)
      BY <1>2, AddKeeps, RemoveKeeps DEF CFRunLoopAddTimer, CFRunLoopRemoveTimer
<1>3. CASE \E m \in Mode : \E o \in Observers : CFRunLoopAddObserver(o, m) \/ CFRunLoopRemoveObserver(o, m)
      BY <1>3, AddKeeps, RemoveKeeps DEF CFRunLoopAddObserver, CFRunLoopRemoveObserver
<1>4. ASSUME NEW m \in UserModes, CFRunLoopAddCommonMode(m) PROVE Inv'
  <2>0. Shape /\ {m} \in SUBSET Mode BY DEF Inv, Mode
  <2>1. modes' = WithModes({m}) /\ common_modes' = common_modes \cup {m} BY <1>4 DEF CFRunLoopAddCommonMode
  <2>2. /\ Typed' /\ \A n : In("sources", n)' = In("sources", n)
        /\ \A n : In("timers", n)' = In("timers", n)
        BY <2>0, <2>1, WithModesKeeps
  <2>3. UNCHANGED <<mode_stack, signaled, clock, frames, pending>> BY <1>4 DEF CFRunLoopAddCommonMode
  <2>4. Shape' /\ InStep' /\ NoSignalLost'
        BY <2>0, <2>1, <2>2, <2>3 DEF Inv, Shape, Typed, InStep, NoSignalLost
  <2>5. \A d \in DOMAIN frames' : Good(frames'[d]) BY <2>3 DEF Inv, AllGood
  <2>6. AllGood' BY <2>2, <2>5, FramesGood
  <2> QED BY <2>4, <2>6 DEF Inv
<1>5. ASSUME NEW c \in Calls, CFRunLoopRunInMode(c[1], c[2], c[3]) PROVE Inv'
  <2>1. c[1] \in Mode /\ c[2] \in BOOLEAN /\ c[3] \in BOOLEAN /\ FALSE \in BOOLEAN BY RunLoopAssumption
  <2> QED BY <1>5, <2>1, Entered DEF CFRunLoopRunInMode
<1>6. CASE CFRunLoopRun
  <2>1. Default \in Mode /\ TRUE \in BOOLEAN /\ FALSE \in BOOLEAN BY DEF Mode
  <2> QED BY <1>6, <2>1, Entered DEF CFRunLoopRun
<1> QED BY <1>1, <1>2, <1>3, <1>4, <1>5, <1>6 DEF Guest

LEMMA OthersKeep ==
  ASSUME Inv, Anyone \/ Tick \/ UNCHANGED vars
  PROVE  Inv'
<1>1. ASSUME UNCHANGED <<modes, frames>> PROVE AllGood'
      BY <1>1 DEF Inv, AllGood, Good, Allowed, In
<1>2. ASSUME NEW s \in Sources, CFRunLoopSourceSignal(s) PROVE Inv'
  <2>1. /\ signaled' = [signaled EXCEPT ![s] = TRUE] /\ pending' = [pending EXCEPT ![s] = TRUE]
        /\ UNCHANGED <<modes, common_modes, mode_stack, clock, frames>>
        BY <1>2 DEF CFRunLoopSourceSignal
  <2>2. Shape' /\ InStep' BY <2>1 DEF Inv, Shape, InStep
  <2>3. \A r \in Sources : (signaled[r] => signaled'[r]) /\ (r # s => pending'[r] = pending[r]) /\ signaled'[s]
        BY <2>1 DEF Inv, Shape
  <2>4. NoSignalLost' BY <2>1, <2>3 DEF Inv, NoSignalLost
  <2> QED BY <1>1, <2>1, <2>2, <2>4 DEF Inv
<1>3. CASE CFRunLoopStop
  <2>1. UNCHANGED <<modes, common_modes, mode_stack, clock, frames, signaled, pending>>
        BY <1>3 DEF CFRunLoopStop
  <2> QED BY <1>1, <2>1 DEF Inv, Shape, InStep, NoSignalLost
<1>4. CASE Tick
  <2>1. UNCHANGED <<modes, common_modes, mode_stack, frames, signaled, pending>> /\ clock' \in 0 .. MaxClock
        BY <1>4, RunLoopAssumption DEF Tick, loop, Inv, Shape
  <2> QED BY <1>1, <2>1 DEF Inv, Shape, InStep, NoSignalLost
<1>5. CASE UNCHANGED vars
      BY <1>1, <1>5 DEF vars, Inv, Shape, InStep, NoSignalLost
<1> QED BY <1>2, <1>3, <1>4, <1>5 DEF Anyone

LEMMA InvAlways == Spec => []Inv
<1>1. Inv /\ [Next]_vars => Inv'
      BY QuietSteps, CheckSourceKeeps, PerformKeeps, CheckTimerKeeps, ReturnKeeps, GuestKeeps, OthersKeep
      DEF Next, LoopStep, CallbackReturns
<1> QED BY InvInit, <1>1, PTL DEF Spec

(* Whatever way a run ends - refused at entry, early return after one      *)
(* source, stop, time-out, repetition by CFRunLoopRun - the stack of modes *)
(* is that of the runs in progress: an early return that forgot its pop    *)
(* would put every later run into the wrong mode.                          *)
THEOREM StackIsThatOfTheRuns == Spec => []ModeStackMatches
<1>1. ASSUME Inv PROVE ModeStackMatches
  <2>1. /\ mode_stack \in Seq(Mode) /\ frames \in Seq(Frame) /\ Len(mode_stack) = Len(frames)
        BY <1>1 DEF Inv, Shape, InStep
  <2>2. DOMAIN mode_stack = DOMAIN frames /\ mode_stack = [d \in DOMAIN mode_stack |-> mode_stack[d]]
        BY <2>1
  <2>3. \A d \in DOMAIN frames : mode_stack[d] = frames[d].mode BY <1>1 DEF Inv, InStep
  <2> QED BY <2>2, <2>3 DEF ModeStackMatches
<1> QED BY <1>1, InvAlways, PTL

(* A source signalled by any thread, at any point of the loop and of its   *)
(* callbacks, is either still flagged or about to be performed: clearing   *)
(* the flag before the call, not after it, never loses a signal.           *)
THEOREM SignalsAreKept == Spec => []NoSignalLost
<1>1. Inv => NoSignalLost BY DEF Inv
<1> QED BY <1>1, InvAlways, PTL

(* What a run dispatches is registered in the mode it runs, or was when it *)
(* took its snapshot and has been removed by a callback since.             *)
THEOREM RunsServeTheirMode == Spec => []DispatchesOwnMode
<1>1. ASSUME Inv PROVE DispatchesOwnMode
  <2>1. SUFFICES ASSUME NEW d \in DOMAIN frames, frames[d].pc \in Dispatching
                 PROVE  frames[d].item \in Allowed(frames[d].mode, frames[d].gone)
        BY DEF DispatchesOwnMode, Dispatching, Allowed
  <2> QED BY <1>1, <2>1 DEF Inv, AllGood, Good
<1> QED BY <1>1, InvAlways, PTL

-----------------------------------------------------------------------------
(* One CFRunLoopStop ends at most one run: the stop flag, the runs on      *)
(* their way out with STOPPED and the ones that returned it are counted    *)
(* against the calls of CFRunLoopStop.                                     *)

EndingIn(q) == {d \in DOMAIN q : q[d].result = "STOPPED"}

Counts == /\ stopped \in BOOLEAN /\ stops \in 0 .. MaxStops /\ answered \in Nat
          /\ StopEndsOneRun

LEMMA EndingFinite ==
  ASSUME NEW q \in Seq(Frame)
  PROVE  IsFiniteSet(EndingIn(q)) /\ Cardinality(EndingIn(q)) \in Nat
<1>1. DOMAIN q = 1 .. Len(q) /\ Len(q) \in Nat OBVIOUS
<1>2. IsFiniteSet(DOMAIN q) BY <1>1, FS_Interval
<1>3. IsFiniteSet(EndingIn(q)) BY <1>2, FS_Subset DEF EndingIn
<1> QED BY <1>3, FS_CardinalityType

(* The three ways the set of the runs on their way out changes. *)
LEMMA EndingShrinks ==
  ASSUME NEW q \in Seq(Frame), NEW r \in Seq(Frame), EndingIn(r) \subseteq EndingIn(q)
  PROVE  Cardinality(EndingIn(r)) <= Cardinality(EndingIn(q))
BY EndingFinite, FS_Subset

LEMMA EndingGrows ==
  ASSUME NEW q \in Seq(Frame), NEW r \in Seq(Frame), NEW d, EndingIn(r) \subseteq EndingIn(q) \cup {d}
  PROVE  Cardinality(EndingIn(r)) <= Cardinality(EndingIn(q)) + 1
<1>1. PICK S : S = EndingIn(q) OBVIOUS
<1>2. IsFiniteSet(S) /\ Cardinality(S) \in Nat BY <1>1, EndingFinite
<1>a. /\ IsFiniteSet(S \cup {d})
      /\ Cardinality(S \cup {d}) = IF d \in S THEN Cardinality(S) ELSE Cardinality(S) + 1
      BY <1>2, FS_AddElement
<1>3. /\ IsFiniteSet(S \cup {d}) /\ Cardinality(S \cup {d}) \in Nat
      /\ Cardinality(S \cup {d}) <= Cardinality(S) + 1
      BY <1>2, <1>a
<1>4. Cardinality(EndingIn(r)) <= Cardinality(S \cup {d}) BY <1>1, <1>3, FS_Subset
<1>5. Cardinality(EndingIn(r)) \in Nat BY EndingFinite
<1> QED BY <1>1, <1>2, <1>3, <1>4, <1>5

LEMMA EndingLoses ==
  ASSUME NEW q \in Seq(Frame), NEW r \in Seq(Frame), NEW d \in EndingIn(q),
         EndingIn(r) \subseteq EndingIn(q) \ {d}
  PROVE  Cardinality(EndingIn(r)) + 1 <= Cardinality(EndingIn(q))
<1>1. PICK S : S = EndingIn(q) OBVIOUS
<1>2. IsFiniteSet(S) /\ Cardinality(S) \in Nat BY <1>1, EndingFinite
<1>3. IsFiniteSet(S \ {d}) /\ Cardinality(S \ {d}) = Cardinality(S) - 1
      BY <1>1, <1>2, FS_RemoveElement
<1>4. Cardinality(EndingIn(r)) <= Cardinality(S \ {d}) BY <1>1, <1>3, FS_Subset
<1>5. Cardinality(EndingIn(r)) \in Nat BY EndingFinite
<1> QED BY <1>1, <1>2, <1>3, <1>4, <1>5

(* A step that answers no stop and loses none. *)
LEMMA CountsStay ==
  ASSUME Counts, Shape, Shape', EndingIn(frames') \subseteq EndingIn(frames),
         stopped' \in BOOLEAN, stopped' => stopped, UNCHANGED <<stops, answered>>
  PROVE  Counts'
<1>1. PICK c : c = Cardinality(EndingIn(frames)) OBVIOUS
<1>2. PICK e : e = Cardinality(EndingIn(frames')) OBVIOUS
<1>3. c \in Nat /\ e \in Nat /\ e <= c
      BY <1>1, <1>2, EndingFinite, EndingShrinks DEF Shape
<1>4. answered + c + (IF stopped THEN 1 ELSE 0) <= stops
      BY <1>1 DEF Counts, StopEndsOneRun, EndingIn
<1>5. answered' + e + (IF stopped' THEN 1 ELSE 0) <= stops'
      BY <1>3, <1>4 DEF Counts
<1> QED BY <1>2, <1>5 DEF Counts, StopEndsOneRun, EndingIn

(* A stop answered: by a run refused at entry, or by one that leaves. *)
LEMMA StopAnswered ==
  ASSUME Counts, Shape, Shape', stopped, stopped' = FALSE, UNCHANGED stops,
         \/ EndingIn(frames') \subseteq EndingIn(frames) /\ answered' = answered + 1
         \/ \E d : EndingIn(frames') \subseteq EndingIn(frames) \cup {d} /\ answered' = answered
  PROVE  Counts'
<1>1. PICK c : c = Cardinality(EndingIn(frames)) OBVIOUS
<1>2. PICK e : e = Cardinality(EndingIn(frames')) OBVIOUS
<1>3. c \in Nat /\ e \in Nat BY <1>1, <1>2, EndingFinite DEF Shape
<1>4. \/ e <= c /\ answered' = answered + 1
      \/ e <= c + 1 /\ answered' = answered
      BY <1>1, <1>2, EndingShrinks, EndingGrows DEF Shape
<1>5. answered + c + 1 <= stops BY <1>1 DEF Counts, StopEndsOneRun, EndingIn
<1>6. answered' \in Nat /\ answered' + e + 0 <= stops' BY <1>3, <1>4, <1>5 DEF Counts
<1> QED BY <1>2, <1>6 DEF Counts, StopEndsOneRun, EndingIn

LEMMA ObservingKeeps ==
  ASSUME Shape, NEW f \in Frame, NEW act \in Activity
  PROVE  LET g == Observing(f, act)
         IN  g.result = f.result /\ g.duty = f.duty /\ g.now = f.now /\ g.act = act
BY DEF Observing, Frame

LEMMA LeavingKeeps ==
  ASSUME Shape, NEW f \in Frame, NEW r \in Result
  PROVE  LET g == Leaving(f, r)
         IN  /\ g.result = r /\ g.duty = f.duty /\ g.now = 0 /\ g.act = "EXIT"
             /\ g.pc = "observe" /\ g.item = Null /\ g.todo = {}
<1> DEFINE g == Observing(f, "EXIT")
           h == [g EXCEPT !.result = r, !.todo = {}, !.item = Null, !.now = 0, !.gone = {}]
<1>0. "EXIT" \in Activity BY DEF Activity
<1>1. g \in Frame /\ g.pc = "observe" BY <1>0, ObservingTyped
<1>2. g.duty = f.duty /\ g.act = "EXIT" BY <1>0, ObservingKeeps
<1>3. Leaving(f, r) = h BY DEF Leaving
<1> HIDE DEF g
<1>4. /\ h.result = r /\ h.duty = f.duty /\ h.now = 0 /\ h.act = "EXIT"
      /\ h.pc = "observe" /\ h.item = Null /\ h.todo = {}
      BY <1>1, <1>2 DEF Frame
<1> QED BY <1>3, <1>4

(* A step of the innermost run that does not decide on STOPPED. *)
LEMMA TopNotStopped ==
  ASSUME Shape, frames # <<>>, DOMAIN frames' = DOMAIN frames,
         frames'[Depth].result = Top.result \/ frames'[Depth].result # "STOPPED",
         \A d \in DOMAIN frames \ {Depth} : frames'[d].result = frames[d].result
  PROVE  EndingIn(frames') \subseteq EndingIn(frames)
BY TopTyped DEF EndingIn, Top

LEMMA TopFields ==
  ASSUME Shape, frames # <<>>, NEW f \in Frame, SetTop(f),
         f.result = Top.result \/ f.result # "STOPPED"
  PROVE  EndingIn(frames') \subseteq EndingIn(frames)
<1>1. /\ DOMAIN frames' = DOMAIN frames /\ frames'[Depth] = f
      /\ \A d \in DOMAIN frames \ {Depth} : frames'[d] = frames[d]
      BY SetTopDoes
<1> QED BY <1>1, TopNotStopped

(* The steps inside a run. *)
LEMMA InsideCounts ==
  ASSUME Inv, Inv', Counts,
         \/ FireObserver \/ EntryDone \/ BeforeDone \/ CheckSource \/ Perform \/ SourcesDone
         \/ CheckTimer \/ TimersDone \/ WaitTimesOut \/ WaitInterrupted
         \/ ObserverReturns \/ SourceReturns \/ TimerReturns
  PROVE  Counts'
<1> USE DEF Running, loop
<1>a. {"BEFORE_SOURCES", "BEFORE_TIMERS", "BEFORE_WAITING", "AFTER_WAITING"} \subseteq Activity
      BY DEF Activity
<1>0. /\ Shape /\ Shape' /\ frames # <<>> /\ Top \in Frame
      /\ UNCHANGED <<stopped, stops, answered>> /\ stopped' \in BOOLEAN
      BY TopTyped DEF Inv, Counts, FireObserver, EntryDone, BeforeDone, CheckSource, Perform, SourcesDone,
         CheckTimer, TimersDone, WaitTimesOut, WaitInterrupted, ObserverReturns, SourceReturns, TimerReturns
<1> SUFFICES EndingIn(frames') \subseteq EndingIn(frames) BY <1>0, CountsStay
<1>b. ASSUME NEW f \in Frame, NEW g, SetTop(g), g = f, f.result = Top.result \/ f.result # "STOPPED"
      PROVE  EndingIn(frames') \subseteq EndingIn(frames)
      BY <1>0, <1>b, TopFields
<1>c. ASSUME NEW i, NEW f \in Frame, frames' = Dispatched(i, f), f.result = Top.result
      PROVE  EndingIn(frames') \subseteq EndingIn(frames)
  <2>1. \A d \in DOMAIN frames : frames[d] \in Frame BY <1>0 DEF Shape
  <2>2. ASSUME NEW g \in Frame PROVE [g EXCEPT !.duty = g.duty \ {i}].result = g.result BY DEF Frame
  <2>3. DOMAIN frames' = DOMAIN frames BY <1>c DEF Dispatched
  <2>4. \A d \in DOMAIN frames : frames'[d].result = (IF d = Depth THEN f ELSE frames[d]).result
        BY <1>c, <2>1, <2>2 DEF Dispatched
  <2> QED BY <1>0, <1>c, <2>3, <2>4, TopTyped, TopNotStopped
<1>1. CASE FireObserver
  <2>1. PICK o \in Top.obs : SetTop([Top EXCEPT !.obs = Top.obs \ {o}, !.pc = "in_observer"])
        BY <1>1 DEF FireObserver
  <2> DEFINE f == [Top EXCEPT !.obs = Top.obs \ {o}, !.pc = "in_observer"]
  <2>2. f \in Frame /\ f.result = Top.result BY <1>0 DEF Frame, CallbackPC
  <2> HIDE DEF f
  <2> QED BY <1>b, <2>1, <2>2 DEF f
<1>2. CASE EntryDone
  <2> DEFINE g == Observing(Top, "BEFORE_SOURCES")
             f == [g EXCEPT !.todo = SourcesOf(Top.mode)]
  <2>1. SetTop(f) BY <1>2 DEF EntryDone
  <2>2. g \in Frame /\ g.result = Top.result BY <1>0, <1>a, ObservingTyped, ObservingKeeps
  <2>3. SourcesOf(Top.mode) \subseteq Item BY <1>0, InTyped DEF SourcesOf, Item
  <2> HIDE DEF g
  <2>4. f \in Frame /\ f.result = Top.result BY <2>2, <2>3 DEF Frame
  <2> QED BY <1>b, <2>1, <2>4
<1>3. CASE BeforeDone
  <2> DEFINE f == [Top EXCEPT !.pc = PhaseAfter(Top.act)]
  <2>1. SetTop(f) BY <1>3 DEF BeforeDone
  <2>2. f \in Frame /\ f.result = Top.result BY <1>0 DEF Frame, PhaseAfter, LoopPC
  <2> QED BY <1>b, <2>1, <2>2
<1>4. CASE CheckSource
  <2>1. PICK s \in Top.todo :
          \/ SetTop([Top EXCEPT !.pc = "perform", !.item = s, !.todo = Top.todo \ {s}])
          \/ SetTop([Top EXCEPT !.todo = Top.todo \ {s}])
        BY <1>4 DEF CheckSource
  <2> DEFINE f == [Top EXCEPT !.pc = "perform", !.item = s, !.todo = Top.todo \ {s}]
             g == [Top EXCEPT !.todo = Top.todo \ {s}]
  <2>2. f \in Frame /\ f.result = Top.result BY <1>0 DEF Frame, LoopPC
  <2>3. g \in Frame /\ g.result = Top.result BY <1>0 DEF Frame
  <2> QED BY <1>b, <2>1, <2>2, <2>3
<1>5. CASE Perform
  <2> DEFINE f == [Top EXCEPT !.pc = "in_source"]
  <2>1. frames' = Dispatched(Top.item, f) BY <1>5 DEF Perform
  <2>2. f \in Frame /\ f.result = Top.result BY <1>0 DEF Frame, CallbackPC
  <2> HIDE DEF f
  <2> QED BY <1>c, <2>1, <2>2
<1>6. CASE SourcesDone
  <2> DEFINE g == Observing(Top, "BEFORE_TIMERS")
             f == [g EXCEPT !.now = clock, !.gone = {}, !.todo = In("timers", Top.mode)]
  <2>1. SetTop(f) BY <1>6 DEF SourcesDone
  <2>2. g \in Frame /\ g.result = Top.result BY <1>0, <1>a, ObservingTyped, ObservingKeeps
  <2>3. In("timers", Top.mode) \subseteq Item /\ clock \in Time
        BY <1>0, InTyped, RunLoopAssumption DEF Item, Shape, Time, Never
  <2> HIDE DEF g
  <2>4. f \in Frame /\ f.result = Top.result BY <2>2, <2>3 DEF Frame
  <2> QED BY <1>b, <2>1, <2>4
<1>7. CASE CheckTimer
  <2>1. PICK t \in Top.todo :
          \/ frames' = Dispatched(t, [Top EXCEPT !.pc = "in_timer", !.item = t, !.todo = Top.todo \ {t}])
          \/ frames' = [frames EXCEPT ![Depth].todo = Top.todo \ {t}]
        BY <1>7 DEF CheckTimer
  <2> DEFINE f == [Top EXCEPT !.pc = "in_timer", !.item = t, !.todo = Top.todo \ {t}]
             g == [Top EXCEPT !.todo = Top.todo \ {t}]
  <2>2. f \in Frame /\ f.result = Top.result BY <1>0 DEF Frame, CallbackPC
  <2>3. g \in Frame /\ g.result = Top.result BY <1>0 DEF Frame
  <2>4. frames' = Dispatched(t, f) \/ SetTop(g) BY <2>1 DEF SetTop, Top
  <2> HIDE DEF f, g
  <2> QED BY <1>b, <1>c, <2>2, <2>3, <2>4
<1>8. CASE TimersDone
  <2> DEFINE g == Observing(Top, "BEFORE_WAITING")
             f == [g EXCEPT !.now = 0, !.gone = {}]
  <2>1. SetTop(f) BY <1>8 DEF TimersDone
  <2>2. g \in Frame /\ g.result = Top.result BY <1>0, <1>a, ObservingTyped, ObservingKeeps
  <2>3. 0 \in Time BY RunLoopAssumption DEF Time, Never
  <2> HIDE DEF g
  <2>4. f \in Frame /\ f.result = Top.result BY <2>2, <2>3 DEF Frame
  <2> QED BY <1>b, <2>1, <2>4
<1>9. CASE WaitTimesOut \/ WaitInterrupted
  <2>1. SetTop(Observing(Top, "AFTER_WAITING")) BY <1>9 DEF WaitTimesOut, WaitInterrupted
  <2>2. Observing(Top, "AFTER_WAITING") \in Frame /\ Observing(Top, "AFTER_WAITING").result = Top.result
        BY <1>0, <1>a, ObservingTyped, ObservingKeeps
  <2> QED BY <1>b, <2>1, <2>2
<1>10. CASE ObserverReturns
  <2> DEFINE f == [Top EXCEPT !.pc = "observe"]
  <2>1. SetTop(f) BY <1>10 DEF ObserverReturns
  <2>2. f \in Frame /\ f.result = Top.result BY <1>0 DEF Frame, LoopPC
  <2> QED BY <1>b, <2>1, <2>2
<1>11. CASE SourceReturns \/ TimerReturns
  <2>1. PICK pc \in {"sources", "timers"} : SetTop(AfterCallback(Top, pc))
        BY <1>11 DEF SourceReturns, TimerReturns
  <2>2. CASE Top.ras
    <3>1. "HANDLED_SOURCE" \in Result /\ "HANDLED_SOURCE" # "STOPPED" BY DEF Result
    <3>2. Leaving(Top, "HANDLED_SOURCE") \in Frame
          /\ Leaving(Top, "HANDLED_SOURCE").result = "HANDLED_SOURCE"
          BY <1>0, <3>1, LeavingTyped, LeavingKeeps
    <3> QED BY <1>b, <2>1, <2>2, <3>1, <3>2 DEF AfterCallback
  <2>3. CASE ~Top.ras
    <3> DEFINE f == [Top EXCEPT !.pc = pc, !.item = Null]
    <3>1. SetTop(f) BY <2>1, <2>3 DEF AfterCallback
    <3>2. f \in Frame /\ f.result = Top.result BY <1>0 DEF Frame, LoopPC
    <3> QED BY <1>b, <3>1, <3>2
  <2> QED BY <2>2, <2>3
<1> QED BY <1>1, <1>2, <1>3, <1>4, <1>5, <1>6, <1>7, <1>8, <1>9, <1>10, <1>11

(* The step that reads the flag after waiting. *)
LEMMA AfterWaitingCounts ==
  ASSUME Inv, Inv', Counts, AfterWaiting
  PROVE  Counts'
<1>0. /\ Shape /\ Shape' /\ frames # <<>> /\ Top \in Frame /\ stopped' = FALSE
      /\ UNCHANGED <<stops, answered>> /\ {"STOPPED", "TIMED_OUT"} \subseteq Result
      BY TopTyped DEF Inv, AfterWaiting, Running, Result
<1>1. CASE stopped
  <2> DEFINE f == Leaving(Top, "STOPPED")
  <2>1. SetTop(f) BY <1>1 DEF AfterWaiting
  <2>2. f \in Frame BY <1>0, LeavingTyped
  <2> HIDE DEF f
  <2>3. DOMAIN frames' = DOMAIN frames /\ \A d \in DOMAIN frames \ {Depth} : frames'[d] = frames[d]
        BY <1>0, <2>1, <2>2, SetTopDoes
  <2>4. EndingIn(frames') \subseteq EndingIn(frames) \cup {Depth} BY <2>3 DEF EndingIn
  <2> QED BY <1>0, <1>1, <2>4, StopAnswered
<1>2. CASE ~stopped
  <2> DEFINE f == Leaving(Top, "TIMED_OUT")
  <2>1. SetTop(f) BY <1>2 DEF AfterWaiting
  <2>2. f \in Frame /\ f.result = "TIMED_OUT" BY <1>0, LeavingTyped, LeavingKeeps
  <2> HIDE DEF f
  <2>3. EndingIn(frames') \subseteq EndingIn(frames) BY <1>0, <2>1, <2>2, TopFields
  <2> QED BY <1>0, <2>3, CountsStay
<1> QED BY <1>1, <1>2

LEMMA NewNotStopped ==
  ASSUME NEW m, NEW forever, NEW ras, NEW again
  PROVE  NewFrame(m, forever, ras, again).result = "TIMED_OUT"
BY DEF NewFrame

(* The end of a run, and its repetition. *)
LEMMA ReturnCounts ==
  ASSUME Inv, Inv', Counts, Return \/ RunAgain
  PROVE  Counts'
<1>0. /\ Shape /\ Shape' /\ frames # <<>> /\ Top = frames[Depth] /\ Depth \in DOMAIN frames
      /\ DOMAIN frames = 1 .. Depth /\ Depth \in Nat /\ Depth = Len(frames) /\ UNCHANGED stops
      /\ frames \in Seq(Frame) /\ frames' \in Seq(Frame)
      BY TopTyped DEF Inv, Return, RunAgain, Running, Top, Depth, Shape
<1>a. ASSUME frames' = Pop(frames)
      PROVE  EndingIn(frames') \subseteq EndingIn(frames) \ {Depth}
  <2>1. /\ DOMAIN frames' = 1 .. (Depth - 1)
        /\ \A d \in DOMAIN frames' : d \in DOMAIN frames /\ frames'[d] = frames[d]
        BY <1>0, <1>a, PopDoes
  <2>2. Depth \notin DOMAIN frames' BY <1>0, <2>1
  <2> QED BY <2>1, <2>2 DEF EndingIn
<1>1. CASE Return /\ Top.result = "STOPPED"
  <2>1. Depth \in EndingIn(frames) /\ EndingIn(frames') \subseteq EndingIn(frames) \ {Depth}
        BY <1>0, <1>1, <1>a DEF Return, EndingIn
  <2>2. answered' = answered + 1 /\ stopped' = stopped BY <1>1 DEF Return
  <2>3. PICK c : c = Cardinality(EndingIn(frames)) OBVIOUS
  <2>4. PICK e : e = Cardinality(EndingIn(frames')) OBVIOUS
  <2>5. c \in Nat /\ e \in Nat /\ e + 1 <= c BY <1>0, <2>1, <2>3, <2>4, EndingFinite, EndingLoses
  <2>6. answered + c + (IF stopped THEN 1 ELSE 0) <= stops
        BY <2>3 DEF Counts, StopEndsOneRun, EndingIn
  <2>7. answered' \in Nat /\ answered' + e + (IF stopped' THEN 1 ELSE 0) <= stops'
        BY <1>0, <2>2, <2>5, <2>6 DEF Counts
  <2> QED BY <1>0, <2>2, <2>4, <2>7 DEF Counts, StopEndsOneRun, EndingIn
<1>2. CASE Return /\ Top.result # "STOPPED"
  <2>1. EndingIn(frames') \subseteq EndingIn(frames) BY <1>2, <1>a DEF Return
  <2> QED BY <1>0, <1>2, <2>1, CountsStay DEF Return, Counts
<1>3. CASE RunAgain /\ stopped
  <2>1. EndingIn(frames') \subseteq EndingIn(frames) BY <1>3, <1>a DEF RunAgain
  <2> QED BY <1>0, <1>3, <2>1, StopAnswered DEF RunAgain
<1>4. CASE RunAgain /\ ~stopped
  <2> DEFINE f == NewFrame(Default, TRUE, FALSE, TRUE)
  <2>0. Default \in Mode /\ TRUE \in BOOLEAN /\ FALSE \in BOOLEAN BY DEF Mode
  <2>a. f \in Frame BY <1>0, <2>0, NewFrameTyped
  <2>1. f \in Frame /\ f.result = "TIMED_OUT" BY <2>a DEF NewFrame
  <2>2. SetTop(f) /\ UNCHANGED <<stopped, answered>> BY <1>4 DEF RunAgain
  <2> HIDE DEF f
  <2>3. EndingIn(frames') \subseteq EndingIn(frames) BY <1>0, <2>1, <2>2, TopFields
  <2> QED BY <1>0, <2>2, <2>3, CountsStay DEF Counts
<1> QED BY <1>1, <1>2, <1>3, <1>4

(* The start of a run. *)
LEMMA EnterCounts ==
  ASSUME Inv, Inv', Counts, NEW m \in Mode, NEW forever \in BOOLEAN, NEW ras \in BOOLEAN,
         NEW again \in BOOLEAN, Enter(frames, m, forever, ras, again), UNCHANGED stops
  PROVE  Counts'
<1>0. Shape /\ Shape' BY DEF Inv
<1>1. CASE stopped
  <2>1. EndingIn(frames') \subseteq EndingIn(frames) BY <1>1 DEF Enter
  <2> QED BY <1>0, <1>1, <2>1, StopAnswered DEF Enter
<1>2. CASE ~stopped
  <2> DEFINE f == NewFrame(m, forever, ras, again)
  <2>1. f \in Frame /\ f.result = "TIMED_OUT" BY <1>0, NewFrameTyped, NewNotStopped
  <2>2. frames' = Append(frames, f) /\ UNCHANGED <<stopped, answered>> BY <1>2 DEF Enter
  <2> HIDE DEF f
  <2>3. /\ DOMAIN frames' = 1 .. (Len(frames) + 1) /\ DOMAIN frames = 1 .. Len(frames)
        /\ Len(frames) \in Nat
        /\ frames'[Len(frames) + 1] = f /\ \A d \in 1 .. Len(frames) : frames'[d] = frames[d]
        BY <1>0, <2>1, <2>2, AppendDoes DEF Shape
  <2>4. \A d \in DOMAIN frames' : d \in DOMAIN frames \/ d = Len(frames) + 1 BY <2>3
  <2>5. EndingIn(frames') \subseteq EndingIn(frames) BY <2>1, <2>3, <2>4 DEF EndingIn
  <2> QED BY <1>0, <2>2, <2>5, CountsStay DEF Counts
<1> QED BY <1>1, <1>2

(* What guest code, other threads and the clock do. *)
LEMMA OutsideCounts ==
  ASSUME Inv, Inv', Counts, Guest \/ Anyone \/ Tick \/ UNCHANGED vars
  PROVE  Counts'
<1>0. Shape /\ Shape' BY DEF Inv
<1>1. ASSUME UNCHANGED <<frames, stopped, stops, answered>> PROVE Counts'
      BY <1>1 DEF Counts, StopEndsOneRun
<1>2. ASSUME NEW kind, NEW i, NEW m, Add(kind, i, m) PROVE Counts' BY <1>1, <1>2 DEF Add
<1>3. ASSUME NEW kind, NEW i, NEW m, Remove(kind, i, m) PROVE Counts'
  <2>1. UNCHANGED <<stopped, stops, answered>> /\ DOMAIN frames' = DOMAIN frames BY <1>3 DEF Remove
  <2>2. ASSUME NEW d \in DOMAIN frames PROVE frames'[d].result = frames[d].result
    <3>1. PICK f \in Frame : f = frames[d] BY <1>0, <2>2 DEF Shape
    <3>2. PICK x : x = f.gone \cup (Snapshot(f) \cap {i}) OBVIOUS
    <3>3. frames'[d] = [f EXCEPT !.duty = f.duty \ {i}, !.gone = x] \/ frames'[d] = f
      <4>1. frames'[d] = IF f.mode \in Targets(m)
                         THEN [f EXCEPT !.duty = f.duty \ {i}, !.gone = f.gone \cup (Snapshot(f) \cap {i})]
                         ELSE f
            BY <1>3, <2>2, <3>1 DEF Remove
      <4> QED BY <3>2, <4>1
    <3>4. [f EXCEPT !.duty = f.duty \ {i}, !.gone = x].result = f.result BY DEF Frame
    <3> QED BY <3>1, <3>3, <3>4
  <2>3. EndingIn(frames') \subseteq EndingIn(frames) BY <2>1, <2>2 DEF EndingIn
  <2> QED BY <1>0, <2>1, <2>3, CountsStay DEF Counts
<1>4. ASSUME NEW m \in UserModes, CFRunLoopAddCommonMode(m) PROVE Counts'
      BY <1>1, <1>4 DEF CFRunLoopAddCommonMode
<1>5. ASSUME NEW c \in Calls, CFRunLoopRunInMode(c[1], c[2], c[3]) PROVE Counts'
  <2>1. c[1] \in Mode /\ c[2] \in BOOLEAN /\ c[3] \in BOOLEAN /\ FALSE \in BOOLEAN BY RunLoopAssumption
  <2> QED BY <1>5, <2>1, EnterCounts DEF CFRunLoopRunInMode
<1>6. CASE CFRunLoopRun
  <2>1. Default \in Mode /\ TRUE \in BOOLEAN /\ FALSE \in BOOLEAN BY DEF Mode
  <2> QED BY <1>6, <2>1, EnterCounts DEF CFRunLoopRun
<1>7. ASSUME NEW x \in Sources, CFRunLoopSourceSignal(x) PROVE Counts'
      BY <1>1, <1>7 DEF CFRunLoopSourceSignal
<1>8. CASE CFRunLoopStop
  <2>1. stopped' = TRUE /\ stops' = stops + 1 /\ stops' \in 0 .. MaxStops /\ UNCHANGED <<frames, answered>>
        BY <1>8, RunLoopAssumption DEF CFRunLoopStop, Counts
  <2>2. PICK c : c = Cardinality(EndingIn(frames)) OBVIOUS
  <2>3. c \in Nat BY <1>0, <2>2, EndingFinite DEF Shape
  <2>4. answered + c + (IF stopped THEN 1 ELSE 0) <= stops BY <2>2 DEF Counts, StopEndsOneRun, EndingIn
  <2>5. answered' + c + 1 <= stops' BY <2>1, <2>3, <2>4 DEF Counts
  <2> QED BY <2>1, <2>2, <2>5 DEF Counts, StopEndsOneRun, EndingIn
<1>9. CASE Tick BY <1>1, <1>9 DEF Tick, loop
<1>10. CASE UNCHANGED vars BY <1>1, <1>10 DEF vars
<1> QED BY <1>2, <1>3, <1>4, <1>5, <1>6, <1>7, <1>8, <1>9, <1>10
    DEF Guest, Anyone, CFRunLoopAddSource, CFRunLoopRemoveSource, CFRunLoopAddTimer,
        CFRunLoopRemoveTimer, CFRunLoopAddObserver, CFRunLoopRemoveObserver

LEMMA CountsInit == Init => Counts
<1> SUFFICES ASSUME Init PROVE Counts OBVIOUS
<1>1. {d \in DOMAIN frames : frames[d].result = "STOPPED"} = {} BY DEF Init
<1>2. PICK c : c = Cardinality({d \in DOMAIN frames : frames[d].result = "STOPPED"}) OBVIOUS
<1>3. c = 0 BY <1>1, <1>2, FS_EmptySet
<1>4. stopped = FALSE /\ stops = 0 /\ answered = 0 BY DEF Init
<1>5. answered + c + (IF stopped THEN 1 ELSE 0) <= stops BY <1>3, <1>4
<1>6. StopEndsOneRun BY <1>2, <1>5 DEF StopEndsOneRun
<1>7. stops \in 0 .. MaxStops /\ answered \in Nat BY <1>4, RunLoopAssumption
<1> QED BY <1>4, <1>6, <1>7 DEF Counts

LEMMA CountsStep == Inv /\ Inv' /\ Counts /\ [Next]_vars => Counts'
BY InsideCounts, AfterWaitingCounts, ReturnCounts, OutsideCounts DEF Next, LoopStep, CallbackReturns

(* However the runs nest, one CFRunLoopStop makes at most one of them      *)
(* return STOPPED: the flag is down before any other run reads it.         *)
THEOREM OneStopEndsOneRun == Spec => []StopEndsOneRun
<1>1. Counts => StopEndsOneRun BY DEF Counts
<1> QED BY <1>1, CountsInit, CountsStep, InvAlways, PTL DEF Spec

-----------------------------------------------------------------------------
(* What is ready when a run begins is served before it waits.  The history *)
(* of a run, its duty, is what it still has to dispatch; each phase keeps  *)
(* its part of it in hand.                                                 *)

Served(f) ==
  \/ f.pc = "wait" \/ f.act \in {"BEFORE_WAITING", "AFTER_WAITING"}
  \/ f.act = "EXIT" /\ f.result # "HANDLED_SOURCE"

(* The phase a run is in and what it holds in that phase. *)
Phased(f) ==
  /\ f.pc \in {"sources", "perform", "in_source"} => f.act = "BEFORE_SOURCES"
  /\ f.pc \in {"timers", "in_timer"} => f.act = "BEFORE_TIMERS"
  /\ f.pc = "wait" => f.act = "BEFORE_WAITING"
  /\ f.act = "BEFORE_SOURCES" => f.todo \subseteq Sources
  /\ f.act = "BEFORE_TIMERS" => f.todo \subseteq Timers
  /\ f.pc \in {"perform", "in_source"} => f.item \in Sources
  /\ f.pc = "in_timer" => f.item \in Timers
  /\ f.now <= MaxClock

(* The duty is in the snapshot, or the source is just being performed. *)
Owed(f) ==
  /\ f.duty \subseteq Sources \cup Timers
  /\ f.act = "BEFORE_SOURCES" =>
       \A s \in f.duty \cap Sources : s \in f.todo \/ (f.pc = "perform" /\ s = f.item)
  /\ f.act = "BEFORE_TIMERS" => f.duty \subseteq f.todo
  /\ Served(f) => f.duty = {}

(* Before the snapshot the duty is in the mode; its timers stay due. *)
Due(f) ==
  /\ f.act = "ENTRY" => f.duty \subseteq In("sources", f.mode) \cup In("timers", f.mode)
  /\ f.act = "BEFORE_SOURCES" => f.duty \cap Timers \subseteq In("timers", f.mode)
  /\ \A t \in f.duty \cap Timers : fire_date[t] <= clock
  /\ f.act = "BEFORE_TIMERS" => \A t \in f.duty : fire_date[t] <= f.now

FrameOK(f) == Phased(f) /\ Owed(f) /\ Due(f)
AllOK == \A d \in DOMAIN frames : FrameOK(frames[d])

(* Only the innermost run moves; the others are inside a callback. *)
Nested == \A d \in DOMAIN frames : d # Len(frames) => frames[d].pc \in CallbackPC

Performing(s) == \E d \in DOMAIN frames : frames[d].pc = "perform" /\ frames[d].item = s
Flagged == \A d \in DOMAIN frames : \A s \in frames[d].duty \cap Sources : signaled[s] \/ Performing(s)

(* A timer whose callback runs is nobody's duty out to that run: its fire  *)
(* date may change when the callback returns.                              *)
InTimer ==
  \A d, e \in DOMAIN frames :
    frames[d].pc = "in_timer" /\ e <= d => frames[d].item \notin frames[e].duty

Dates == fire_date \in [Timers -> Time]

Duties == AllOK /\ Nested /\ Flagged /\ InTimer /\ Dates

(* f is g, possibly with less left to do. *)
Less(f, g) ==
  /\ f.mode = g.mode /\ f.pc = g.pc /\ f.act = g.act /\ f.todo = g.todo /\ f.item = g.item
  /\ f.now = g.now /\ f.result = g.result /\ f.duty \subseteq g.duty

LEMMA LessOK ==
  ASSUME NEW f, NEW g, Less(f, g), FrameOK(g)
  PROVE  FrameOK(f)
<1>1. Phased(f) BY DEF Less, FrameOK, Phased
<1>2. Owed(f) BY DEF Less, FrameOK, Owed, Served
<1>3. Due(f) BY DEF Less, FrameOK, Due
<1> QED BY <1>1, <1>2, <1>3 DEF FrameOK

LEMMA DueStays ==
  ASSUME NEW f, Due(f), Dates, clock \in Int, clock' \in Int, clock <= clock',
         \A t \in f.duty \cap Timers : fire_date'[t] = fire_date[t],
         Owed(f), Phased(f),
         \A x \in f.duty : /\ x \in In("sources", f.mode) => x \in In("sources", f.mode)'
                           /\ x \in In("timers", f.mode) => x \in In("timers", f.mode)'
  PROVE  Due(f)'
<1>a. PICK A, B : A = In("sources", f.mode)' /\ B = In("timers", f.mode)' OBVIOUS
<1>b. \A x \in f.duty : (x \in In("sources", f.mode) => x \in A) /\ (x \in In("timers", f.mode) => x \in B)
      BY <1>a
<1>1. f.act = "ENTRY" => f.duty \subseteq A \cup B BY <1>b DEF Due
<1>2. f.act = "BEFORE_SOURCES" => f.duty \cap Timers \subseteq B BY <1>b DEF Due
<1>3. ASSUME NEW t \in f.duty \cap Timers PROVE fire_date'[t] <= clock'
  <2>1. fire_date[t] <= clock /\ fire_date[t] \in Int
        BY RunLoopAssumption DEF Due, Dates, Time, Never
  <2> QED BY <2>1
<1>4. ASSUME f.act = "BEFORE_TIMERS", NEW t \in f.duty PROVE fire_date'[t] <= f.now
  <2>1. t \in Timers BY <1>4 DEF Owed, Phased
  <2> QED BY <1>4, <2>1 DEF Due
<1> QED BY <1>a, <1>1, <1>2, <1>3, <1>4 DEF Due

(* The same mode contents, clock and fire dates: the frames stay as good. *)
SameIn == /\ \A m : In("sources", m)' = In("sources", m)
          /\ \A m : In("timers", m)' = In("timers", m)

LEMMA OKFromDue ==
  ASSUME \A d \in DOMAIN frames' : \A f : f = frames'[d] => Phased(f) /\ Owed(f) /\ Due(f)'
  PROVE  AllOK'
<1>1. ASSUME NEW d \in DOMAIN frames' PROVE FrameOK(frames[d])'
  <2>1. PICK f : f = frames'[d] OBVIOUS
  <2>2. Phased(f) /\ Owed(f) /\ Due(f)' BY <2>1
  <2>3. Phased(frames[d])' BY <2>1, <2>2 DEF Phased
  <2>4. Owed(frames[d])' BY <2>1, <2>2 DEF Owed, Served
  <2>5. Due(frames[d])' BY <2>1, <2>2 DEF Due, In
  <2> QED BY <2>3, <2>4, <2>5 DEF FrameOK
<1> QED BY <1>1 DEF AllOK

(* A step of the innermost run, which becomes f; the other runs may find   *)
(* their duty reduced.                                                     *)
LEMMA TopSteps ==
  ASSUME Inv, Duties, frames # <<>>, NEW f, DOMAIN frames' = DOMAIN frames, Len(frames') = Len(frames),
         Less(frames'[Depth], f), \A d \in DOMAIN frames \ {Depth} : Less(frames'[d], frames[d]),
         FrameOK(f), SameIn, UNCHANGED clock, Dates',
         \A d \in DOMAIN frames : \A t \in frames'[d].duty \cap Timers : fire_date'[t] = fire_date[t],
         f.pc = "in_timer" => \A d \in DOMAIN frames : f.item \notin frames'[d].duty
  PROVE  AllOK' /\ Nested' /\ InTimer'
<1>0. Depth \in DOMAIN frames /\ Depth = Len(frames) /\ clock \in Int /\ clock <= clock
      /\ DOMAIN frames = 1 .. Depth /\ Depth \in Nat
      BY TopTyped, RunLoopAssumption DEF Inv, Shape, Depth
<1>1. ASSUME NEW d \in DOMAIN frames', NEW g, g = frames'[d] PROVE Phased(g) /\ Owed(g) /\ Due(g)'
  <2>1. FrameOK(g)
    <3>1. CASE d = Depth BY <1>1, <3>1, LessOK
    <3>2. CASE d # Depth
      <4>1. Less(g, frames[d]) /\ FrameOK(frames[d]) BY <1>1, <3>2 DEF Duties, AllOK
      <4> QED BY <4>1, LessOK
    <3> QED BY <3>1, <3>2
  <2>2. \A t \in g.duty \cap Timers : fire_date'[t] = fire_date[t] BY <1>1
  <2>3. Due(g)' BY <1>0, <2>1, <2>2, DueStays DEF FrameOK, Duties, SameIn
  <2> QED BY <2>1, <2>3 DEF FrameOK
<1>2. AllOK' BY <1>1, OKFromDue
<1>3. Nested' BY <1>0 DEF Duties, Nested, Less
<1>4. ASSUME NEW d \in DOMAIN frames, NEW e \in DOMAIN frames, frames'[d].pc = "in_timer", e <= d
      PROVE  frames'[d].item \notin frames'[e].duty
  <2>1. CASE d = Depth BY <1>4, <2>1 DEF Less
  <2>2. CASE d # Depth
    <3>1. e # Depth BY <1>0, <1>4, <2>2
    <3>2. frames[d].pc = "in_timer" /\ frames[d].item = frames'[d].item BY <1>4, <2>2 DEF Less
    <3>3. frames'[e].duty \subseteq frames[e].duty BY <3>1 DEF Less
    <3> QED BY <1>4, <3>2, <3>3 DEF Duties, InTimer
  <2> QED BY <2>1, <2>2
<1>5. InTimer' BY <1>4 DEF InTimer
<1> QED BY <1>2, <1>3, <1>5

(* The flags of the sources stay up while the innermost run moves. *)
LEMMA FlagsStay ==
  ASSUME Shape, Duties, frames # <<>>, DOMAIN frames' = DOMAIN frames, Top.pc # "perform",
         frames'[Depth].duty \subseteq Top.duty,
         \A d \in DOMAIN frames \ {Depth} : Less(frames'[d], frames[d]),
         UNCHANGED signaled
  PROVE  Flagged'
<1>0. Depth \in DOMAIN frames /\ Top = frames[Depth] BY TopTyped DEF Top
<1> SUFFICES ASSUME NEW d \in DOMAIN frames, NEW s \in frames'[d].duty \cap Sources, ~signaled[s]
             PROVE  \E e \in DOMAIN frames' : frames'[e].pc = "perform" /\ frames'[e].item = s
    BY DEF Flagged, Performing
<1>1. s \in frames[d].duty BY <1>0 DEF Less
<1>2. PICK e \in DOMAIN frames : frames[e].pc = "perform" /\ frames[e].item = s
      BY <1>1 DEF Duties, Flagged, Performing
<1>3. e # Depth BY <1>0, <1>2
<1> QED BY <1>2, <1>3 DEF Less

LEMMA LessSelf ==
  ASSUME NEW f
  PROVE  Less(f, f)
BY DEF Less

LEMMA TopServes ==
  ASSUME Inv, Duties, frames # <<>>, NEW f \in Frame, SetTop(f), Top.pc # "perform",
         f.duty \subseteq Top.duty, FrameOK(f), f.pc # "in_timer",
         UNCHANGED <<modes, clock, signaled, fire_date>>
  PROVE  Duties'
<1>0. Shape BY DEF Inv
<1>1. /\ Len(frames') = Len(frames) /\ DOMAIN frames' = DOMAIN frames
      /\ frames'[Depth] = f /\ \A d \in DOMAIN frames \ {Depth} : frames'[d] = frames[d]
      BY <1>0, SetTopDoes
<1>2. Less(frames'[Depth], f) /\ \A d \in DOMAIN frames \ {Depth} : Less(frames'[d], frames[d])
      BY <1>1, LessSelf
<1>3. SameIn /\ Dates' BY DEF SameIn, In, Dates, Duties
<1>4. AllOK' /\ Nested' /\ InTimer' BY <1>1, <1>2, <1>3, TopSteps
<1>5. Flagged' BY <1>0, <1>1, <1>2, FlagsStay
<1> QED BY <1>3, <1>4, <1>5 DEF Duties

(* The phases of a run one after the other. *)
LEMMA PhasesServe ==
  ASSUME Inv, Duties,
         \/ FireObserver \/ EntryDone \/ BeforeDone \/ SourcesDone \/ TimersDone
         \/ WaitTimesOut \/ WaitInterrupted \/ AfterWaiting \/ ObserverReturns \/ SourceReturns
  PROVE  Duties'
<1> USE DEF Running, loop
<1>a. {"BEFORE_SOURCES", "BEFORE_TIMERS", "BEFORE_WAITING", "AFTER_WAITING"} \subseteq Activity
      BY DEF Activity
<1>0. /\ Shape /\ frames # <<>> /\ Top \in Frame /\ FrameOK(Top) /\ Good(Top)
      /\ UNCHANGED <<modes, clock, signaled, fire_date>>
  <2>1. frames # <<>> /\ UNCHANGED <<modes, clock, signaled, fire_date>>
        BY DEF FireObserver, EntryDone, BeforeDone, SourcesDone, TimersDone, WaitTimesOut, WaitInterrupted,
           AfterWaiting, ObserverReturns, SourceReturns
  <2>2. Shape /\ Top \in Frame /\ Depth \in DOMAIN frames BY <2>1, TopTyped DEF Inv
  <2> QED BY <2>1, <2>2 DEF Inv, AllGood, Duties, AllOK, Top
<1>b. Phased(Top) /\ Owed(Top) /\ Due(Top) BY <1>0 DEF FrameOK
<1>1. CASE FireObserver
  <2>1. PICK o \in Top.obs : SetTop([Top EXCEPT !.obs = Top.obs \ {o}, !.pc = "in_observer"])
        BY <1>1 DEF FireObserver
  <2> DEFINE f == [Top EXCEPT !.obs = Top.obs \ {o}, !.pc = "in_observer"]
  <2>2. Top.pc = "observe" /\ SetTop(f) BY <1>1, <2>1 DEF FireObserver
  <2>3. /\ f \in Frame /\ f.mode = Top.mode /\ f.pc = "in_observer" /\ f.act = Top.act
        /\ f.todo = Top.todo /\ f.item = Top.item /\ f.now = Top.now /\ f.result = Top.result
        /\ f.duty = Top.duty
        BY <1>0 DEF Frame, CallbackPC
  <2> HIDE DEF f
  <2>4. Phased(f) BY <1>b, <2>3 DEF Phased
  <2>5. Owed(f) BY <1>b, <2>2, <2>3 DEF Owed, Served
  <2>6. Due(f) BY <1>b, <2>3 DEF Due
  <2> QED BY <1>0, <2>2, <2>3, <2>4, <2>5, <2>6, TopServes DEF FrameOK
<1>2. CASE EntryDone
  <2> DEFINE g == Observing(Top, "BEFORE_SOURCES")
             f == [g EXCEPT !.todo = SourcesOf(Top.mode)]
  <2>1. Top.pc = "observe" /\ Top.act = "ENTRY" /\ SetTop(f) BY <1>2 DEF EntryDone
  <2>2. /\ g \in Frame /\ g.mode = Top.mode /\ g.pc = "observe" /\ g.item = Top.item
        /\ g.result = Top.result /\ g.duty = Top.duty /\ g.now = Top.now /\ g.act = "BEFORE_SOURCES"
        BY <1>0, <1>a, ObservingTyped, ObservingKeeps
  <2>3. /\ SourcesOf(Top.mode) = In("sources", Top.mode) /\ SourcesOf(Top.mode) \subseteq Sources
        /\ SourcesOf(Top.mode) \subseteq Item /\ In("timers", Top.mode) \subseteq Timers
        BY <1>0, InTyped DEF SourcesOf, Item
  <2> HIDE DEF g
  <2>4. /\ f \in Frame /\ f.mode = Top.mode /\ f.pc = "observe" /\ f.act = "BEFORE_SOURCES"
        /\ f.todo = In("sources", Top.mode) /\ f.now = Top.now /\ f.result = Top.result
        /\ f.duty = Top.duty
        BY <2>2, <2>3 DEF Frame
  <2> HIDE DEF f
  <2>5. Phased(f) BY <1>b, <2>3, <2>4 DEF Phased
  <2>6. \A x \in Top.duty : x \in In("sources", Top.mode) \/ x \in In("timers", Top.mode)
        BY <1>b, <2>1 DEF Due
  <2>7. \A x \in Top.duty : (x \in Sources => x \in In("sources", Top.mode))
                           /\ (x \in Timers => x \in In("timers", Top.mode))
        BY <2>3, <2>6, RunLoopAssumption
  <2>8. Owed(f) BY <1>b, <2>4, <2>7 DEF Owed, Served
  <2>9. Due(f) BY <1>b, <2>4, <2>7 DEF Due
  <2> QED BY <1>0, <2>1, <2>4, <2>5, <2>8, <2>9, TopServes DEF FrameOK
<1>3. CASE BeforeDone
  <2> DEFINE f == [Top EXCEPT !.pc = PhaseAfter(Top.act)]
  <2>1. /\ Top.pc = "observe" /\ SetTop(f)
        /\ Top.act \in {"BEFORE_SOURCES", "BEFORE_TIMERS", "BEFORE_WAITING"}
        BY <1>3 DEF BeforeDone
  <2>2. /\ f \in Frame /\ f.mode = Top.mode /\ f.pc = PhaseAfter(Top.act) /\ f.act = Top.act
        /\ f.todo = Top.todo /\ f.item = Top.item /\ f.now = Top.now /\ f.result = Top.result
        /\ f.duty = Top.duty
        BY <1>0 DEF Frame, PhaseAfter, LoopPC
  <2>3. /\ Top.act = "BEFORE_SOURCES" => PhaseAfter(Top.act) = "sources"
        /\ Top.act = "BEFORE_TIMERS" => PhaseAfter(Top.act) = "timers"
        /\ Top.act = "BEFORE_WAITING" => PhaseAfter(Top.act) = "wait"
        BY DEF PhaseAfter
  <2> HIDE DEF f
  <2>4. Phased(f) BY <1>b, <2>1, <2>2, <2>3 DEF Phased
  <2>5. Owed(f) BY <1>b, <2>1, <2>2, <2>3 DEF Owed, Served
  <2>6. Due(f) BY <1>b, <2>2 DEF Due
  <2>7. f.pc # "in_timer" BY <2>1, <2>2, <2>3
  <2> QED BY <1>0, <2>1, <2>2, <2>4, <2>5, <2>6, <2>7, TopServes DEF FrameOK
<1>4. CASE SourcesDone
  <2> DEFINE g == Observing(Top, "BEFORE_TIMERS")
             f == [g EXCEPT !.now = clock, !.gone = {}, !.todo = In("timers", Top.mode)]
  <2>1. Top.pc = "sources" /\ Top.todo = {} /\ SetTop(f) BY <1>4 DEF SourcesDone
  <2>2. /\ g \in Frame /\ g.mode = Top.mode /\ g.pc = "observe" /\ g.item = Top.item
        /\ g.result = Top.result /\ g.duty = Top.duty /\ g.act = "BEFORE_TIMERS"
        BY <1>0, <1>a, ObservingTyped, ObservingKeeps
  <2>3. /\ In("timers", Top.mode) \subseteq Item /\ clock \in Time /\ clock <= MaxClock
        /\ In("timers", Top.mode) \subseteq Timers
        BY <1>0, InTyped, RunLoopAssumption DEF Item, Shape, Time, Never
  <2> HIDE DEF g
  <2>4. /\ f \in Frame /\ f.mode = Top.mode /\ f.pc = "observe" /\ f.act = "BEFORE_TIMERS"
        /\ f.todo = In("timers", Top.mode) /\ f.now = clock /\ f.result = Top.result
        /\ f.duty = Top.duty
        BY <2>2, <2>3 DEF Frame
  <2> HIDE DEF f
  <2>5. Phased(f) BY <2>3, <2>4 DEF Phased
  <2>6. Top.act = "BEFORE_SOURCES" BY <1>b, <2>1 DEF Phased
  <2>7. \A x \in Top.duty : x \in Timers /\ x \in In("timers", Top.mode) /\ fire_date[x] <= clock
        BY <1>b, <2>1, <2>6 DEF Owed, Due
  <2>8. Owed(f) BY <2>4, <2>7 DEF Owed, Served
  <2>9. Due(f) BY <2>4, <2>7 DEF Due
  <2> QED BY <1>0, <2>1, <2>4, <2>5, <2>8, <2>9, TopServes DEF FrameOK
<1>5. CASE TimersDone
  <2> DEFINE g == Observing(Top, "BEFORE_WAITING")
             f == [g EXCEPT !.now = 0, !.gone = {}]
  <2>1. Top.pc = "timers" /\ Top.todo = {} /\ SetTop(f) BY <1>5 DEF TimersDone
  <2>2. /\ g \in Frame /\ g.mode = Top.mode /\ g.pc = "observe" /\ g.item = Top.item
        /\ g.result = Top.result /\ g.duty = Top.duty /\ g.act = "BEFORE_WAITING"
        BY <1>0, <1>a, ObservingTyped, ObservingKeeps
  <2>3. 0 \in Time /\ 0 <= MaxClock BY RunLoopAssumption DEF Time, Never
  <2> HIDE DEF g
  <2>4. /\ f \in Frame /\ f.pc = "observe" /\ f.act = "BEFORE_WAITING" /\ f.now = 0 /\ f.duty = Top.duty
        BY <2>2, <2>3 DEF Frame
  <2> HIDE DEF f
  <2>5. Phased(f) BY <2>3, <2>4 DEF Phased
  <2>6. Top.act = "BEFORE_TIMERS" BY <1>b, <2>1 DEF Phased
  <2>7. Top.duty = {} BY <1>b, <2>1, <2>6 DEF Owed
  <2>8. Owed(f) /\ Due(f) BY <2>4, <2>7 DEF Owed, Due
  <2> QED BY <1>0, <2>1, <2>4, <2>5, <2>8, TopServes DEF FrameOK
<1>6. CASE WaitTimesOut \/ WaitInterrupted
  <2> DEFINE f == Observing(Top, "AFTER_WAITING")
  <2>1. Top.pc = "wait" /\ SetTop(f) BY <1>6 DEF WaitTimesOut, WaitInterrupted
  <2>2. /\ f \in Frame /\ f.pc = "observe" /\ f.act = "AFTER_WAITING" /\ f.now = Top.now
        /\ f.duty = Top.duty
        BY <1>0, <1>a, ObservingTyped, ObservingKeeps
  <2> HIDE DEF f
  <2>3. Phased(f) BY <1>b, <2>2 DEF Phased
  <2>4. Top.duty = {} BY <1>b, <2>1 DEF Owed, Served
  <2>5. Owed(f) /\ Due(f) BY <2>2, <2>4 DEF Owed, Due
  <2> QED BY <1>0, <2>1, <2>2, <2>3, <2>5, TopServes DEF FrameOK
<1>c. ASSUME NEW r \in Result, r = "HANDLED_SOURCE" \/ Top.duty = {}
      PROVE  LET f == Leaving(Top, r)
             IN  f \in Frame /\ f.duty = Top.duty /\ FrameOK(f) /\ f.pc = "observe"
  <2> DEFINE f == Leaving(Top, r)
  <2>1. /\ f \in Frame /\ f.result = r /\ f.duty = Top.duty /\ f.now = 0 /\ f.act = "EXIT"
        /\ f.pc = "observe"
        BY <1>0, LeavingTyped, LeavingKeeps
  <2> HIDE DEF f
  <2>2. Phased(f) BY <2>1, RunLoopAssumption DEF Phased
  <2>3. Owed(f) BY <1>b, <1>c, <2>1 DEF Owed, Served
  <2>4. Due(f) BY <1>b, <2>1 DEF Due
  <2> QED BY <2>1, <2>2, <2>3, <2>4 DEF FrameOK, f
<1>7. CASE AfterWaiting
  <2>1. PICK r \in Result : SetTop(Leaving(Top, r))
        BY <1>7 DEF AfterWaiting, Result
  <2>2. Top.pc = "observe" /\ Top.act = "AFTER_WAITING" BY <1>7 DEF AfterWaiting
  <2>3. Top.duty = {} BY <1>b, <2>2 DEF Owed, Served
  <2> DEFINE f == Leaving(Top, r)
  <2>4. f \in Frame /\ f.duty = Top.duty /\ FrameOK(f) /\ f.pc = "observe" BY <1>c, <2>3
  <2> HIDE DEF f
  <2> QED BY <1>0, <2>1, <2>2, <2>4, TopServes DEF f
<1>8. CASE ObserverReturns
  <2> DEFINE f == [Top EXCEPT !.pc = "observe"]
  <2>1. Top.pc = "in_observer" /\ SetTop(f) BY <1>8 DEF ObserverReturns
  <2>2. /\ f \in Frame /\ f.mode = Top.mode /\ f.pc = "observe" /\ f.act = Top.act
        /\ f.todo = Top.todo /\ f.item = Top.item /\ f.now = Top.now /\ f.result = Top.result
        /\ f.duty = Top.duty
        BY <1>0 DEF Frame, LoopPC
  <2> HIDE DEF f
  <2>3. Phased(f) BY <1>b, <2>2 DEF Phased
  <2>4. Owed(f) BY <1>b, <2>1, <2>2 DEF Owed, Served
  <2>5. Due(f) BY <1>b, <2>2 DEF Due
  <2> QED BY <1>0, <2>1, <2>2, <2>3, <2>4, <2>5, TopServes DEF FrameOK
<1>9. CASE SourceReturns
  <2>1. Top.pc = "in_source" /\ SetTop(AfterCallback(Top, "sources")) BY <1>9 DEF SourceReturns
  <2>2. CASE Top.ras
    <3> DEFINE f == Leaving(Top, "HANDLED_SOURCE")
    <3>1. "HANDLED_SOURCE" \in Result BY DEF Result
    <3>2. f \in Frame /\ f.duty = Top.duty /\ FrameOK(f) /\ f.pc = "observe" BY <1>c, <3>1
    <3>3. SetTop(f) BY <2>1, <2>2 DEF AfterCallback
    <3> HIDE DEF f
    <3> QED BY <1>0, <2>1, <3>2, <3>3, TopServes
  <2>3. CASE ~Top.ras
    <3> DEFINE f == [Top EXCEPT !.pc = "sources", !.item = Null]
    <3>1. SetTop(f) BY <2>1, <2>3 DEF AfterCallback
    <3>2. /\ f \in Frame /\ f.mode = Top.mode /\ f.pc = "sources" /\ f.act = Top.act
          /\ f.todo = Top.todo /\ f.now = Top.now /\ f.result = Top.result /\ f.duty = Top.duty
          BY <1>0 DEF Frame, LoopPC
    <3> HIDE DEF f
    <3>3. Phased(f) BY <1>b, <2>1, <3>2 DEF Phased
    <3>4. Owed(f) BY <1>b, <2>1, <3>2 DEF Owed, Served
    <3>5. Due(f) BY <1>b, <3>2 DEF Due
    <3> QED BY <1>0, <2>1, <3>1, <3>2, <3>3, <3>4, <3>5, TopServes DEF FrameOK
  <2> QED BY <2>2, <2>3
<1> QED BY <1>1, <1>2, <1>3, <1>4, <1>5, <1>6, <1>7, <1>8, <1>9

LEMMA TopOK ==
  ASSUME Inv, Duties, frames # <<>>
  PROVE  /\ Shape /\ Top \in Frame /\ Top = frames[Depth] /\ Depth \in DOMAIN frames
         /\ Phased(Top) /\ Owed(Top) /\ Due(Top)
         /\ \A d \in DOMAIN frames : frames[d].pc = "perform" => d = Depth
<1>1. Shape /\ Top \in Frame /\ Depth \in DOMAIN frames /\ Top = frames[Depth]
      BY TopTyped DEF Inv, Top
<1>2. FrameOK(Top) BY <1>1 DEF Duties, AllOK
<1>3. \A d \in DOMAIN frames : frames[d].pc = "perform" => d = Depth
      BY DEF Duties, Nested, CallbackPC, Depth
<1> QED BY <1>1, <1>2, <1>3 DEF FrameOK

(* The source of the duty that comes up has its flag up, since nobody else *)
(* can be about to perform it: it is dispatched.                           *)
LEMMA CheckSourceServes ==
  ASSUME Inv, Duties, CheckSource
  PROVE  Duties'
<1>0. /\ frames # <<>> /\ Top.pc = "sources"
      /\ UNCHANGED <<modes, clock, fire_date>>
      BY DEF CheckSource, Running
<1>a. /\ Shape /\ Top \in Frame /\ Top = frames[Depth] /\ Depth \in DOMAIN frames
      /\ Phased(Top) /\ Owed(Top) /\ Due(Top)
      /\ \A d \in DOMAIN frames : frames[d].pc # "perform"
      BY <1>0, TopOK
<1>b. Top.act = "BEFORE_SOURCES" /\ Top.todo \subseteq Sources BY <1>0, <1>a DEF Phased
<1>1. PICK s \in Top.todo :
        IF signaled[s]
        THEN /\ signaled' = [signaled EXCEPT ![s] = FALSE]
             /\ SetTop([Top EXCEPT !.pc = "perform", !.item = s, !.todo = Top.todo \ {s}])
        ELSE /\ SetTop([Top EXCEPT !.todo = Top.todo \ {s}])
             /\ UNCHANGED signaled
      BY DEF CheckSource
<1>2. CASE signaled[s]
  <2> DEFINE f == [Top EXCEPT !.pc = "perform", !.item = s, !.todo = Top.todo \ {s}]
  <2>1. /\ f \in Frame /\ f.mode = Top.mode /\ f.pc = "perform" /\ f.item = s /\ f.act = Top.act
        /\ f.todo = Top.todo \ {s} /\ f.now = Top.now /\ f.result = Top.result /\ f.duty = Top.duty
        BY <1>a DEF Frame, LoopPC
  <2>2. SetTop(f) /\ signaled' = [signaled EXCEPT ![s] = FALSE] BY <1>1, <1>2
  <2> HIDE DEF f
  <2>3. Phased(f) BY <1>a, <1>b, <2>1 DEF Phased
  <2>4. Owed(f) BY <1>0, <1>a, <1>b, <2>1 DEF Owed, Served
  <2>5. Due(f) BY <1>a, <2>1 DEF Due
  <2>6. /\ Len(frames') = Len(frames) /\ DOMAIN frames' = DOMAIN frames
        /\ frames'[Depth] = f /\ \A d \in DOMAIN frames \ {Depth} : frames'[d] = frames[d]
        BY <1>0, <1>a, <2>1, <2>2, SetTopDoes
  <2>7. Less(frames'[Depth], f) /\ \A d \in DOMAIN frames \ {Depth} : Less(frames'[d], frames[d])
        BY <2>6, LessSelf
  <2>8. SameIn /\ Dates' BY <1>0 DEF SameIn, In, Dates, Duties
  <2>9. AllOK' /\ Nested' /\ InTimer'
        BY <1>0, <2>1, <2>3, <2>4, <2>5, <2>6, <2>7, <2>8, TopSteps DEF FrameOK
  <2>10. ASSUME NEW d \in DOMAIN frames, NEW r \in frames'[d].duty \cap Sources
         PROVE  signaled'[r] \/ \E e \in DOMAIN frames' : frames'[e].pc = "perform" /\ frames'[e].item = r
    <3>1. CASE r = s BY <1>a, <2>1, <2>6, <3>1
    <3>2. CASE r # s
      <4>1. r \in frames[d].duty BY <1>a, <2>1, <2>6, <2>10
      <4>2. signaled[r] BY <1>a, <2>10, <4>1 DEF Duties, Flagged, Performing
      <4>3. signaled'[r] = signaled[r] BY <1>a, <2>2, <2>10, <3>2 DEF Shape
      <4> QED BY <4>2, <4>3
    <3> QED BY <3>1, <3>2
  <2>11. Flagged' BY <2>6, <2>10 DEF Flagged, Performing
  <2> QED BY <2>8, <2>9, <2>11 DEF Duties
<1>3. CASE ~signaled[s]
  <2> DEFINE f == [Top EXCEPT !.todo = Top.todo \ {s}]
  <2>1. /\ f \in Frame /\ f.mode = Top.mode /\ f.pc = Top.pc /\ f.item = Top.item /\ f.act = Top.act
        /\ f.todo = Top.todo \ {s} /\ f.now = Top.now /\ f.result = Top.result /\ f.duty = Top.duty
        BY <1>a DEF Frame
  <2>2. SetTop(f) /\ UNCHANGED signaled BY <1>1, <1>3
  <2> HIDE DEF f
  <2>3. s \notin Top.duty
        BY <1>3, <1>a, <1>b DEF Duties, Flagged, Performing
  <2>4. Phased(f) BY <1>a, <1>b, <2>1 DEF Phased
  <2>5. Owed(f) BY <1>0, <1>a, <1>b, <2>1, <2>3 DEF Owed, Served
  <2>6. Due(f) BY <1>a, <2>1 DEF Due
  <2> QED BY <1>0, <2>1, <2>2, <2>4, <2>5, <2>6, TopServes DEF FrameOK
<1> QED BY <1>2, <1>3

(* A dispatch of i discharges every run of i. *)
LEMMA DispatchDischarges ==
  ASSUME Shape, frames # <<>>, NEW i, NEW f \in Frame, frames' = Dispatched(i, f)
  PROVE  /\ DOMAIN frames' = DOMAIN frames /\ Len(frames') = Len(frames)
         /\ frames'[Depth] = [f EXCEPT !.duty = f.duty \ {i}]
         /\ \A d \in DOMAIN frames \ {Depth} : Less(frames'[d], frames[d])
         /\ \A d \in DOMAIN frames : i \notin frames'[d].duty
<1>1. DOMAIN frames' = DOMAIN frames /\ Len(frames') = Len(frames) BY DispatchedDoes
<1>2. Depth \in DOMAIN frames BY TopTyped
<1>3. \A d \in DOMAIN frames : frames[d] \in Frame BY DEF Shape
<1>4. ASSUME NEW g \in Frame
      PROVE  /\ Less([g EXCEPT !.duty = g.duty \ {i}], g) /\ i \notin [g EXCEPT !.duty = g.duty \ {i}].duty
      BY DEF Frame, Less
<1>5. frames'[Depth] = [f EXCEPT !.duty = f.duty \ {i}] BY <1>2 DEF Dispatched
<1>6. \A d \in DOMAIN frames \ {Depth} : frames'[d] = [frames[d] EXCEPT !.duty = frames[d].duty \ {i}]
      BY DEF Dispatched
<1>7. \A d \in DOMAIN frames \ {Depth} : Less(frames'[d], frames[d]) /\ i \notin frames'[d].duty
      BY <1>3, <1>4, <1>6
<1>8. i \notin frames'[Depth].duty BY <1>4, <1>5
<1> QED BY <1>1, <1>5, <1>7, <1>8

LEMMA PerformServes ==
  ASSUME Inv, Duties, Perform
  PROVE  Duties'
<1>0. /\ frames # <<>> /\ Top.pc = "perform"
      /\ UNCHANGED <<modes, clock, fire_date, signaled>>
      BY DEF Perform, Running, loop
<1>a. /\ Shape /\ Top \in Frame /\ Top = frames[Depth] /\ Depth \in DOMAIN frames
      /\ Phased(Top) /\ Owed(Top) /\ Due(Top)
      /\ \A d \in DOMAIN frames : frames[d].pc = "perform" => d = Depth
      BY <1>0, TopOK
<1>b. Top.act = "BEFORE_SOURCES" /\ Top.item \in Sources BY <1>0, <1>a DEF Phased
<1> DEFINE f == [Top EXCEPT !.pc = "in_source"]
           g == [f EXCEPT !.duty = f.duty \ {Top.item}]
<1>1. /\ f \in Frame /\ f.mode = Top.mode /\ f.pc = "in_source" /\ f.act = Top.act /\ f.todo = Top.todo
      /\ f.item = Top.item /\ f.now = Top.now /\ f.result = Top.result /\ f.duty = Top.duty
      BY <1>a DEF Frame, CallbackPC
<1>2. frames' = Dispatched(Top.item, f) BY DEF Perform
<1> HIDE DEF f
<1>3. /\ g.mode = Top.mode /\ g.pc = "in_source" /\ g.act = Top.act /\ g.todo = Top.todo
      /\ g.item = Top.item /\ g.now = Top.now /\ g.result = Top.result /\ g.duty = Top.duty \ {Top.item}
      BY <1>1 DEF Frame
<1>4. /\ DOMAIN frames' = DOMAIN frames /\ Len(frames') = Len(frames) /\ frames'[Depth] = g
      /\ \A d \in DOMAIN frames \ {Depth} : Less(frames'[d], frames[d])
      /\ \A d \in DOMAIN frames : Top.item \notin frames'[d].duty
      BY <1>0, <1>a, <1>1, <1>2, DispatchDischarges
<1> HIDE DEF g
<1>5. Phased(g) BY <1>a, <1>b, <1>3 DEF Phased
<1>6. Owed(g) BY <1>0, <1>a, <1>b, <1>3 DEF Owed, Served
<1>7. Due(g) BY <1>a, <1>3 DEF Due
<1>8. SameIn /\ Dates' BY <1>0 DEF SameIn, In, Dates, Duties
<1>9. Less(frames'[Depth], g) BY <1>4, LessSelf
<1>10. AllOK' /\ Nested' /\ InTimer'
       BY <1>0, <1>3, <1>4, <1>5, <1>6, <1>7, <1>8, <1>9, TopSteps DEF FrameOK
<1>11. ASSUME NEW d \in DOMAIN frames, NEW r \in frames'[d].duty \cap Sources
       PROVE  signaled'[r]
  <2>1. r # Top.item /\ r \in frames[d].duty BY <1>a, <1>3, <1>4, <1>11 DEF Less
  <2>2. ~Performing(r) BY <1>a, <2>1 DEF Performing
  <2> QED BY <1>0, <1>11, <2>1, <2>2 DEF Duties, Flagged
<1>12. Flagged' BY <1>4, <1>11 DEF Flagged
<1> QED BY <1>8, <1>10, <1>12 DEF Duties

(* A timer of the duty is due at the time captured, so it is dispatched. *)
LEMMA CheckTimerServes ==
  ASSUME Inv, Duties, CheckTimer
  PROVE  Duties'
<1>0. /\ frames # <<>> /\ Top.pc = "timers"
      /\ UNCHANGED <<modes, clock, fire_date, signaled>>
      BY DEF CheckTimer, Running, loop
<1>a. /\ Shape /\ Top \in Frame /\ Top = frames[Depth] /\ Depth \in DOMAIN frames
      /\ Phased(Top) /\ Owed(Top) /\ Due(Top)
      BY <1>0, TopOK
<1>b. Top.act = "BEFORE_TIMERS" /\ Top.todo \subseteq Timers BY <1>0, <1>a DEF Phased
<1>1. PICK t \in Top.todo :
        frames' = IF Top.now >= fire_date[t]
                  THEN Dispatched(t, [Top EXCEPT !.pc = "in_timer", !.item = t, !.todo = Top.todo \ {t}])
                  ELSE [frames EXCEPT ![Depth].todo = Top.todo \ {t}]
      BY DEF CheckTimer
<1>2. CASE Top.now >= fire_date[t]
  <2> DEFINE f == [Top EXCEPT !.pc = "in_timer", !.item = t, !.todo = Top.todo \ {t}]
             g == [f EXCEPT !.duty = f.duty \ {t}]
  <2>1. /\ f \in Frame /\ f.mode = Top.mode /\ f.pc = "in_timer" /\ f.act = Top.act
        /\ f.todo = Top.todo \ {t} /\ f.item = t /\ f.now = Top.now /\ f.result = Top.result
        /\ f.duty = Top.duty
        BY <1>a DEF Frame, CallbackPC
  <2>2. frames' = Dispatched(t, f) BY <1>1, <1>2
  <2> HIDE DEF f
  <2>3. /\ g.mode = Top.mode /\ g.pc = "in_timer" /\ g.act = Top.act /\ g.todo = Top.todo \ {t}
        /\ g.item = t /\ g.now = Top.now /\ g.result = Top.result /\ g.duty = Top.duty \ {t}
        BY <2>1 DEF Frame
  <2>4. /\ DOMAIN frames' = DOMAIN frames /\ Len(frames') = Len(frames) /\ frames'[Depth] = g
        /\ \A d \in DOMAIN frames \ {Depth} : Less(frames'[d], frames[d])
        /\ \A d \in DOMAIN frames : t \notin frames'[d].duty
        BY <1>0, <1>a, <2>1, <2>2, DispatchDischarges
  <2> HIDE DEF g
  <2>5. Phased(g) BY <1>a, <1>b, <2>3 DEF Phased
  <2>6. Owed(g) BY <1>0, <1>a, <1>b, <2>3 DEF Owed, Served
  <2>7. Due(g) BY <1>a, <1>b, <2>3 DEF Due
  <2>8. SameIn /\ Dates' BY <1>0 DEF SameIn, In, Dates, Duties
  <2>9. Less(frames'[Depth], g) BY <2>4, LessSelf
  <2>10. AllOK' /\ Nested' /\ InTimer'
         BY <1>0, <2>3, <2>4, <2>5, <2>6, <2>7, <2>8, <2>9, TopSteps DEF FrameOK
  <2>11. frames'[Depth].duty \subseteq Top.duty /\ Top.pc # "perform" BY <1>0, <2>3, <2>4
  <2>12. Flagged' BY <1>0, <1>a, <2>4, <2>11, FlagsStay
  <2> QED BY <2>8, <2>10, <2>12 DEF Duties
<1>3. CASE ~(Top.now >= fire_date[t])
  <2> DEFINE f == [Top EXCEPT !.todo = Top.todo \ {t}]
  <2>1. /\ f \in Frame /\ f.mode = Top.mode /\ f.pc = Top.pc /\ f.item = Top.item /\ f.act = Top.act
        /\ f.todo = Top.todo \ {t} /\ f.now = Top.now /\ f.result = Top.result /\ f.duty = Top.duty
        BY <1>a DEF Frame
  <2>2. frames' = [frames EXCEPT ![Depth].todo = Top.todo \ {t}] BY <1>1, <1>3
  <2>3. SetTop(f) BY <1>a, <2>2 DEF SetTop
  <2> HIDE DEF f
  <2>4. t \notin Top.duty
    <3>1. fire_date[t] \in Int /\ Top.now \in Int
          BY <1>a, <1>b, RunLoopAssumption DEF Duties, Dates, Time, Never, Frame
    <3> QED BY <1>3, <1>a, <1>b, <3>1 DEF Due
  <2>5. Phased(f) BY <1>a, <1>b, <2>1 DEF Phased
  <2>6. Owed(f) BY <1>0, <1>a, <1>b, <2>1, <2>4 DEF Owed, Served
  <2>7. Due(f) BY <1>a, <2>1 DEF Due
  <2> QED BY <1>0, <2>1, <2>3, <2>5, <2>6, <2>7, TopServes DEF FrameOK
<1> QED BY <1>2, <1>3

(* The fire date that changes is that of a timer nobody owes. *)
LEMMA TimerReturnsServes ==
  ASSUME Inv, Duties, TimerReturns
  PROVE  Duties'
<1>0. /\ frames # <<>> /\ Top.pc = "in_timer" /\ UNCHANGED <<modes, clock, signaled>>
      /\ fire_date' = [fire_date EXCEPT ![Top.item] = NextDate(Top)]
      /\ SetTop(AfterCallback(Top, "timers"))
      BY DEF TimerReturns, Running
<1>a. /\ Shape /\ Top \in Frame /\ Top = frames[Depth] /\ Depth \in DOMAIN frames
      /\ Phased(Top) /\ Owed(Top) /\ Due(Top)
      BY <1>0, TopOK
<1>b. Top.act = "BEFORE_TIMERS" /\ Top.item \in Timers /\ Top.now <= MaxClock BY <1>0, <1>a DEF Phased
<1>1. NextDate(Top) \in Time
  <2>1. Top.now \in Time /\ Interval[Top.item] \in 0 .. 999 BY <1>a, <1>b, RunLoopAssumption DEF Frame
  <2>2. PICK n, k : n = Top.now /\ k = Interval[Top.item] OBVIOUS
  <2>a. MaxClock \in Nat BY RunLoopAssumption
  <2>b. n \in Time /\ k \in 0 .. 999 /\ n <= MaxClock BY <1>b, <2>1, <2>2
  <2>3. MaxClock \in Nat /\ n \in Int /\ n >= 0 /\ n <= MaxClock /\ k \in 0 .. 999
        BY <2>a, <2>b DEF Time, Never
  <2>4. n + k \in Int /\ n + k >= 0 /\ n + k <= MaxClock + 1000 BY <2>3
  <2>5. n + k \in Time /\ Never \in Time BY <2>3, <2>4 DEF Time, Never
  <2> QED BY <2>2, <2>5 DEF NextDate
<1>2. Dates' BY <1>0, <1>1 DEF Dates, Duties
<1>3. PICK f \in Frame : /\ SetTop(f) /\ f.duty = Top.duty /\ FrameOK(f) /\ f.pc \in {"observe", "timers"}
  <2>1. CASE Top.ras
    <3> DEFINE f == Leaving(Top, "HANDLED_SOURCE")
    <3>1. "HANDLED_SOURCE" \in Result BY DEF Result
    <3>2. /\ f \in Frame /\ f.result = "HANDLED_SOURCE" /\ f.duty = Top.duty /\ f.now = 0 /\ f.act = "EXIT"
          /\ f.pc = "observe"
          BY <1>a, <3>1, LeavingTyped, LeavingKeeps
    <3>3. SetTop(f) BY <1>0, <2>1 DEF AfterCallback
    <3> HIDE DEF f
    <3>4. Phased(f) BY <3>2, RunLoopAssumption DEF Phased
    <3>5. Owed(f) BY <1>a, <3>2 DEF Owed, Served
    <3>6. Due(f) BY <1>a, <3>2 DEF Due
    <3> QED BY <3>2, <3>3, <3>4, <3>5, <3>6 DEF FrameOK
  <2>2. CASE ~Top.ras
    <3> DEFINE f == [Top EXCEPT !.pc = "timers", !.item = Null]
    <3>1. SetTop(f) BY <1>0, <2>2 DEF AfterCallback
    <3>2. /\ f \in Frame /\ f.mode = Top.mode /\ f.pc = "timers" /\ f.act = Top.act
          /\ f.todo = Top.todo /\ f.now = Top.now /\ f.result = Top.result /\ f.duty = Top.duty
          BY <1>a DEF Frame, LoopPC
    <3> HIDE DEF f
    <3>3. Phased(f) BY <1>a, <1>b, <3>2 DEF Phased
    <3>4. Owed(f) BY <1>0, <1>a, <1>b, <3>2 DEF Owed, Served
    <3>5. Due(f) BY <1>a, <3>2 DEF Due
    <3> QED BY <3>1, <3>2, <3>3, <3>4, <3>5 DEF FrameOK
  <2> QED BY <2>1, <2>2
<1>4. /\ Len(frames') = Len(frames) /\ DOMAIN frames' = DOMAIN frames
      /\ frames'[Depth] = f /\ \A d \in DOMAIN frames \ {Depth} : frames'[d] = frames[d]
      BY <1>0, <1>3, <1>a, SetTopDoes
<1>5. Less(frames'[Depth], f) /\ \A d \in DOMAIN frames \ {Depth} : Less(frames'[d], frames[d])
      BY <1>4, LessSelf
<1>6. \A d \in DOMAIN frames : Top.item \notin frames[d].duty
  <2>1. \A d \in DOMAIN frames : d <= Depth BY <1>0, <1>a, TopTyped
  <2> QED BY <1>0, <1>a, <2>1 DEF Duties, InTimer
<1>7. \A d \in DOMAIN frames : Top.item \notin frames'[d].duty BY <1>3, <1>4, <1>6, <1>a
<1>8. \A d \in DOMAIN frames : \A t \in frames'[d].duty \cap Timers : fire_date'[t] = fire_date[t]
      BY <1>0, <1>7 DEF Dates, Duties
<1>9. SameIn BY <1>0 DEF SameIn, In
<1>10. f.pc # "in_timer" /\ frames'[Depth].duty \subseteq Top.duty /\ Top.pc # "perform"
       BY <1>0, <1>3, <1>4
<1>11. AllOK' /\ Nested' /\ InTimer'
       BY <1>0, <1>2, <1>3, <1>4, <1>5, <1>8, <1>9, <1>10, TopSteps
<1>12. Flagged' BY <1>0, <1>4, <1>5, <1>10, <1>a, FlagsStay
<1> QED BY <1>2, <1>11, <1>12 DEF Duties

-----------------------------------------------------------------------------
(* Runs that begin and end. *)

(* A new run owes what is ready in its mode. *)
LEMMA NewFrameOK ==
  ASSUME Shape, Dates, NEW m \in Mode, NEW forever \in BOOLEAN, NEW ras \in BOOLEAN, NEW again \in BOOLEAN
  PROVE  LET f == NewFrame(m, forever, ras, again)
         IN  /\ FrameOK(f) /\ f.pc = "observe" /\ \A s \in f.duty \cap Sources : signaled[s]
<1> DEFINE f == NewFrame(m, forever, ras, again)
           ds == {s \in In("sources", m) : signaled[s]}
           dt == {t \in In("timers", m) : clock >= fire_date[t]}
<1>1. /\ f.mode = m /\ f.pc = "observe" /\ f.act = "ENTRY" /\ f.todo = {} /\ f.item = Null /\ f.now = 0
      /\ f.duty = ds \cup dt
      BY DEF NewFrame
<1>2. In("sources", m) \subseteq Sources /\ In("timers", m) \subseteq Timers BY InTyped
<1>3. ds \subseteq In("sources", m) /\ dt \subseteq In("timers", m) /\ (\A s \in ds : signaled[s]) OBVIOUS
<1>4. \A t \in dt : fire_date[t] <= clock
  <2>1. \A t \in dt : fire_date[t] \in Int /\ clock \in Int
        BY <1>2, <1>3, RunLoopAssumption DEF Dates, Time, Never, Shape
  <2> QED BY <2>1
<1> HIDE DEF f, ds, dt
<1>5. Sources \cap Timers = {} /\ 0 <= MaxClock BY RunLoopAssumption
<1>6. (ds \cup dt) \cap Sources \subseteq ds /\ (ds \cup dt) \cap Timers \subseteq dt BY <1>2, <1>3, <1>5
<1>7. Phased(f) BY <1>1, <1>5 DEF Phased
<1>8. Owed(f) BY <1>1, <1>2, <1>3 DEF Owed, Served
<1>9. Due(f) BY <1>1, <1>3, <1>4, <1>6 DEF Due
<1> QED BY <1>1, <1>3, <1>6, <1>7, <1>8, <1>9 DEF FrameOK, f

(* The innermost run is over. *)
LEMMA PopServes ==
  ASSUME Inv, Duties, frames # <<>>, Top.pc # "perform", frames' = Pop(frames), SameIn,
         UNCHANGED <<clock, signaled, fire_date>>
  PROVE  Duties'
<1>0. /\ Shape /\ frames \in Seq(Frame) /\ Top = frames[Depth] /\ Depth = Len(frames)
      /\ DOMAIN frames = 1 .. Depth /\ Depth \in Nat /\ Depth >= 1 /\ clock \in Int /\ clock <= clock
      BY TopTyped, RunLoopAssumption DEF Inv, Shape, Top, Depth
<1>1. /\ Len(frames') = Depth - 1 /\ DOMAIN frames' = 1 .. (Depth - 1)
      /\ \A d \in DOMAIN frames' : d \in DOMAIN frames /\ frames'[d] = frames[d]
      BY <1>0, PopDoes
<1>2. ASSUME NEW d \in DOMAIN frames', NEW f, f = frames'[d] PROVE Phased(f) /\ Owed(f) /\ Due(f)'
  <2>1. Phased(f) /\ Owed(f) /\ Due(f) BY <1>1, <1>2 DEF Duties, AllOK, FrameOK
  <2> QED BY <1>0, <2>1, DueStays DEF Duties, SameIn
<1>3. AllOK' BY <1>2, OKFromDue
<1>4. Nested' BY <1>0, <1>1 DEF Duties, Nested
<1>5. InTimer' BY <1>1 DEF Duties, InTimer
<1>6. ASSUME NEW d \in DOMAIN frames', NEW s \in frames'[d].duty \cap Sources, ~signaled[s]
      PROVE  \E e \in DOMAIN frames' : frames'[e].pc = "perform" /\ frames'[e].item = s
  <2>1. PICK e \in DOMAIN frames : frames[e].pc = "perform" /\ frames[e].item = s
        BY <1>1, <1>6 DEF Duties, Flagged, Performing
  <2>2. e # Depth BY <1>0, <2>1
  <2>3. e \in DOMAIN frames' BY <1>0, <1>1, <2>2
  <2> QED BY <1>1, <2>1, <2>3
<1>7. Flagged' BY <1>6 DEF Flagged, Performing
<1> QED BY <1>3, <1>4, <1>5, <1>7 DEF Duties, Dates

LEMMA ReturnServes ==
  ASSUME Inv, Duties, Return \/ RunAgain
  PROVE  Duties'
<1>0. frames # <<>> /\ Top.pc = "observe" /\ UNCHANGED <<clock, signaled, fire_date>>
      BY DEF Return, RunAgain, Running
<1>a. Shape /\ Top = frames[Depth] /\ Depth \in DOMAIN frames BY <1>0, TopOK
<1>1. CASE Return
  <2>1. SameIn BY <1>1 DEF Return, SameIn, In
  <2> QED BY <1>0, <1>1, <2>1, PopServes DEF Return
<1>2. CASE RunAgain
  <2>0. Default \in Mode /\ {Default} \in SUBSET Mode /\ TRUE \in BOOLEAN /\ FALSE \in BOOLEAN BY DEF Mode
  <2>1. SameIn BY <1>2, <1>a, <2>0, WithModesKeeps DEF RunAgain, SameIn
  <2>2. CASE stopped BY <1>0, <1>2, <2>1, <2>2, PopServes DEF RunAgain
  <2>3. CASE ~stopped
    <3> DEFINE f == NewFrame(Default, TRUE, FALSE, TRUE)
    <3>1. f \in Frame BY <1>a, <2>0, NewFrameTyped
    <3>2. FrameOK(f) /\ f.pc = "observe" /\ \A s \in f.duty \cap Sources : signaled[s]
          BY <1>a, <2>0, NewFrameOK DEF Duties
    <3>3. SetTop(f) BY <1>2, <2>3 DEF RunAgain
    <3> HIDE DEF f
    <3>4. /\ Len(frames') = Len(frames) /\ DOMAIN frames' = DOMAIN frames
          /\ frames'[Depth] = f /\ \A d \in DOMAIN frames \ {Depth} : frames'[d] = frames[d]
          BY <1>0, <1>a, <3>1, <3>3, SetTopDoes
    <3>5. Less(frames'[Depth], f) /\ \A d \in DOMAIN frames \ {Depth} : Less(frames'[d], frames[d])
          BY <3>4, LessSelf
    <3>6. Dates' BY <1>0 DEF Dates, Duties
    <3>7. f.pc # "in_timer" BY <3>2
    <3>8. AllOK' /\ Nested' /\ InTimer' BY <1>0, <2>1, <3>2, <3>4, <3>5, <3>6, <3>7, TopSteps
    <3>9. ASSUME NEW d \in DOMAIN frames, NEW s \in frames'[d].duty \cap Sources, ~signaled[s]
          PROVE  \E e \in DOMAIN frames' : frames'[e].pc = "perform" /\ frames'[e].item = s
      <4>1. d # Depth BY <3>2, <3>4, <3>9
      <4>2. PICK e \in DOMAIN frames : frames[e].pc = "perform" /\ frames[e].item = s
            BY <3>4, <3>9, <4>1 DEF Duties, Flagged, Performing
      <4>3. e # Depth BY <1>0, <1>a, <4>2
      <4> QED BY <3>4, <4>2, <4>3
    <3>10. Flagged' BY <1>0, <3>4, <3>9 DEF Flagged, Performing
    <3> QED BY <3>6, <3>8, <3>10 DEF Duties
  <2> QED BY <2>2, <2>3
<1> QED BY <1>1, <1>2

(* A run on top of those in progress, whose innermost is in a callback. *)
LEMMA EnterServes ==
  ASSUME Inv, Duties, InGuest, NEW m \in Mode, NEW forever \in BOOLEAN, NEW ras \in BOOLEAN,
         NEW again \in BOOLEAN, Enter(frames, m, forever, ras, again),
         UNCHANGED <<clock, signaled, fire_date>>
  PROVE  Duties'
<1>0. Shape /\ {m} \in SUBSET Mode /\ clock \in Int /\ clock <= clock
      BY RunLoopAssumption DEF Inv, Shape
<1>1. SameIn BY <1>0, WithModesKeeps DEF Enter, SameIn
<1>a. ASSUME NEW f, FrameOK(f) PROVE Phased(f) /\ Owed(f) /\ Due(f)'
  <2>1. Phased(f) /\ Owed(f) /\ Due(f) BY <1>a DEF FrameOK
  <2> QED BY <1>0, <1>1, <2>1, DueStays DEF Duties, SameIn
<1>2. CASE stopped
  <2>1. UNCHANGED frames BY <1>2 DEF Enter
  <2>2. AllOK' BY <1>a, <2>1, OKFromDue DEF Duties, AllOK
  <2> QED BY <2>1, <2>2 DEF Duties, Nested, Flagged, Performing, InTimer, Dates
<1>3. CASE ~stopped
  <2> DEFINE f == NewFrame(m, forever, ras, again)
  <2>1. f \in Frame BY <1>0, NewFrameTyped
  <2>2. FrameOK(f) /\ f.pc = "observe" /\ \A s \in f.duty \cap Sources : signaled[s]
        BY <1>0, NewFrameOK DEF Duties
  <2>3. frames' = Append(frames, f) BY <1>3 DEF Enter
  <2> HIDE DEF f
  <2> DEFINE k == Len(frames)
  <2>4. /\ Len(frames') = k + 1 /\ DOMAIN frames' = 1 .. (k + 1) /\ DOMAIN frames = 1 .. k /\ k \in Nat
        /\ frames'[k + 1] = f /\ \A d \in 1 .. k : frames'[d] = frames[d]
        BY <1>0, <2>1, <2>3, AppendDoes DEF Shape
  <2>a. \A d \in DOMAIN frames : frames[d].pc \in CallbackPC
    <3>1. \A d \in DOMAIN frames : d # k => frames[d].pc \in CallbackPC BY DEF Duties, Nested
    <3>2. k \in DOMAIN frames => frames # <<>> BY <1>0 DEF Shape
    <3>3. k \in DOMAIN frames => frames[k].pc \in CallbackPC BY <3>2 DEF InGuest, Top, Depth
    <3> QED BY <3>1, <3>3
  <2> HIDE DEF k
  <2>5. \A d \in DOMAIN frames' : (d \in DOMAIN frames /\ frames'[d] = frames[d] /\ d <= k) \/ d = k + 1 BY <2>4
  <2>6. \A d \in DOMAIN frames : d \in DOMAIN frames' /\ frames'[d] = frames[d] BY <2>4
  <2>7. \A d \in DOMAIN frames' : FrameOK(frames'[d]) BY <2>2, <2>4, <2>5 DEF Duties, AllOK
  <2>8. AllOK' BY <1>a, <2>7, OKFromDue
  <2>9. Nested' BY <2>4, <2>5, <2>a DEF Nested
  <2>10. ASSUME NEW d \in DOMAIN frames', NEW e \in DOMAIN frames', frames'[d].pc = "in_timer", e <= d
         PROVE  frames'[d].item \notin frames'[e].duty
    <3>1. d # k + 1 BY <2>2, <2>4, <2>10
    <3>2. d \in DOMAIN frames /\ d <= k BY <2>5, <3>1
    <3>3. e \in DOMAIN frames BY <2>4, <2>5, <2>10, <3>2
    <3> QED BY <2>6, <2>10, <3>2, <3>3 DEF Duties, InTimer
  <2>11. InTimer' BY <2>10 DEF InTimer
  <2>12. ASSUME NEW d \in DOMAIN frames', NEW s \in frames'[d].duty \cap Sources, ~signaled[s]
         PROVE  \E e \in DOMAIN frames' : frames'[e].pc = "perform" /\ frames'[e].item = s
    <3>1. d \in DOMAIN frames /\ frames'[d] = frames[d] BY <2>2, <2>4, <2>5, <2>12
    <3>2. PICK e \in DOMAIN frames : frames[e].pc = "perform" /\ frames[e].item = s
          BY <2>12, <3>1 DEF Duties, Flagged, Performing
    <3> QED BY <2>6, <3>2
  <2>13. Flagged' BY <2>12 DEF Flagged, Performing
  <2> QED BY <2>8, <2>9, <2>11, <2>13 DEF Duties, Dates
<1> QED BY <1>2, <1>3

-----------------------------------------------------------------------------
(* What guest code, other threads and the clock do to the duties. *)

(* The frames as they are, the modes grown, the clock advanced, flags up. *)
LEMMA FramesRest ==
  ASSUME Inv, Inv', Duties, UNCHANGED <<frames, fire_date>>, clock <= clock',
         \A m : In("sources", m) \subseteq In("sources", m)',
         \A m : In("timers", m) \subseteq In("timers", m)',
         \A s \in Sources : signaled[s] => signaled'[s]
  PROVE  Duties'
<1>0. clock \in Int /\ clock' \in Int BY RunLoopAssumption DEF Inv, Shape
<1>1. ASSUME NEW d \in DOMAIN frames', NEW f, f = frames'[d] PROVE Phased(f) /\ Owed(f) /\ Due(f)'
  <2>1. Phased(f) /\ Owed(f) /\ Due(f) BY <1>1 DEF Duties, AllOK, FrameOK
  <2>2. PICK A, B : A = In("sources", f.mode)' /\ B = In("timers", f.mode)' OBVIOUS
  <2>3. In("sources", f.mode) \subseteq A /\ In("timers", f.mode) \subseteq B BY <2>2
  <2>4. \A x \in f.duty : (x \in In("sources", f.mode) => x \in A) /\ (x \in In("timers", f.mode) => x \in B)
        BY <2>3
  <2>5. Due(f)' BY <1>0, <2>1, <2>2, <2>4, DueStays DEF Duties
  <2> QED BY <2>1, <2>5
<1>2. AllOK' BY <1>1, OKFromDue
<1>3. Flagged' BY DEF Duties, Flagged, Performing
<1> QED BY <1>2, <1>3 DEF Duties, Nested, InTimer, Dates

(* What a removal takes out of a mode it takes off the duties there. *)
LEMMA RemoveServes ==
  ASSUME Inv, Duties, NEW kind \in Kind, NEW i \in Item, NEW m \in Mode, Remove(kind, i, m)
  PROVE  Duties'
<1>0. Shape /\ clock \in Int /\ clock <= clock BY RunLoopAssumption DEF Inv, Shape
<1>1. PICK T : T = Targets(m) OBVIOUS
<1>2. /\ \A n : In("sources", n) \ {i} \subseteq In("sources", n)' /\ In("timers", n) \ {i} \subseteq In("timers", n)'
      /\ \A n : n \notin T => In("sources", n)' = In("sources", n) /\ In("timers", n)' = In("timers", n)
      BY <1>0, <1>1, RemoveShrinks
<1>3. UNCHANGED <<signaled, fire_date, clock>> /\ DOMAIN frames' = DOMAIN frames BY DEF Remove
<1>a. Len(frames') = Len(frames)
  <2>1. Inv' BY RemoveKeeps
  <2>2. Len(frames) \in Nat /\ Len(frames') \in Nat /\ DOMAIN frames = 1 .. Len(frames) /\ DOMAIN frames' = 1 .. Len(frames')
        BY <2>1 DEF Inv, Shape
  <2> QED BY <1>3, <2>2
<1>4. ASSUME NEW d \in DOMAIN frames
      PROVE  Less(frames'[d], frames[d]) /\ (frames[d].mode \in T => i \notin frames'[d].duty)
  <2>1. PICK f \in Frame : f = frames[d] BY <1>0, <1>4 DEF Shape
  <2>2. PICK x : x = f.gone \cup (Snapshot(f) \cap {i}) OBVIOUS
  <2>3. frames'[d] = IF f.mode \in T THEN [f EXCEPT !.duty = f.duty \ {i}, !.gone = x] ELSE f
    <3>1. frames'[d] = IF f.mode \in Targets(m)
                       THEN [f EXCEPT !.duty = f.duty \ {i}, !.gone = f.gone \cup (Snapshot(f) \cap {i})]
                       ELSE f
          BY <1>4, <2>1 DEF Remove
    <3> QED BY <1>1, <2>2, <3>1
  <2>4. /\ Less([f EXCEPT !.duty = f.duty \ {i}, !.gone = x], f)
        /\ i \notin [f EXCEPT !.duty = f.duty \ {i}, !.gone = x].duty
        BY DEF Frame, Less
  <2> QED BY <2>1, <2>3, <2>4, LessSelf
<1>5. ASSUME NEW d \in DOMAIN frames', NEW g, g = frames'[d] PROVE Phased(g) /\ Owed(g) /\ Due(g)'
  <2>1. PICK f : f = frames[d] OBVIOUS
  <2>2. FrameOK(f) /\ Less(g, f) /\ g.mode = f.mode /\ (f.mode \in T => i \notin g.duty)
        BY <1>3, <1>4, <1>5, <2>1 DEF Duties, AllOK, Less
  <2>3. FrameOK(g) BY <2>2, LessOK
  <2>4. PICK A, B : A = In("sources", g.mode)' /\ B = In("timers", g.mode)' OBVIOUS
  <2>5. /\ In("sources", g.mode) \ {i} \subseteq A /\ In("timers", g.mode) \ {i} \subseteq B
        /\ g.mode \notin T => A = In("sources", g.mode) /\ B = In("timers", g.mode)
        BY <1>2, <2>4
  <2>6. \A x \in g.duty : (x \in In("sources", g.mode) => x \in A) /\ (x \in In("timers", g.mode) => x \in B)
        BY <2>2, <2>5
  <2>7. Due(g)' BY <1>0, <1>3, <2>3, <2>4, <2>6, DueStays DEF Duties, FrameOK
  <2> QED BY <2>3, <2>7 DEF FrameOK
<1>6. AllOK' BY <1>5, OKFromDue
<1>7. Nested' BY <1>3, <1>4, <1>a DEF Duties, Nested, Less
<1>8. Flagged'
  <2>1. \A d \in DOMAIN frames : frames'[d].duty \subseteq frames[d].duty
                                 /\ frames'[d].pc = frames[d].pc /\ frames'[d].item = frames[d].item
        BY <1>4 DEF Less
  <2> QED BY <1>3, <2>1 DEF Duties, Flagged, Performing
<1>9. InTimer'
  <2>1. \A d \in DOMAIN frames : frames'[d].duty \subseteq frames[d].duty
                                 /\ frames'[d].pc = frames[d].pc /\ frames'[d].item = frames[d].item
        BY <1>4 DEF Less
  <2> QED BY <1>3, <2>1 DEF Duties, InTimer
<1> QED BY <1>3, <1>6, <1>7, <1>8, <1>9 DEF Duties, Dates

LEMMA OutsideServes ==
  ASSUME Inv, Inv', Duties, Guest \/ Anyone \/ Tick \/ UNCHANGED vars
  PROVE  Duties'
<1>0. Shape /\ clock \in Int /\ clock <= clock BY RunLoopAssumption DEF Inv, Shape
<1>1. ASSUME NEW kind, NEW i, NEW m \in Mode, Add(kind, i, m),
             \/ kind = "sources" /\ i \in Sources
             \/ kind = "timers" /\ i \in Timers
             \/ kind = "observers" /\ i \in Observers
      PROVE  Duties'
  <2>1. /\ \A n : In("sources", n) \subseteq In("sources", n)'
        /\ \A n : In("timers", n) \subseteq In("timers", n)'
        BY <1>0, <1>1, AddGrows
  <2>2. UNCHANGED <<frames, fire_date, clock, signaled>> BY <1>1 DEF Add
  <2> QED BY <1>0, <2>1, <2>2, FramesRest
<1>2. ASSUME NEW kind \in Kind, NEW i \in Item, NEW m \in Mode, Remove(kind, i, m) PROVE Duties'
      BY <1>2, RemoveServes
<1>3. CASE \E m \in Mode :
             \/ \E s \in Sources : CFRunLoopAddSource(s, m) \/ CFRunLoopRemoveSource(s, m)
             \/ \E t \in Timers : CFRunLoopAddTimer(t, m) \/ CFRunLoopRemoveTimer(t, m)
             \/ \E o \in Observers : CFRunLoopAddObserver(o, m) \/ CFRunLoopRemoveObserver(o, m)
      BY <1>1, <1>2, <1>3
      DEF CFRunLoopAddSource, CFRunLoopRemoveSource, CFRunLoopAddTimer, CFRunLoopRemoveTimer,
          CFRunLoopAddObserver, CFRunLoopRemoveObserver, Kind, Item
<1>4. ASSUME NEW m \in UserModes, CFRunLoopAddCommonMode(m) PROVE Duties'
  <2>1. modes' = WithModes({m}) /\ {m} \in SUBSET Mode /\ UNCHANGED <<frames, fire_date, clock, signaled>>
        BY <1>4 DEF CFRunLoopAddCommonMode, Mode
  <2>2. /\ \A n : In("sources", n)' = In("sources", n)
        /\ \A n : In("timers", n)' = In("timers", n)
        BY <1>0, <2>1, WithModesKeeps
  <2> QED BY <1>0, <2>1, <2>2, FramesRest
<1>5. ASSUME NEW c \in Calls, CFRunLoopRunInMode(c[1], c[2], c[3]) PROVE Duties'
  <2>1. c[1] \in Mode /\ c[2] \in BOOLEAN /\ c[3] \in BOOLEAN /\ FALSE \in BOOLEAN BY RunLoopAssumption
  <2> QED BY <1>5, <2>1, EnterServes DEF CFRunLoopRunInMode
<1>6. CASE CFRunLoopRun
  <2>1. Default \in Mode /\ TRUE \in BOOLEAN /\ FALSE \in BOOLEAN BY DEF Mode
  <2> QED BY <1>6, <2>1, EnterServes DEF CFRunLoopRun
<1>7. ASSUME UNCHANGED <<modes, frames, fire_date>>, clock <= clock',
             \A s \in Sources : signaled[s] => signaled'[s]
      PROVE  Duties'
  <2>1. /\ \A n : In("sources", n)' = In("sources", n)
        /\ \A n : In("timers", n)' = In("timers", n)
        BY <1>7 DEF In
  <2> QED BY <1>7, <2>1, FramesRest
<1>8. ASSUME NEW s \in Sources, CFRunLoopSourceSignal(s) PROVE Duties'
  <2>1. \A r \in Sources : signaled[r] => signaled'[r] BY <1>0, <1>8 DEF CFRunLoopSourceSignal, Shape
  <2> QED BY <1>0, <1>7, <1>8, <2>1 DEF CFRunLoopSourceSignal
<1>9. CASE CFRunLoopStop BY <1>0, <1>7, <1>9 DEF CFRunLoopStop
<1>10. CASE Tick
  <2>1. clock <= clock' BY <1>0, <1>10 DEF Tick
  <2> QED BY <1>7, <1>10, <2>1 DEF Tick, loop
<1>11. CASE UNCHANGED vars BY <1>0, <1>7, <1>11 DEF vars
<1> QED BY <1>3, <1>4, <1>5, <1>6, <1>8, <1>9, <1>10, <1>11 DEF Guest, Anyone

LEMMA DutiesAlways == Spec => []Duties
<1>1. Init => Duties
  <2> SUFFICES ASSUME Init PROVE Duties OBVIOUS
  <2>1. AllOK /\ Nested /\ Flagged /\ InTimer BY DEF Init, AllOK, Nested, Flagged, InTimer
  <2>2. Dates
    <3>1. 0 .. MaxClock \subseteq Time BY RunLoopAssumption DEF Time, Never
    <3> QED BY <3>1, RunLoopAssumption DEF Init, Dates
  <2> QED BY <2>1, <2>2 DEF Duties
<1>2. Inv /\ Inv' /\ Duties /\ [Next]_vars => Duties'
      BY PhasesServe, CheckSourceServes, PerformServes, CheckTimerServes, TimerReturnsServes, ReturnServes,
         OutsideServes
      DEF Next, LoopStep, CallbackReturns
<1> QED BY <1>1, <1>2, InvAlways, PTL DEF Spec

(* A run that reaches its wait has dispatched every source that was        *)
(* signalled and every timer that was due in its mode when it began, or a  *)
(* run nested in it has; only what a callback took out of the mode is      *)
(* excepted.  Runs may nest and signals arrive at any step in between.     *)
THEOREM ReadyServedBeforeWaiting == Spec => []ReadyIsServed
<1>1. Duties => ReadyIsServed BY DEF Duties, AllOK, FrameOK, Owed, Served, ReadyIsServed
<1> QED BY <1>1, DutiesAlways, PTL

(* The table of modes is a function, whatever creates or changes a mode. *)
Mapped == modes = [m \in DOMAIN modes |-> modes[m]]

LEMMA MappedStep == ASSUME Mapped, [Next]_vars PROVE Mapped'
<1> USE DEF Mapped
<1>1. CASE UNCHANGED modes BY <1>1
<1>2. ASSUME NEW ms, modes' = WithModes(ms) PROVE Mapped' BY <1>2 DEF WithModes
<1>3. ASSUME NEW k, NEW i, NEW m, Add(k, i, m) \/ Remove(k, i, m) PROVE Mapped'
      BY <1>3 DEF Add, Remove
<1>4. CASE Guest
  <2>1. ASSUME NEW m \in UserModes, CFRunLoopAddCommonMode(m) PROVE Mapped'
        BY <2>1, <1>2 DEF CFRunLoopAddCommonMode
  <2>2. ASSUME NEW c \in Calls, CFRunLoopRunInMode(c[1], c[2], c[3]) PROVE Mapped'
        BY <2>2, <1>2 DEF CFRunLoopRunInMode, Enter
  <2>3. CASE CFRunLoopRun BY <2>3, <1>2 DEF CFRunLoopRun, Enter
  <2> QED BY <1>4, <1>3, <2>1, <2>2, <2>3
          DEF Guest, CFRunLoopAddSource, CFRunLoopRemoveSource, CFRunLoopAddTimer, CFRunLoopRemoveTimer,
              CFRunLoopAddObserver, CFRunLoopRemoveObserver
<1>5. CASE LoopStep \/ CallbackReturns \/ Anyone \/ WaitInterrupted \/ Tick \/ UNCHANGED vars
  <2>1. LoopStep => UNCHANGED modes \/ modes' = WithModes({Default})
        BY DEF LoopStep, FireObserver, EntryDone, BeforeDone, CheckSource, Perform, SourcesDone, CheckTimer,
               TimersDone, WaitTimesOut, AfterWaiting, Return, RunAgain, loop
  <2>2. CallbackReturns \/ Anyone \/ WaitInterrupted \/ Tick \/ UNCHANGED vars => UNCHANGED modes
        BY DEF CallbackReturns, ObserverReturns, SourceReturns, TimerReturns, Anyone, CFRunLoopSourceSignal,
               CFRunLoopStop, WaitInterrupted, Tick, vars, loop
  <2> QED BY <1>1, <1>2, <1>5, <2>1, <2>2
<1> QED BY <1>4, <1>5 DEF Next

(* Types: the fire dates stay below the time that stands for "never", and  *)
(* no more stops are counted than were called.                             *)
THEOREM LoopTypesHold == Spec => []TypeOK
<1>1. Init => Mapped BY DEF Init, Mapped
<1>2. Inv /\ Counts /\ Duties /\ Mapped => TypeOK
  <2> SUFFICES ASSUME Inv, Counts, Duties, Mapped PROVE TypeOK OBVIOUS
  <2>1. modes \in [DOMAIN modes -> Registry] BY DEF Mapped, Inv, Shape
  <2> QED BY <2>1 DEF Inv, Shape, Counts, Duties, Dates, TypeOK
<1> QED BY <1>1, <1>2, CountsInit, CountsStep, MappedStep, InvAlways, DutiesAlways, PTL DEF Spec
==============================================================================
