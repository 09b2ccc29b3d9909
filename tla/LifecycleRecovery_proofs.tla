----------------------- MODULE LifecycleRecovery_proofs -----------------------
(***************************************************************************)
(* LifecycleRecovery for every number of threads and every skip limit:     *)
(* however the lifecycle call ends, nothing of it is left behind, and the  *)
(* table of crash sites stays within the limit.                            *)
(***************************************************************************)
EXTENDS LifecycleRecovery, FiniteSetTheorems, TLAPS

(* The places a thread will still run at: its program counter and the      *)
(* code its handler activations will return to.                            *)
On(t, l) == pc[t] = l \/ \E i \in 1 .. Len(stack[t]) : stack[t][i] = l

Early == {"start", "apply", "skip_on", "arm"}
After == {"nop", "skip_off", "restore", "inactive", "app"}

(* A handler activation has interrupted guest code or a handler, and the   *)
(* first one has not interrupted a handler.                                *)
StackShape ==
  /\ pc \in [Thread -> PC]
  /\ stack \in [Thread -> Seq(PC)]
  /\ \A t \in Thread : pc[t] \in HandlerPC => Len(stack[t]) > 0
  /\ \A t \in Thread : \A i \in 1 .. Len(stack[t]) : stack[t][i] \in HandlerPC => i > 1
  /\ \A t \in Thread : \A i \in 1 .. Len(stack[t]) : stack[t][i] \in GuestPC \cup HandlerPC

FlagTypes ==
  /\ recovery_active \in BOOLEAN /\ buf_filled \in BOOLEAN /\ skip_mode \in BOOLEAN
  /\ patched \in BOOLEAN /\ patches_active \in BOOLEAN

(* Only the main thread runs the code up to the end of the call. *)
CallIsMain == \A t \in Thread, l \in Early \cup {"setjmp", "call", "disarm"} : On(t, l) => t = Main

(* Once the buffer is filled the main thread is past __sigsetjmp, *)
(* and nobody is in the call, or recovered, before that.          *)
FilledIsLate == buf_filled => \A l \in Early \cup {"setjmp"} : ~On(Main, l)
InCallFilled == \A t \in Thread, l \in {"call", "disarm"} : On(t, l) => buf_filled
RecoveredFilled ==
  process = "running" => \A t \in Thread : On(t, "recovered") => buf_filled

(* After grafted_try_call has returned the recovery point is off for good. *)
ReturnedDisarmed == result # "none" => buf_filled /\ ~recovery_active
AfterReturned == \A t \in Thread, l \in After : On(t, l) => result # "none"

(* What each statement after the retry loop has established. *)
SkipIsOff == \A t \in Thread, l \in {"restore", "inactive", "app"} : On(t, l) => ~skip_mode
Restored  == \A t \in Thread, l \in {"inactive", "app"} : On(t, l) => ~patched
ApplyActive == \A t \in Thread : On(t, "apply") => patches_active
Inactive  == \A t \in Thread : On(t, "app") => ~patches_active

IInv ==
  /\ StackShape /\ FlagTypes /\ CallIsMain /\ FilledIsLate /\ InCallFilled /\ RecoveredFilled
  /\ ReturnedDisarmed /\ AfterReturned /\ SkipIsOff /\ Restored /\ ApplyActive /\ Inactive
  /\ PatchedImpliesActive

-----------------------------------------------------------------------------
(* Every step moves one thread, and its only new place is its new pc. *)
Moves(t) ==
  /\ \A u \in Thread \ {t} : pc'[u] = pc[u] /\ stack'[u] = stack[u]
  /\ \A l \in PC : On(t, l)' => On(t, l) \/ l = pc'[t]

(* A plain move keeps the shapes. *)
LEMMA GotoMoves ==
  ASSUME StackShape, NEW t \in Thread, NEW from \in PC, NEW to \in PC, Goto(t, from, to),
         to \in HandlerPC => from \in HandlerPC
  PROVE  StackShape' /\ Moves(t) /\ pc'[t] = to
  BY DEF StackShape, Goto, Moves, On

(* A signal pushes the interrupted place. *)
LEMMA SignalMoves ==
  ASSUME StackShape, NEW t \in Thread, NEW k, Signal(t, k), pc[t] \in GuestPC \cup HandlerPC
  PROVE  StackShape' /\ Moves(t) /\ pc'[t] = "handler"
<1>1. /\ pc' = [pc EXCEPT ![t] = "handler"]
      /\ stack' = [stack EXCEPT ![t] = Append(stack[t], pc[t])]
  BY DEF Signal, StackShape
<1>2. /\ stack[t] \in Seq(PC) /\ pc[t] \in PC
      /\ stack'[t] = Append(stack[t], pc[t])
      /\ Append(stack[t], pc[t]) \in Seq(PC)
      /\ Len(stack'[t]) = Len(stack[t]) + 1 /\ Len(stack[t]) \in Nat
      /\ \A i \in 1 .. Len(stack'[t]) :
           stack'[t][i] = (IF i <= Len(stack[t]) THEN stack[t][i] ELSE pc[t])
  BY <1>1 DEF StackShape
<1>3. pc' \in [Thread -> PC] /\ stack' \in [Thread -> Seq(PC)]
  BY <1>1, <1>2 DEF StackShape, PC, HandlerPC
<1>4. \A u \in Thread : pc'[u] \in HandlerPC => Len(stack'[u]) > 0
  BY <1>1, <1>2 DEF StackShape
<1>5. Moves(t)
  BY <1>1, <1>2 DEF StackShape, Moves, On
<1>6. \A u \in Thread : \A i \in 1 .. Len(stack'[u]) :
        /\ stack'[u][i] \in HandlerPC => i > 1
        /\ stack'[u][i] \in GuestPC \cup HandlerPC
  BY <1>1, <1>2 DEF StackShape
<1>7. pc'[t] = "handler"
  BY <1>1 DEF StackShape
<1> QED
  BY <1>3, <1>4, <1>5, <1>6, <1>7 DEF StackShape

(* What is left of a stack without its last element. *)
LEMMA PopProperties ==
  ASSUME NEW S, NEW s \in Seq(S), Len(s) > 0
  PROVE  /\ SubSeq(s, 1, Len(s) - 1) \in Seq(S)
         /\ Len(SubSeq(s, 1, Len(s) - 1)) = Len(s) - 1
         /\ \A i \in 1 .. Len(s) - 1 : SubSeq(s, 1, Len(s) - 1)[i] = s[i]
<1>1. Len(s) - 1 \in Nat /\ Len(s) - 1 < Len(s)
  OBVIOUS
<1>2. \A n \in Nat : n < Len(s) => SubSeq(s, 1, n) \in Seq(S)
  OBVIOUS
<1>3. \A n \in Nat : n < Len(s) => Len(SubSeq(s, 1, n)) = n
  OBVIOUS
<1>4. \A n \in Nat : n < Len(s) => \A i \in 1 .. n : SubSeq(s, 1, n)[i] = s[i]
  OBVIOUS
<1> QED
  BY <1>1, <1>2, <1>3, <1>4

(* A skipped crash pops it again. *)
LEMMA SkipMoves ==
  ASSUME StackShape, NEW t \in Thread, SkipCrash(t)
  PROVE  StackShape' /\ Moves(t) /\ On(t, pc'[t])
<1>1. /\ stack[t] \in Seq(PC) /\ Len(stack[t]) \in Nat /\ Len(stack[t]) > 0
      /\ pc' = [pc EXCEPT ![t] = stack[t][Len(stack[t])]]
      /\ stack' = [stack EXCEPT ![t] = SubSeq(stack[t], 1, Len(stack[t]) - 1)]
  BY DEF SkipCrash, StackShape, HandlerPC
<1>2. /\ stack'[t] = SubSeq(stack[t], 1, Len(stack[t]) - 1)
      /\ stack'[t] \in Seq(PC)
      /\ Len(stack'[t]) = Len(stack[t]) - 1
      /\ \A i \in 1 .. Len(stack'[t]) : stack'[t][i] = stack[t][i]
      /\ stack[t][Len(stack[t])] \in PC
  <2>2. stack'[t] = SubSeq(stack[t], 1, Len(stack[t]) - 1)
    BY <1>1 DEF StackShape
  <2>4. /\ SubSeq(stack[t], 1, Len(stack[t]) - 1) \in Seq(PC)
        /\ Len(SubSeq(stack[t], 1, Len(stack[t]) - 1)) = Len(stack[t]) - 1
        /\ \A i \in 1 .. Len(stack[t]) - 1 :
             SubSeq(stack[t], 1, Len(stack[t]) - 1)[i] = stack[t][i]
    BY <1>1, PopProperties
  <2>5. Len(stack'[t]) = Len(stack[t]) - 1
    BY <1>1, <2>2, <2>4
  <2>6. \A i \in 1 .. Len(stack'[t]) : stack'[t][i] = stack[t][i]
    BY <2>2, <2>4, <2>5
  <2> QED
    BY <1>1, <2>2, <2>4, <2>5, <2>6
<1>3. pc' \in [Thread -> PC] /\ stack' \in [Thread -> Seq(PC)]
  BY <1>1, <1>2 DEF StackShape
<1>4. pc'[t] = stack[t][Len(stack[t])] /\ On(t, pc'[t])
  BY <1>1, <1>2 DEF StackShape, On
<1>5. Moves(t)
  BY <1>1, <1>2, <1>4 DEF StackShape, Moves, On
<1>6. \A u \in Thread : \A i \in 1 .. Len(stack'[u]) :
        /\ stack'[u][i] \in HandlerPC => i > 1
        /\ stack'[u][i] \in GuestPC \cup HandlerPC
  BY <1>1, <1>2 DEF StackShape
<1>7. \A u \in Thread : pc'[u] \in HandlerPC => Len(stack'[u]) > 0
  BY <1>1, <1>2, <1>4 DEF StackShape
<1> QED
  BY <1>3, <1>4, <1>5, <1>6, <1>7 DEF StackShape

(* A jump drops the whole stack of activations. *)
LEMMA JumpMoves ==
  ASSUME StackShape, NEW t \in Thread, siglongjmp(t)
  PROVE  StackShape' /\ Moves(t) /\ pc'[t] = "recovered"
  BY DEF StackShape, siglongjmp, Moves, On, PC, FramePC, HandlerPC

-----------------------------------------------------------------------------
(* Places no conjunct of the invariant speaks of. *)
Neutral == HandlerPC \cup {"abort", "longjmp", "run"}

(* A step of the handler, of abort() or of crashing guest code changes     *)
(* nothing the invariant speaks of: it enters a neutral place or goes back *)
(* to one the thread had left behind.                                      *)
LEMMA QuietStep ==
  ASSUME IInv, StackShape', NEW t \in Thread, Moves(t),
         pc'[t] \in Neutral \/ On(t, pc'[t]),
         process' # "running" \/ process' = process,
         UNCHANGED <<recovery, skip_mode, patching, result>>
  PROVE  IInv'
<1>1. \A u \in Thread, l \in PC \ Neutral : On(u, l)' => On(u, l)
  BY DEF Moves, On
<1>2. UNCHANGED <<recovery_active, buf_filled, skip_mode, patched, patches_active, result>>
  BY DEF recovery, patching
<1>3. /\ Early \subseteq PC \ Neutral /\ After \subseteq PC \ Neutral
      /\ {"setjmp", "call", "disarm", "recovered"} \subseteq PC \ Neutral
  BY DEF Early, After, PC, FramePC, GuestPC, HandlerPC, Neutral
<1>4. CallIsMain' /\ FilledIsLate'
  BY <1>1, <1>2, <1>3 DEF IInv, CallIsMain, FilledIsLate, Thread
<1>5. InCallFilled' /\ RecoveredFilled'
  BY <1>1, <1>2, <1>3 DEF IInv, InCallFilled, RecoveredFilled
<1>6. ReturnedDisarmed' /\ AfterReturned' /\ FlagTypes' /\ PatchedImpliesActive'
  BY <1>1, <1>2, <1>3 DEF IInv, ReturnedDisarmed, AfterReturned, FlagTypes, PatchedImpliesActive
<1>7. SkipIsOff' /\ Restored' /\ ApplyActive' /\ Inactive'
  BY <1>1, <1>2, <1>3 DEF IInv, SkipIsOff, Restored, ApplyActive, Inactive, Early, After
<1> QED
  BY <1>4, <1>5, <1>6, <1>7 DEF IInv

-----------------------------------------------------------------------------
(* The steps of sigsegv_handler and abort(), other than the jump, and of   *)
(* the code that crashes are all quiet.                                    *)
LEMMA CrashStepKeeps ==
  ASSUME IInv, NEW t \in Thread, CrashStep(t), ~siglongjmp(t)
  PROVE  IInv'
<1> USE DEF IInv
<1>0. pc[t] \in PC
  BY DEF StackShape
<1>1. CASE Crash(t)
  <2>1. PICK k \in Kind : Signal(t, k) /\ pc[t] \in GuestPC
    BY <1>1 DEF Crash
  <2>2. UNCHANGED <<recovery, skip_mode, patching, result, process>>
    BY <2>1 DEF Signal, skipping
  <2> QED
    BY <2>1, <2>2, SignalMoves, QuietStep DEF Neutral, HandlerPC
<1>2. CASE HandlerFault(t)
  <2>1. Signal(t, "library") /\ pc[t] \in HandlerPC
    BY <1>2 DEF HandlerFault, HandlerPC
  <2>2. UNCHANGED <<recovery, skip_mode, patching, result, process>>
    BY <2>1 DEF Signal, skipping
  <2> QED
    BY <2>1, <2>2, SignalMoves, QuietStep DEF Neutral, HandlerPC
<1>3. CASE SkipCrash(t)
  <2>1. UNCHANGED <<recovery, skip_mode, patching, result, process>>
    BY <1>3 DEF SkipCrash
  <2> QED
    BY <1>3, <2>1, SkipMoves, QuietStep
<1>4. CASE Swap(t)
  <2>1. PICK to \in {"guard", "check"} : Goto(t, "handler", to)
    BY <1>4 DEF Swap
  <2>2. /\ UNCHANGED <<recovery, skip_mode, patching, result>>
        /\ process' # "running" \/ process' = process
    BY <1>4 DEF Swap, skipping
  <2> QED
    BY <1>0, <2>1, <2>2, GotoMoves, QuietStep DEF Neutral, PC, HandlerPC
<1>5. CASE Guard(t)
  <2>1. PICK to \in {"longjmp"} : Goto(t, "guard", to)
    BY <1>5 DEF Guard
  <2>2. /\ UNCHANGED <<recovery, skip_mode, patching, result>>
        /\ process' # "running" \/ process' = process
    BY <1>5 DEF Guard, skipping
  <2> QED
    BY <1>0, <2>1, <2>2, GotoMoves, QuietStep DEF Neutral, PC, HandlerPC
<1>6. CASE CheckSkip(t)
  <2>1. PICK to \in {"skip", "jump"} : Goto(t, "count", to)
    BY <1>6 DEF CheckSkip
  <2>2. /\ UNCHANGED <<recovery, skip_mode, patching, result>>
        /\ process' # "running" \/ process' = process
    BY <1>6 DEF CheckSkip, skipping
  <2> QED
    BY <1>0, <2>1, <2>2, GotoMoves, QuietStep DEF Neutral, PC, HandlerPC
<1>7. CASE CheckRecovery(t)
  <2>1. PICK to \in {"clear", "mode", "jump"} : Goto(t, "check", to)
    BY <1>7 DEF CheckRecovery
  <2>2. /\ UNCHANGED <<recovery, skip_mode, patching, result>>
        /\ process' # "running" \/ process' = process
    BY <1>7 DEF CheckRecovery, skipping
  <2> QED
    BY <1>0, <2>1, <2>2, GotoMoves, QuietStep DEF Neutral, PC, HandlerPC
<1>8. CASE ClearHandler(t)
  <2>1. PICK to \in {"diag"} : Goto(t, "clear", to)
    BY <1>8 DEF ClearHandler
  <2>2. /\ UNCHANGED <<recovery, skip_mode, patching, result>>
        /\ process' # "running" \/ process' = process
    BY <1>8 DEF ClearHandler, skipping
  <2> QED
    BY <1>0, <2>1, <2>2, GotoMoves, QuietStep DEF Neutral, PC, HandlerPC
<1>8a. CASE CheckMode(t)
  <2>1. PICK to \in {"count", "jump"} : Goto(t, "mode", to)
    BY <1>8a DEF CheckMode
  <2>2. /\ UNCHANGED <<recovery, skip_mode, patching, result>>
        /\ process' # "running" \/ process' = process
    BY <1>8a DEF CheckMode, skipping
  <2> QED
    BY <1>0, <2>1, <2>2, GotoMoves, QuietStep DEF Neutral, PC, HandlerPC
<1>9. CASE SkipRefused(t)
  <2>1. PICK to \in {"jump"} : Goto(t, "skip", to)
    BY <1>9 DEF SkipRefused
  <2>2. /\ UNCHANGED <<recovery, skip_mode, patching, result>>
        /\ process' # "running" \/ process' = process
    BY <1>9 DEF SkipRefused, skipping
  <2> QED
    BY <1>0, <2>1, <2>2, GotoMoves, QuietStep DEF Neutral, PC, HandlerPC
<1>10. CASE Jump(t)
  <2>1. PICK to \in {"longjmp"} : Goto(t, "jump", to)
    BY <1>10 DEF Jump
  <2>2. /\ UNCHANGED <<recovery, skip_mode, patching, result>>
        /\ process' # "running" \/ process' = process
    BY <1>10 DEF Jump, skipping
  <2> QED
    BY <1>0, <2>1, <2>2, GotoMoves, QuietStep DEF Neutral, PC, HandlerPC
<1>11. CASE Diagnose(t)
  <2>1. PICK to \in {"diag"} : Goto(t, "diag", to)
    BY <1>11 DEF Diagnose
  <2>2. /\ UNCHANGED <<recovery, skip_mode, patching, result>>
        /\ process' # "running" \/ process' = process
    BY <1>11 DEF Diagnose, skipping
  <2> QED
    BY <1>0, <2>1, <2>2, GotoMoves, QuietStep DEF Neutral, PC, HandlerPC
<1>12. CASE CallAbort(t)
  <2>1. PICK to \in {"abort"} : Goto(t, pc[t], to)
    BY <1>12 DEF CallAbort
  <2>2. /\ UNCHANGED <<recovery, skip_mode, patching, result>>
        /\ process' # "running" \/ process' = process
    BY <1>12 DEF CallAbort, skipping
  <2> QED
    BY <1>0, <2>1, <2>2, GotoMoves, QuietStep DEF Neutral, PC, HandlerPC
<1>13. CASE abort(t)
  <2>1. PICK to \in {"longjmp"} : Goto(t, "abort", to)
    BY <1>13 DEF abort
  <2>2. /\ UNCHANGED <<recovery, skip_mode, patching, result>>
        /\ process' # "running" \/ process' = process
    BY <1>13 DEF abort, skipping
  <2> QED
    BY <1>0, <2>1, <2>2, GotoMoves, QuietStep DEF Neutral, PC, HandlerPC
<1>14. CASE shim_abort(t)
  <2>1. Goto(t, pc[t], pc[t])
    BY <1>14 DEF shim_abort
  <2>2. /\ UNCHANGED <<recovery, skip_mode, patching, result>>
        /\ process' # "running"
    BY <1>14 DEF shim_abort, skipping
  <2>3. On(t, pc[t])
    BY DEF On
  <2> QED
    BY <1>0, <2>1, <2>2, <2>3, GotoMoves, QuietStep
<1> QED
  BY <1>1, <1>2, <1>3, <1>4, <1>5, <1>6, <1>7, <1>8, <1>8a, <1>9, <1>10, <1>11, <1>12, <1>13, <1>14
     DEF CrashStep

-----------------------------------------------------------------------------
(* What a plain move from one place to another says about On. *)
LEMMA GotoPlaces ==
  ASSUME StackShape, NEW t \in Thread, NEW from \in PC \ HandlerPC, NEW to \in PC \ HandlerPC,
         Goto(t, from, to)
  PROVE  /\ StackShape' /\ On(t, from)
         /\ \A u \in Thread, l \in PC : On(u, l)' => On(u, l) \/ (u = t /\ l = to)
         /\ \A l \in FramePC : On(t, l)' => l = to
<1>1. StackShape' /\ Moves(t) /\ pc'[t] = to
  BY GotoMoves
<1>2. \A l \in FramePC : l \notin GuestPC \cup HandlerPC
  BY DEF FramePC, GuestPC, HandlerPC
<1>3. \A l \in FramePC : On(t, l)' => l = to
  BY <1>1, <1>2 DEF StackShape, On
<1> QED
  BY <1>1, <1>3 DEF Moves, On, Goto

(* Every statement of grafted_swiftui_run_loop and grafted_try_call keeps  *)
(* the invariant.                                                          *)
LEMMA CallStepKeeps ==
  ASSUME IInv, NEW t \in Thread, process = "running", CallStep(t)
  PROVE  IInv'
<1> USE DEF IInv
<1>a. /\ Early = {"start", "apply", "skip_on", "arm"}
      /\ After = {"nop", "skip_off", "restore", "inactive", "app"}
      /\ Early \cup After \cup {"setjmp", "call", "disarm", "recovered"} \subseteq PC \ HandlerPC
      /\ Early \cup {"setjmp"} \subseteq FramePC
  BY DEF Early, After, PC, FramePC, GuestPC, HandlerPC
<1>1. CASE ActivatePatches(t)
  <2>1. /\ StackShape' /\ On(t, "start")
        /\ \A u \in Thread, l \in PC : On(u, l)' => On(u, l) \/ (u = t /\ l = "apply")
        /\ \A l \in FramePC : On(t, l)' => l = "apply"
    BY <1>a, <1>1, GotoPlaces DEF ActivatePatches
  <2>2. CallIsMain' /\ FilledIsLate'
    BY <1>a, <1>1, <2>1 DEF ActivatePatches, recovery, CallIsMain, FilledIsLate, InCallFilled, Thread
  <2>3. InCallFilled' /\ RecoveredFilled'
    BY <1>a, <1>1, <2>1 DEF ActivatePatches, recovery, InCallFilled, RecoveredFilled
  <2>4. ReturnedDisarmed' /\ AfterReturned' /\ FlagTypes' /\ PatchedImpliesActive'
    BY <1>a, <1>1, <2>1 DEF ActivatePatches, recovery, patching, skipping, CallIsMain, FilledIsLate, InCallFilled, RecoveredFilled,
       ReturnedDisarmed, AfterReturned, FlagTypes, PatchedImpliesActive, ApplyActive, Restored
  <2>5. SkipIsOff' /\ Restored' /\ ApplyActive' /\ Inactive'
    BY <1>a, <1>1, <2>1 DEF ActivatePatches, skipping, patching, CallIsMain, FilledIsLate, ReturnedDisarmed, AfterReturned,
       SkipIsOff, Restored, ApplyActive, Inactive
  <2> QED
    BY <2>1, <2>2, <2>3, <2>4, <2>5
<1>2. CASE apply_lifecycle_patches(t)
  <2>1. /\ StackShape' /\ On(t, "apply")
        /\ \A u \in Thread, l \in PC : On(u, l)' => On(u, l) \/ (u = t /\ l = "skip_on")
        /\ \A l \in FramePC : On(t, l)' => l = "skip_on"
    BY <1>a, <1>2, GotoPlaces DEF apply_lifecycle_patches
  <2>2. CallIsMain' /\ FilledIsLate'
    BY <1>a, <1>2, <2>1 DEF apply_lifecycle_patches, recovery, CallIsMain, FilledIsLate, InCallFilled, Thread
  <2>3. InCallFilled' /\ RecoveredFilled'
    BY <1>a, <1>2, <2>1 DEF apply_lifecycle_patches, recovery, InCallFilled, RecoveredFilled
  <2>4. ReturnedDisarmed' /\ AfterReturned' /\ FlagTypes' /\ PatchedImpliesActive'
    BY <1>a, <1>2, <2>1 DEF apply_lifecycle_patches, recovery, patching, skipping, CallIsMain, FilledIsLate, InCallFilled, RecoveredFilled,
       ReturnedDisarmed, AfterReturned, FlagTypes, PatchedImpliesActive, ApplyActive, Restored
  <2>5. SkipIsOff' /\ Restored' /\ ApplyActive' /\ Inactive'
    BY <1>a, <1>2, <2>1 DEF apply_lifecycle_patches, skipping, patching, CallIsMain, FilledIsLate, ReturnedDisarmed, AfterReturned,
       SkipIsOff, Restored, ApplyActive, Inactive
  <2> QED
    BY <2>1, <2>2, <2>3, <2>4, <2>5
<1>3. CASE SkipModeOn(t)
  <2>1. /\ StackShape' /\ On(t, "skip_on")
        /\ \A u \in Thread, l \in PC : On(u, l)' => On(u, l) \/ (u = t /\ l = "arm")
        /\ \A l \in FramePC : On(t, l)' => l = "arm"
    BY <1>a, <1>3, GotoPlaces DEF SkipModeOn
  <2>2. CallIsMain' /\ FilledIsLate'
    BY <1>a, <1>3, <2>1 DEF SkipModeOn, recovery, CallIsMain, FilledIsLate, InCallFilled, Thread
  <2>3. InCallFilled' /\ RecoveredFilled'
    BY <1>a, <1>3, <2>1 DEF SkipModeOn, recovery, InCallFilled, RecoveredFilled
  <2>4. ReturnedDisarmed' /\ AfterReturned' /\ FlagTypes' /\ PatchedImpliesActive'
    BY <1>a, <1>3, <2>1 DEF SkipModeOn, recovery, patching, skipping, CallIsMain, FilledIsLate, InCallFilled, RecoveredFilled,
       ReturnedDisarmed, AfterReturned, FlagTypes, PatchedImpliesActive, ApplyActive, Restored
  <2>5. SkipIsOff' /\ Restored' /\ ApplyActive' /\ Inactive'
    BY <1>a, <1>3, <2>1 DEF SkipModeOn, skipping, patching, CallIsMain, FilledIsLate, ReturnedDisarmed, AfterReturned,
       SkipIsOff, Restored, ApplyActive, Inactive
  <2> QED
    BY <2>1, <2>2, <2>3, <2>4, <2>5
<1>4. CASE Arm(t)
  <2>1. /\ StackShape' /\ On(t, "arm")
        /\ \A u \in Thread, l \in PC : On(u, l)' => On(u, l) \/ (u = t /\ l = "setjmp")
        /\ \A l \in FramePC : On(t, l)' => l = "setjmp"
    BY <1>a, <1>4, GotoPlaces DEF Arm
  <2>2. CallIsMain' /\ FilledIsLate'
    BY <1>a, <1>4, <2>1 DEF Arm, recovery, CallIsMain, FilledIsLate, InCallFilled, Thread
  <2>3. InCallFilled' /\ RecoveredFilled'
    BY <1>a, <1>4, <2>1 DEF Arm, recovery, InCallFilled, RecoveredFilled
  <2>4. ReturnedDisarmed' /\ AfterReturned' /\ FlagTypes' /\ PatchedImpliesActive'
    BY <1>a, <1>4, <2>1 DEF Arm, recovery, patching, skipping, CallIsMain, FilledIsLate, InCallFilled, RecoveredFilled,
       ReturnedDisarmed, AfterReturned, FlagTypes, PatchedImpliesActive, ApplyActive, Restored
  <2>5. SkipIsOff' /\ Restored' /\ ApplyActive' /\ Inactive'
    BY <1>a, <1>4, <2>1 DEF Arm, skipping, patching, CallIsMain, FilledIsLate, ReturnedDisarmed, AfterReturned,
       SkipIsOff, Restored, ApplyActive, Inactive
  <2> QED
    BY <2>1, <2>2, <2>3, <2>4, <2>5
<1>5. CASE SetJmp(t)
  <2>1. /\ StackShape' /\ On(t, "setjmp")
        /\ \A u \in Thread, l \in PC : On(u, l)' => On(u, l) \/ (u = t /\ l = "call")
        /\ \A l \in FramePC : On(t, l)' => l = "call"
    BY <1>a, <1>5, GotoPlaces DEF SetJmp
  <2>2. CallIsMain' /\ FilledIsLate'
    BY <1>a, <1>5, <2>1 DEF SetJmp, recovery, CallIsMain, FilledIsLate, InCallFilled, Thread
  <2>3. InCallFilled' /\ RecoveredFilled'
    BY <1>a, <1>5, <2>1 DEF SetJmp, recovery, InCallFilled, RecoveredFilled
  <2>4. ReturnedDisarmed' /\ AfterReturned' /\ FlagTypes' /\ PatchedImpliesActive'
    BY <1>a, <1>5, <2>1 DEF SetJmp, recovery, patching, skipping, CallIsMain, FilledIsLate, InCallFilled, RecoveredFilled,
       ReturnedDisarmed, AfterReturned, FlagTypes, PatchedImpliesActive, ApplyActive, Restored
  <2>5. SkipIsOff' /\ Restored' /\ ApplyActive' /\ Inactive'
    BY <1>a, <1>5, <2>1 DEF SetJmp, skipping, patching, CallIsMain, FilledIsLate, ReturnedDisarmed, AfterReturned,
       SkipIsOff, Restored, ApplyActive, Inactive
  <2> QED
    BY <2>1, <2>2, <2>3, <2>4, <2>5
<1>6. CASE CallReturns(t)
  <2>1. /\ StackShape' /\ On(t, "call")
        /\ \A u \in Thread, l \in PC : On(u, l)' => On(u, l) \/ (u = t /\ l = "disarm")
        /\ \A l \in FramePC : On(t, l)' => l = "disarm"
    BY <1>a, <1>6, GotoPlaces DEF CallReturns
  <2>2. CallIsMain' /\ FilledIsLate'
    BY <1>a, <1>6, <2>1 DEF CallReturns, recovery, CallIsMain, FilledIsLate, InCallFilled, Thread
  <2>3. InCallFilled' /\ RecoveredFilled'
    BY <1>a, <1>6, <2>1 DEF CallReturns, recovery, InCallFilled, RecoveredFilled
  <2>4. ReturnedDisarmed' /\ AfterReturned' /\ FlagTypes' /\ PatchedImpliesActive'
    BY <1>a, <1>6, <2>1 DEF CallReturns, recovery, patching, skipping, CallIsMain, FilledIsLate, InCallFilled, RecoveredFilled,
       ReturnedDisarmed, AfterReturned, FlagTypes, PatchedImpliesActive, ApplyActive, Restored
  <2>5. SkipIsOff' /\ Restored' /\ ApplyActive' /\ Inactive'
    BY <1>a, <1>6, <2>1 DEF CallReturns, skipping, patching, CallIsMain, FilledIsLate, ReturnedDisarmed, AfterReturned,
       SkipIsOff, Restored, ApplyActive, Inactive
  <2> QED
    BY <2>1, <2>2, <2>3, <2>4, <2>5
<1>7. CASE Disarm(t)
  <2>1. /\ StackShape' /\ On(t, "disarm")
        /\ \A u \in Thread, l \in PC : On(u, l)' => On(u, l) \/ (u = t /\ l = "skip_off")
        /\ \A l \in FramePC : On(t, l)' => l = "skip_off"
    BY <1>a, <1>7, GotoPlaces DEF Disarm
  <2>2. CallIsMain' /\ FilledIsLate'
    BY <1>a, <1>7, <2>1 DEF Disarm, recovery, CallIsMain, FilledIsLate, InCallFilled, Thread
  <2>3. InCallFilled' /\ RecoveredFilled'
    BY <1>a, <1>7, <2>1 DEF Disarm, recovery, InCallFilled, RecoveredFilled
  <2>4. ReturnedDisarmed' /\ AfterReturned' /\ FlagTypes' /\ PatchedImpliesActive'
    BY <1>a, <1>7, <2>1 DEF Disarm, recovery, patching, skipping, CallIsMain, FilledIsLate, InCallFilled, RecoveredFilled,
       ReturnedDisarmed, AfterReturned, FlagTypes, PatchedImpliesActive, ApplyActive, Restored
  <2>5. SkipIsOff' /\ Restored' /\ ApplyActive' /\ Inactive'
    BY <1>a, <1>7, <2>1 DEF Disarm, skipping, patching, CallIsMain, FilledIsLate, ReturnedDisarmed, AfterReturned,
       SkipIsOff, Restored, ApplyActive, Inactive
  <2> QED
    BY <2>1, <2>2, <2>3, <2>4, <2>5
<1>8. CASE Recovered(t)
  <2>1. /\ StackShape' /\ On(t, "recovered")
        /\ \A u \in Thread, l \in PC : On(u, l)' => On(u, l) \/ (u = t /\ l = "nop")
        /\ \A l \in FramePC : On(t, l)' => l = "nop"
    BY <1>a, <1>8, GotoPlaces DEF Recovered
  <2>2. CallIsMain' /\ FilledIsLate'
    BY <1>a, <1>8, <2>1 DEF Recovered, recovery, CallIsMain, FilledIsLate, InCallFilled, Thread
  <2>3. InCallFilled' /\ RecoveredFilled'
    BY <1>a, <1>8, <2>1 DEF Recovered, recovery, InCallFilled, RecoveredFilled
  <2>4. ReturnedDisarmed' /\ AfterReturned' /\ FlagTypes' /\ PatchedImpliesActive'
    BY <1>a, <1>8, <2>1 DEF Recovered, recovery, patching, skipping, CallIsMain, FilledIsLate, InCallFilled, RecoveredFilled,
       ReturnedDisarmed, AfterReturned, FlagTypes, PatchedImpliesActive, ApplyActive, Restored
  <2>5. SkipIsOff' /\ Restored' /\ ApplyActive' /\ Inactive'
    BY <1>a, <1>8, <2>1 DEF Recovered, skipping, patching, CallIsMain, FilledIsLate, ReturnedDisarmed, AfterReturned,
       SkipIsOff, Restored, ApplyActive, Inactive
  <2> QED
    BY <2>1, <2>2, <2>3, <2>4, <2>5
<1>9. CASE grafted_nop_saved_crash_sites(t)
  <2>1. /\ StackShape' /\ On(t, "nop")
        /\ \A u \in Thread, l \in PC : On(u, l)' => On(u, l) \/ (u = t /\ l = "skip_off")
        /\ \A l \in FramePC : On(t, l)' => l = "skip_off"
    BY <1>a, <1>9, GotoPlaces DEF grafted_nop_saved_crash_sites
  <2>2. CallIsMain' /\ FilledIsLate'
    BY <1>a, <1>9, <2>1 DEF grafted_nop_saved_crash_sites, recovery, CallIsMain, FilledIsLate, InCallFilled, Thread
  <2>3. InCallFilled' /\ RecoveredFilled'
    BY <1>a, <1>9, <2>1 DEF grafted_nop_saved_crash_sites, recovery, InCallFilled, RecoveredFilled
  <2>4. ReturnedDisarmed' /\ AfterReturned' /\ FlagTypes' /\ PatchedImpliesActive'
    BY <1>a, <1>9, <2>1 DEF grafted_nop_saved_crash_sites, recovery, patching, skipping, CallIsMain, FilledIsLate, InCallFilled, RecoveredFilled,
       ReturnedDisarmed, AfterReturned, FlagTypes, PatchedImpliesActive, ApplyActive, Restored
  <2>5. SkipIsOff' /\ Restored' /\ ApplyActive' /\ Inactive'
    BY <1>a, <1>9, <2>1 DEF grafted_nop_saved_crash_sites, skipping, patching, CallIsMain, FilledIsLate, ReturnedDisarmed, AfterReturned,
       SkipIsOff, Restored, ApplyActive, Inactive
  <2> QED
    BY <2>1, <2>2, <2>3, <2>4, <2>5
<1>10. CASE SkipModeOff(t)
  <2>1. /\ StackShape' /\ On(t, "skip_off")
        /\ \A u \in Thread, l \in PC : On(u, l)' => On(u, l) \/ (u = t /\ l = "restore")
        /\ \A l \in FramePC : On(t, l)' => l = "restore"
    BY <1>a, <1>10, GotoPlaces DEF SkipModeOff
  <2>2. CallIsMain' /\ FilledIsLate'
    BY <1>a, <1>10, <2>1 DEF SkipModeOff, recovery, CallIsMain, FilledIsLate, InCallFilled, Thread
  <2>3. InCallFilled' /\ RecoveredFilled'
    BY <1>a, <1>10, <2>1 DEF SkipModeOff, recovery, InCallFilled, RecoveredFilled
  <2>4. ReturnedDisarmed' /\ AfterReturned' /\ FlagTypes' /\ PatchedImpliesActive'
    BY <1>a, <1>10, <2>1 DEF SkipModeOff, recovery, patching, skipping, CallIsMain, FilledIsLate, InCallFilled, RecoveredFilled,
       ReturnedDisarmed, AfterReturned, FlagTypes, PatchedImpliesActive, ApplyActive, Restored
  <2>5. SkipIsOff' /\ Restored' /\ ApplyActive' /\ Inactive'
    BY <1>a, <1>10, <2>1 DEF SkipModeOff, skipping, patching, CallIsMain, FilledIsLate, ReturnedDisarmed, AfterReturned,
       SkipIsOff, Restored, ApplyActive, Inactive
  <2> QED
    BY <2>1, <2>2, <2>3, <2>4, <2>5
<1>11. CASE restore_lifecycle_patches(t)
  <2>1. /\ StackShape' /\ On(t, "restore")
        /\ \A u \in Thread, l \in PC : On(u, l)' => On(u, l) \/ (u = t /\ l = "inactive")
        /\ \A l \in FramePC : On(t, l)' => l = "inactive"
    BY <1>a, <1>11, GotoPlaces DEF restore_lifecycle_patches
  <2>2. CallIsMain' /\ FilledIsLate'
    BY <1>a, <1>11, <2>1 DEF restore_lifecycle_patches, recovery, CallIsMain, FilledIsLate, InCallFilled, Thread
  <2>3. InCallFilled' /\ RecoveredFilled'
    BY <1>a, <1>11, <2>1 DEF restore_lifecycle_patches, recovery, InCallFilled, RecoveredFilled
  <2>4. ReturnedDisarmed' /\ AfterReturned' /\ FlagTypes' /\ PatchedImpliesActive'
    BY <1>a, <1>11, <2>1 DEF restore_lifecycle_patches, recovery, patching, skipping, CallIsMain, FilledIsLate, InCallFilled, RecoveredFilled,
       ReturnedDisarmed, AfterReturned, FlagTypes, PatchedImpliesActive, ApplyActive, Restored
  <2>5. SkipIsOff' /\ Restored' /\ ApplyActive' /\ Inactive'
    BY <1>a, <1>11, <2>1 DEF restore_lifecycle_patches, skipping, patching, CallIsMain, FilledIsLate, ReturnedDisarmed, AfterReturned,
       SkipIsOff, Restored, ApplyActive, Inactive
  <2> QED
    BY <2>1, <2>2, <2>3, <2>4, <2>5
<1>12. CASE DeactivatePatches(t)
  <2>1. /\ StackShape' /\ On(t, "inactive")
        /\ \A u \in Thread, l \in PC : On(u, l)' => On(u, l) \/ (u = t /\ l = "app")
        /\ \A l \in FramePC : On(t, l)' => l = "app"
    BY <1>a, <1>12, GotoPlaces DEF DeactivatePatches
  <2>2. CallIsMain' /\ FilledIsLate'
    BY <1>a, <1>12, <2>1 DEF DeactivatePatches, recovery, CallIsMain, FilledIsLate, InCallFilled, Thread
  <2>3. InCallFilled' /\ RecoveredFilled'
    BY <1>a, <1>12, <2>1 DEF DeactivatePatches, recovery, InCallFilled, RecoveredFilled
  <2>4. ReturnedDisarmed' /\ AfterReturned' /\ FlagTypes' /\ PatchedImpliesActive'
    BY <1>a, <1>12, <2>1 DEF DeactivatePatches, recovery, patching, skipping, CallIsMain, FilledIsLate, InCallFilled, RecoveredFilled,
       ReturnedDisarmed, AfterReturned, FlagTypes, PatchedImpliesActive, ApplyActive, Restored
  <2>5. SkipIsOff' /\ Restored' /\ ApplyActive' /\ Inactive'
    BY <1>a, <1>12, <2>1 DEF DeactivatePatches, skipping, patching, CallIsMain, FilledIsLate, ReturnedDisarmed, AfterReturned,
       SkipIsOff, Restored, ApplyActive, Inactive
  <2> QED
    BY <2>1, <2>2, <2>3, <2>4, <2>5
<1> QED
  BY <1>1, <1>2, <1>3, <1>4, <1>5, <1>6, <1>7, <1>8, <1>9, <1>10, <1>11, <1>12 DEF CallStep

(* A jump to a live frame lands after __sigsetjmp; a jump anywhere else is *)
(* the end of what the model follows.                                      *)
LEMMA JumpKeeps ==
  ASSUME IInv, NEW t \in Thread, siglongjmp(t)
  PROVE  IInv'
<1> USE DEF IInv
<1>1. StackShape' /\ Moves(t) /\ pc'[t] = "recovered"
  BY JumpMoves
<1>2. \A u \in Thread, l \in PC : On(u, l)' => On(u, l) \/ (u = t /\ l = "recovered")
  BY <1>1 DEF Moves, On
<1>3. /\ UNCHANGED <<recovery_active, buf_filled, skip_mode, patched, patches_active, result>>
      /\ process' = "running" => buf_filled
  BY DEF siglongjmp, recovery, skipping, patching, FrameLive
<1>4. /\ Early = {"start", "apply", "skip_on", "arm"}
      /\ After = {"nop", "skip_off", "restore", "inactive", "app"}
      /\ Early \cup After \cup {"setjmp", "call", "disarm", "recovered"} \subseteq PC
  BY DEF Early, After, PC, FramePC, GuestPC
<1>5. CallIsMain' /\ FilledIsLate'
  BY <1>2, <1>3, <1>4 DEF CallIsMain, FilledIsLate, Thread
<1>6. InCallFilled' /\ RecoveredFilled'
  BY <1>2, <1>3, <1>4 DEF InCallFilled, RecoveredFilled
<1>7. ReturnedDisarmed' /\ AfterReturned' /\ FlagTypes' /\ PatchedImpliesActive'
  BY <1>2, <1>3, <1>4 DEF ReturnedDisarmed, AfterReturned, FlagTypes, PatchedImpliesActive
<1>8. SkipIsOff' /\ Restored' /\ ApplyActive' /\ Inactive'
  BY <1>2, <1>3, <1>4 DEF SkipIsOff, Restored, ApplyActive, Inactive
<1> QED
  BY <1>1, <1>5, <1>6, <1>7, <1>8

-----------------------------------------------------------------------------
(* The invariant holds in every reachable state. *)
LEMMA Inductive == Spec => []IInv
<1>1. Init => IInv
  <2> SUFFICES ASSUME Init PROVE IInv
    OBVIOUS
  <2>1. \A t \in Thread, l \in PC : On(t, l) => l = (IF t = Main THEN "start" ELSE "run")
    BY DEF Init, On
  <2>2. StackShape
    BY DEF Init, StackShape, PC, FramePC, GuestPC, HandlerPC
  <2>3. /\ Early = {"start", "apply", "skip_on", "arm"}
        /\ After = {"nop", "skip_off", "restore", "inactive", "app"}
        /\ Early \cup After \cup {"setjmp", "call", "disarm", "recovered"} \subseteq PC
    BY DEF Early, After, PC, FramePC, GuestPC
  <2> QED
    BY <2>1, <2>2, <2>3 DEF Init, IInv, FlagTypes, CallIsMain, FilledIsLate, InCallFilled,
       RecoveredFilled, ReturnedDisarmed, AfterReturned, SkipIsOff, Restored, ApplyActive,
       Inactive, PatchedImpliesActive, Thread
<1>2. IInv /\ [Next]_vars => IInv'
  <2> SUFFICES ASSUME IInv, [Next]_vars PROVE IInv'
    OBVIOUS
  <2>1. CASE UNCHANGED vars
    BY <2>1 DEF vars, threads, recovery, skipping, patching, IInv, StackShape, FlagTypes,
       CallIsMain, FilledIsLate, InCallFilled, RecoveredFilled, ReturnedDisarmed,
       AfterReturned, SkipIsOff, Restored, ApplyActive, Inactive, PatchedImpliesActive, On
  <2>2. CASE Next
    <3>1. PICK t \in Thread : process = "running" /\ (CallStep(t) \/ CrashStep(t))
      BY <2>2 DEF Next, Step
    <3> QED
      BY <3>1, CallStepKeeps, CrashStepKeeps, JumpKeeps
  <2> QED
    BY <2>1, <2>2
<1> QED
  BY <1>1, <1>2, PTL DEF Spec

(* Whatever the lifecycle call did and however many threads crashed or     *)
(* jumped into its frame, code that runs after it finds the recovery point *)
(* off, crashes not skipped and the Swift runtime restored.                *)
THEOREM NothingLeftBehind == Spec => []CleanAfter
<1>1. IInv => CleanAfter
  BY DEF IInv, CleanAfter, ReturnedDisarmed, AfterReturned, SkipIsOff, Restored, Inactive,
     After, PC, GuestPC, On
<1> QED
  BY <1>1, Inductive, PTL

(* A replaced runtime function always finds LIFECYCLE_PATCHES_ACTIVE set. *)
THEOREM ReplacementsAreActive == Spec => []PatchedImpliesActive
<1>1. IInv => PatchedImpliesActive
  BY DEF IInv
<1> QED
  BY <1>1, Inductive, PTL

-----------------------------------------------------------------------------
(* While only the main thread crashes, the recovery point is armed exactly *)
(* while its frame exists, so what the handler or abort() checked still    *)
(* holds when it jumps.                                                    *)
JumpInv ==
  crashers \subseteq {Main} =>
    /\ \A t \in Others : pc[t] = "run"
    /\ recovery_active => buf_filled \/ pc[Main] = "setjmp"
    /\ pc[Main] \in {"mode", "count", "skip", "jump"} => FrameLive
    /\ process = "running" /\ pc[Main] = "longjmp" => FrameLive
    /\ process # "wild"

(* Every step keeps it: another thread can only crash, which ends the      *)
(* premise, or exit through shim_abort.                                    *)
LEMMA JumpInvStep ==
  ASSUME IInv, JumpInv, [Next]_vars
  PROVE  JumpInv'
<1> SUFFICES ASSUME crashers' \subseteq {Main}
             PROVE  /\ \A t \in Others : pc'[t] = "run"
                    /\ recovery_active' => buf_filled' \/ pc'[Main] = "setjmp"
                    /\ pc'[Main] \in {"mode", "count", "skip", "jump"} => FrameLive'
                    /\ process' = "running" /\ pc'[Main] = "longjmp" => FrameLive'
                    /\ process' # "wild"
  BY DEF JumpInv
<1>0. /\ Main \in Thread /\ Others \subseteq Thread /\ Main \notin Others
      /\ pc \in [Thread -> PC]
      /\ result # "none" => ~recovery_active
  BY RecoveryAssumption DEF Thread, IInv, StackShape, ReturnedDisarmed
<1>h. crashers \subseteq {Main}
  BY DEF Next, Step, CallStep, ActivatePatches, apply_lifecycle_patches, SkipModeOn, Arm, SetJmp,
     CallReturns, Disarm, Recovered, grafted_nop_saved_crash_sites, SkipModeOff,
     restore_lifecycle_patches, DeactivatePatches, CrashStep, Crash, HandlerFault, Swap, Guard,
     CheckRecovery, ClearHandler, CheckMode, CheckSkip, SkipCrash, SkipRefused, Jump, Diagnose, CallAbort, abort,
     shim_abort, siglongjmp, history, vars
<1>a. /\ \A t \in Others : pc[t] = "run"
      /\ recovery_active => buf_filled \/ pc[Main] = "setjmp"
      /\ pc[Main] \in {"mode", "count", "skip", "jump"} => FrameLive
      /\ process = "running" /\ pc[Main] = "longjmp" => FrameLive
      /\ process # "wild"
  BY <1>h DEF JumpInv
<1> USE <1>0, <1>a DEF FrameLive
<1>1. CASE UNCHANGED vars
  BY <1>1 DEF vars, threads, recovery
<1>2. CASE process = "running" /\ CallStep(Main)
  BY <1>2 DEF CallStep, ActivatePatches, apply_lifecycle_patches, SkipModeOn, Arm, SetJmp,
     CallReturns, Disarm, Recovered, grafted_nop_saved_crash_sites, SkipModeOff,
     restore_lifecycle_patches, DeactivatePatches, Goto, recovery
<1>3. CASE process = "running" /\ (Crash(Main) \/ HandlerFault(Main) \/ SkipCrash(Main))
  <2>1. CASE Crash(Main) \/ HandlerFault(Main)
    BY <1>3, <2>1 DEF Crash, HandlerFault, Signal, GuestPC, recovery
  <2>2. CASE SkipCrash(Main)
    <3>1. pc'[Main] \in {"mode", "count", "skip", "jump", "longjmp"} => FrameLive
      BY <2>2 DEF SkipCrash
    <3> QED
      BY <1>3, <2>2, <3>1 DEF SkipCrash, recovery
  <2> QED
    BY <1>3, <2>1, <2>2
<1>4. CASE process = "running" /\ (Swap(Main) \/ Guard(Main) \/ CheckRecovery(Main)
                                  \/ ClearHandler(Main) \/ CheckMode(Main) \/ CheckSkip(Main)
                                  \/ SkipRefused(Main) \/ Jump(Main))
  BY <1>4 DEF Swap, Guard, CheckRecovery, ClearHandler, CheckMode, CheckSkip, SkipRefused, Jump, Goto, recovery
<1>5. CASE process = "running" /\ (Diagnose(Main) \/ CallAbort(Main) \/ abort(Main)
                                  \/ shim_abort(Main) \/ siglongjmp(Main))
  BY <1>5 DEF Diagnose, CallAbort, abort, shim_abort, siglongjmp, GuestPC, Goto, recovery
<1>6. ASSUME NEW t \in Others, process = "running", CallStep(t) \/ CrashStep(t)
      PROVE  shim_abort(t)
  <2>1. pc[t] = "run" /\ t # Main
    BY <1>6
  <2>2. ~Crash(t) /\ ~CallAbort(t)
    BY <2>1 DEF Crash, CallAbort
  <2> QED
    BY <1>6, <2>1, <2>2 DEF CallStep, ActivatePatches, apply_lifecycle_patches, SkipModeOn, Arm,
       SetJmp, CallReturns, Disarm, Recovered, grafted_nop_saved_crash_sites, SkipModeOff,
       restore_lifecycle_patches, DeactivatePatches, CrashStep, HandlerFault, Swap, Guard,
       CheckRecovery, ClearHandler, CheckMode, CheckSkip, SkipCrash, SkipRefused, Jump, Diagnose, abort,
       siglongjmp, Goto
<1>7. ASSUME NEW t \in Others, shim_abort(t), process = "running"
      PROVE  /\ UNCHANGED <<recovery_active, buf_filled, result>>
             /\ pc' = pc /\ process' = "exit134"
  BY <1>7 DEF shim_abort, Goto, recovery
<1>8. ASSUME NEW t \in Others, process = "running", CallStep(t) \/ CrashStep(t)
      PROVE  /\ UNCHANGED <<recovery_active, buf_filled, result>>
             /\ pc' = pc /\ process' = "exit134"
  BY <1>6, <1>7, <1>8
<1>9. CASE \E t \in Others : process = "running" /\ (CallStep(t) \/ CrashStep(t))
  BY <1>8, <1>9
<1> QED
  BY <1>1, <1>2, <1>3, <1>4, <1>5, <1>9 DEF Next, Step, CrashStep, Thread

(* As long as no thread but the main one crashes, no jump goes to a frame  *)
(* that has been left or is not set up yet.                                *)
THEOREM JumpsLandInLiveFrames == Spec => []NoWildJump
<1>1. Init => JumpInv
  BY RecoveryAssumption DEF Init, JumpInv, FrameLive, Thread
<1>2. IInv /\ JumpInv /\ [Next]_vars => JumpInv'
  BY JumpInvStep
<1>3. JumpInv => NoWildJump
  BY DEF JumpInv, NoWildJump
<1> QED
  BY <1>1, <1>2, <1>3, Inductive, PTL DEF Spec
-----------------------------------------------------------------------------
(* The crash sites.  A skip that was granted is a place of a thread, its   *)
(* program counter or a nested activation's way back, at "skip".           *)
SkipAt(p, st, t, i) ==
  \/ i \in 1 .. Len(st[t]) /\ st[t][i] = "skip"
  \/ i = Len(st[t]) + 1 /\ p[t] = "skip"
Granted(p, st) == {x \in Thread \X Nat : SkipAt(p, st, x[1], x[2])}

(* Sites recorded and skips still granted are no more than the skips       *)
(* counted, and no more than the limit.                                    *)
Budget ==
  /\ skip_count \in Nat /\ site_count \in Nat
  /\ IsFiniteSet(Granted(pc, stack))
  /\ site_count + Cardinality(Granted(pc, stack)) <= skip_count
  /\ site_count + Cardinality(Granted(pc, stack)) <= SkipLimit

(* Threads that found the recovery point armed and are about to ask for a  *)
(* skip.                                                                   *)
Asking(p) == {u \in Thread : p[u] \in {"mode", "count"}}

(* Turning the skip mode on clears the counters; at that time nothing is   *)
(* granted or asked for.                                                   *)
NoneEarly ==
  pc[Main] \in Early => ~recovery_active /\ Granted(pc, stack) = {} /\ Asking(pc) = {}

OtherTypes ==
  /\ kind \in [Thread -> Kind] /\ in_handler \in BOOLEAN
  /\ crashed \in BOOLEAN /\ crashers \subseteq Thread /\ result \in {"none", "true", "false"}
  /\ process \in {"running", "exit134", "exit139", "wild"}

(* What a plain move does to the granted skips. *)
LEMMA GotoGrants ==
  ASSUME StackShape, NEW t \in Thread, NEW from \in PC, NEW to \in PC, Goto(t, from, to)
  PROVE  /\ to # "skip" => Granted(pc', stack') \subseteq Granted(pc, stack)
         /\ from # "skip" /\ to = "skip" =>
              /\ Granted(pc', stack') = Granted(pc, stack) \cup {<<t, Len(stack[t]) + 1>>}
              /\ <<t, Len(stack[t]) + 1>> \notin Granted(pc, stack)
<1>1. /\ stack' = stack /\ pc[t] = from /\ pc'[t] = to
      /\ \A u \in Thread : u # t => pc'[u] = pc[u]
      /\ \A u \in Thread : Len(stack[u]) \in Nat
  BY DEF Goto, StackShape
<1>2. ASSUME to # "skip", NEW u \in Thread, NEW i \in Nat, SkipAt(pc', stack', u, i)
      PROVE  SkipAt(pc, stack, u, i)
  BY <1>1, <1>2 DEF SkipAt
<1>3. ASSUME from # "skip", to = "skip"
      PROVE  /\ \A u \in Thread, i \in Nat :
                  SkipAt(pc', stack', u, i) <=>
                    SkipAt(pc, stack, u, i) \/ (u = t /\ i = Len(stack[t]) + 1)
             /\ ~SkipAt(pc, stack, t, Len(stack[t]) + 1)
  BY <1>1, <1>3 DEF SkipAt
<1>4. Len(stack[t]) + 1 \in Nat
  BY <1>1
<1>5. ASSUME to # "skip" PROVE Granted(pc', stack') \subseteq Granted(pc, stack)
  BY <1>2, <1>5 DEF Granted
<1>6. ASSUME from # "skip", to = "skip"
      PROVE  /\ Granted(pc', stack') = Granted(pc, stack) \cup {<<t, Len(stack[t]) + 1>>}
             /\ <<t, Len(stack[t]) + 1>> \notin Granted(pc, stack)
  <2>1. PICK n \in Nat : n = Len(stack[t]) + 1
    BY <1>4
  <2>2. /\ \A u \in Thread, i \in Nat :
             SkipAt(pc', stack', u, i) <=> SkipAt(pc, stack, u, i) \/ (u = t /\ i = n)
        /\ ~SkipAt(pc, stack, t, n)
    BY <1>3, <1>6, <2>1
  <2>3. \A x \in Thread \X Nat :
          x \in Granted(pc', stack') <=> x \in Granted(pc, stack) \/ x = <<t, n>>
    BY <2>2 DEF Granted
  <2>4. /\ Granted(pc', stack') \subseteq Thread \X Nat
        /\ Granted(pc, stack) \subseteq Thread \X Nat
        /\ <<t, n>> \in Thread \X Nat
    BY DEF Granted
  <2>5. Granted(pc', stack') = Granted(pc, stack) \cup {<<t, n>>}
    BY <2>3, <2>4
  <2>6. <<t, n>> \notin Granted(pc, stack)
    BY <2>2 DEF Granted
  <2> QED
    BY <2>1, <2>5, <2>6
<1> QED
  BY <1>5, <1>6

(* A signal keeps them: the interrupted skip moves to the stack. *)
LEMMA SignalGrants ==
  ASSUME StackShape, NEW t \in Thread, NEW k, Signal(t, k)
  PROVE  Granted(pc', stack') = Granted(pc, stack)
<1>1. /\ stack[t] \in Seq(PC) /\ pc[t] \in PC
      /\ pc'[t] = "handler" /\ stack'[t] = Append(stack[t], pc[t])
      /\ \A u \in Thread : u # t => pc'[u] = pc[u] /\ stack'[u] = stack[u]
  BY DEF Signal, StackShape
<1>2. /\ Len(stack[t]) \in Nat /\ Len(stack'[t]) = Len(stack[t]) + 1
      /\ \A i \in 1 .. Len(stack[t]) : stack'[t][i] = stack[t][i]
      /\ stack'[t][Len(stack[t]) + 1] = pc[t]
  BY <1>1
<1>3. \A i \in Nat : SkipAt(pc', stack', t, i) <=> SkipAt(pc, stack, t, i)
  BY <1>1, <1>2 DEF SkipAt
<1>4. \A u \in Thread, i \in Nat : u # t => (SkipAt(pc', stack', u, i) <=> SkipAt(pc, stack, u, i))
  BY <1>1 DEF SkipAt
<1> QED
  BY <1>3, <1>4 DEF Granted

(* The end of a skip uses its grant up. *)
LEMMA SkipCrashGrants ==
  ASSUME StackShape, NEW t \in Thread, SkipCrash(t)
  PROVE  /\ <<t, Len(stack[t]) + 1>> \in Granted(pc, stack)
         /\ Granted(pc', stack') = Granted(pc, stack) \ {<<t, Len(stack[t]) + 1>>}
<1>1. /\ stack[t] \in Seq(PC) /\ Len(stack[t]) \in Nat /\ Len(stack[t]) > 0
      /\ pc[t] = "skip" /\ pc'[t] = stack[t][Len(stack[t])]
      /\ stack'[t] = SubSeq(stack[t], 1, Len(stack[t]) - 1)
      /\ \A u \in Thread : u # t => pc'[u] = pc[u] /\ stack'[u] = stack[u]
  BY DEF SkipCrash, StackShape, HandlerPC
<1>2. /\ Len(stack'[t]) = Len(stack[t]) - 1
      /\ \A i \in 1 .. Len(stack[t]) - 1 : stack'[t][i] = stack[t][i]
  BY <1>1, PopProperties
<1>3. PICK n \in Nat : n = Len(stack[t]) + 1
  BY <1>1
<1>4. \A i \in Nat : SkipAt(pc', stack', t, i) <=> SkipAt(pc, stack, t, i) /\ i # n
  BY <1>1, <1>2, <1>3 DEF SkipAt
<1>5. \A u \in Thread, i \in Nat : u # t => (SkipAt(pc', stack', u, i) <=> SkipAt(pc, stack, u, i))
  BY <1>1 DEF SkipAt
<1>6. \A x \in Thread \X Nat :
        x \in Granted(pc', stack') <=> x \in Granted(pc, stack) /\ x # <<t, n>>
  BY <1>4, <1>5 DEF Granted
<1>7. /\ Granted(pc', stack') \subseteq Thread \X Nat
      /\ Granted(pc, stack) \subseteq Thread \X Nat
  BY DEF Granted
<1>8. Granted(pc', stack') = Granted(pc, stack) \ {<<t, n>>}
  BY <1>6, <1>7
<1>9. <<t, n>> \in Granted(pc, stack)
  BY <1>1, <1>3 DEF Granted, SkipAt
<1> QED
  BY <1>3, <1>8, <1>9

(* A jump drops the skips of its thread. *)
LEMMA JumpGrants ==
  ASSUME StackShape, NEW t \in Thread, siglongjmp(t)
  PROVE  Granted(pc', stack') \subseteq Granted(pc, stack)
<1>1. /\ pc'[t] = "recovered" /\ stack'[t] = <<>>
      /\ \A u \in Thread : u # t => pc'[u] = pc[u] /\ stack'[u] = stack[u]
  BY DEF siglongjmp, StackShape
<1>2. \A i \in Nat : ~SkipAt(pc', stack', t, i)
  BY <1>1 DEF SkipAt
<1>3. \A u \in Thread, i \in Nat : u # t => (SkipAt(pc', stack', u, i) <=> SkipAt(pc, stack, u, i))
  BY <1>1 DEF SkipAt
<1> QED
  BY <1>2, <1>3 DEF Granted

-----------------------------------------------------------------------------
SiteInv == Budget /\ NoneEarly

(* A step that grants nothing and counts nothing keeps the budget. *)
LEMMA NothingGranted ==
  ASSUME SiteInv, Granted(pc', stack') \subseteq Granted(pc, stack),
         skip_count' = skip_count, site_count' = site_count \/ site_count' = 0,
         pc'[Main] \in Early => /\ pc[Main] \in Early /\ (recovery_active' => recovery_active)
                                /\ Asking(pc') \subseteq Asking(pc)
  PROVE  SiteInv'
<1>1. /\ IsFiniteSet(Granted(pc', stack'))
      /\ Cardinality(Granted(pc', stack')) <= Cardinality(Granted(pc, stack))
      /\ Cardinality(Granted(pc', stack')) \in Nat /\ Cardinality(Granted(pc, stack)) \in Nat
  BY FS_Subset, FS_CardinalityType DEF SiteInv, Budget
<1>2. PICK c \in Nat, d \in Nat : c = Cardinality(Granted(pc, stack)) /\ d = Cardinality(Granted(pc', stack'))
  BY <1>1
<1>3. /\ skip_count' \in Nat /\ site_count' \in Nat
      /\ site_count' + d <= skip_count' /\ site_count' + d <= SkipLimit
  BY <1>1, <1>2, RecoveryAssumption DEF SiteInv, Budget
<1>4. Budget'
  BY <1>1, <1>2, <1>3 DEF Budget
<1>5. NoneEarly'
  BY DEF SiteInv, NoneEarly
<1> QED
  BY <1>4, <1>5 DEF SiteInv

(* Only the main thread moves through the code before the call. *)
LEMMA EarlyIsMain ==
  ASSUME IInv, NEW t \in Thread, pc[t] \in Early
  PROVE  t = Main
  BY DEF IInv, CallIsMain, On

(* Turning the skip mode on clears the counters when nothing is granted. *)
LEMMA SkipModeOnKeeps ==
  ASSUME IInv, SiteInv, NEW t \in Thread, SkipModeOn(t)
  PROVE  SiteInv'
<1>1. Goto(t, "skip_on", "arm") /\ pc[t] = "skip_on" /\ StackShape
  BY DEF SkipModeOn, Goto, IInv
<1>2. t = Main
  BY <1>1, EarlyIsMain DEF Early
<1>3. ~recovery_active /\ Granted(pc, stack) = {} /\ Asking(pc) = {}
  BY <1>1, <1>2 DEF SiteInv, NoneEarly, Early
<1>4. Granted(pc', stack') = {}
  BY <1>1, <1>3, GotoGrants DEF PC, FramePC
<1>5. /\ skip_count' \in Nat /\ site_count' \in Nat
      /\ site_count' <= skip_count' /\ site_count' <= SkipLimit
  <2>1. Cardinality(Granted(pc, stack)) = 0
    BY <1>3, FS_EmptySet
  <2>2. /\ skip_count \in Nat /\ site_count \in Nat
        /\ site_count <= skip_count /\ site_count <= SkipLimit
    BY <2>1 DEF SiteInv, Budget
  <2> QED
    BY <2>2, RecoveryAssumption DEF SkipModeOn
<1>6. IsFiniteSet(Granted(pc', stack')) /\ Cardinality(Granted(pc', stack')) = 0
  BY <1>4, FS_EmptySet
<1>7. Budget'
  <2>1. site_count' + 0 <= skip_count' /\ site_count' + 0 <= SkipLimit
    <3>1. PICK a \in Nat, b \in Nat : a = site_count' /\ b = skip_count'
      BY <1>5
    <3>2. a + 0 = a
      OBVIOUS
    <3> QED
      BY <1>5, <3>1, <3>2
  <2> QED
    BY <1>5, <1>6, <2>1 DEF Budget
<1>8. NoneEarly'
  <2>1. Asking(pc') = {}
    BY <1>1, <1>3 DEF Asking, Goto, StackShape
  <2> QED
    BY <1>3, <1>4, <2>1 DEF NoneEarly, SkipModeOn, recovery
<1> QED
  BY <1>7, <1>8 DEF SiteInv

(* A granted skip is counted first: skip_n < 500 bounds the grants. *)
LEMMA CheckSkipKeeps ==
  ASSUME IInv, SiteInv, NEW t \in Thread, CheckSkip(t)
  PROVE  SiteInv'
<1>1. PICK to \in {"skip", "jump"} :
        Goto(t, "count", to) /\ (to = "skip" => skip_count < SkipLimit)
  BY DEF CheckSkip
<1>2. StackShape /\ Main \in Thread
  BY DEF IInv, Thread
<1>3. pc[Main] \notin Early
  BY <1>1 DEF SiteInv, NoneEarly, Asking, Goto
<1>4. pc'[Main] \notin Early
  BY <1>1, <1>2, <1>3 DEF Goto, StackShape, Early
<1>5. /\ IsFiniteSet(Granted(pc', stack'))
      /\ Cardinality(Granted(pc', stack')) \in Nat /\ Cardinality(Granted(pc, stack)) \in Nat
      /\ Cardinality(Granted(pc', stack')) <= Cardinality(Granted(pc, stack)) + (IF to = "skip" THEN 1 ELSE 0)
  <2>1. CASE to = "skip"
    <3>1. /\ Granted(pc', stack') = Granted(pc, stack) \cup {<<t, Len(stack[t]) + 1>>}
          /\ <<t, Len(stack[t]) + 1>> \notin Granted(pc, stack)
      <4>1. Goto(t, "count", "skip") /\ "count" \in PC /\ "skip" \in PC
        BY <1>1, <2>1 DEF PC, HandlerPC
      <4> QED
        BY <1>2, <4>1, GotoGrants
    <3>2. IsFiniteSet(Granted(pc, stack)) /\ Cardinality(Granted(pc, stack)) \in Nat
      BY FS_CardinalityType DEF SiteInv, Budget
    <3>3. /\ IsFiniteSet(Granted(pc', stack'))
          /\ Cardinality(Granted(pc', stack')) = Cardinality(Granted(pc, stack)) + 1
      <4>1. PICK G, H, x : /\ G = Granted(pc, stack) /\ H = Granted(pc', stack')
                           /\ H = G \cup {x} /\ x \notin G
        BY <3>1
      <4>2. IsFiniteSet(H) /\ Cardinality(H) = Cardinality(G) + 1
        BY <3>2, <4>1, FS_AddElement
      <4> QED
        BY <4>1, <4>2
    <3> QED
      BY <2>1, <3>2, <3>3
  <2>2. CASE to = "jump"
    <3>1. Granted(pc', stack') \subseteq Granted(pc, stack)
      BY <1>1, <1>2, <2>2, GotoGrants DEF PC, HandlerPC
    <3> QED
      BY <2>2, <3>1, FS_Subset, FS_CardinalityType DEF SiteInv, Budget
  <2> QED
    BY <1>1, <2>1, <2>2
<1>6. PICK c \in Nat, d \in Nat : c = Cardinality(Granted(pc, stack)) /\ d = Cardinality(Granted(pc', stack'))
  BY <1>5
<1>7. /\ skip_count' \in Nat /\ site_count' \in Nat
      /\ site_count' + d <= skip_count' /\ site_count' + d <= SkipLimit
  BY <1>1, <1>5, <1>6, RecoveryAssumption DEF SiteInv, Budget, CheckSkip
<1>8. Budget'
  BY <1>5, <1>6, <1>7 DEF Budget
<1> QED
  BY <1>4, <1>8 DEF SiteInv, NoneEarly

(* A recorded site uses a grant up. *)
LEMMA SkipCrashKeeps ==
  ASSUME IInv, SiteInv, NEW t \in Thread, SkipCrash(t)
  PROVE  SiteInv'
<1>1. StackShape /\ Main \in Thread
  BY DEF IInv, Thread
<1>2. /\ <<t, Len(stack[t]) + 1>> \in Granted(pc, stack)
      /\ Granted(pc', stack') = Granted(pc, stack) \ {<<t, Len(stack[t]) + 1>>}
  BY <1>1, SkipCrashGrants
<1>3. /\ IsFiniteSet(Granted(pc', stack'))
      /\ Cardinality(Granted(pc', stack')) = Cardinality(Granted(pc, stack)) - 1
      /\ Cardinality(Granted(pc', stack')) \in Nat /\ Cardinality(Granted(pc, stack)) \in Nat
  BY <1>2, FS_RemoveElement, FS_CardinalityType DEF SiteInv, Budget
<1>4. PICK c \in Nat, d \in Nat : c = Cardinality(Granted(pc, stack)) /\ d = Cardinality(Granted(pc', stack'))
  BY <1>3
<1>5. /\ skip_count' \in Nat /\ site_count' \in Nat
      /\ site_count' + d <= skip_count' /\ site_count' + d <= SkipLimit
  BY <1>3, <1>4, RecoveryAssumption DEF SiteInv, Budget, SkipCrash
<1>6. Budget'
  BY <1>3, <1>4, <1>5 DEF Budget
<1>7. pc[Main] \notin Early
  BY <1>2 DEF SiteInv, NoneEarly
<1>8. pc'[Main] \notin Early
  <2>1. CASE t = Main
    <3>1. /\ stack[t] \in Seq(PC) /\ Len(stack[t]) > 0 /\ pc'[t] = stack[t][Len(stack[t])]
      BY <1>1 DEF SkipCrash, StackShape, HandlerPC
    <3>2. pc'[t] \in GuestPC \cup HandlerPC
      BY <1>1, <3>1 DEF StackShape
    <3> QED
      BY <2>1, <3>2 DEF GuestPC, HandlerPC, Early
  <2>2. CASE t # Main
    BY <1>1, <1>7, <2>2 DEF SkipCrash, StackShape
  <2> QED
    BY <2>1, <2>2
<1> QED
  BY <1>6, <1>8 DEF SiteInv, NoneEarly

(* Every other step is a plain move that enters no skip, a signal or a jump. *)
LEMMA OtherStepKeeps ==
  ASSUME IInv, SiteInv, NEW t \in Thread, CallStep(t) \/ CrashStep(t),
         ~SkipModeOn(t), ~CheckSkip(t), ~SkipCrash(t)
  PROVE  SiteInv'
<1>0. StackShape /\ Main \in Thread /\ pc \in [Thread -> PC]
  BY DEF IInv, StackShape, Thread
<1>1. CASE CallStep(t)
  <2>1. PICK from \in FramePC \cup GuestPC, to \in (FramePC \cup GuestPC) \ {"start"} :
          /\ Goto(t, from, to)
          /\ to \in Early => from \in Early /\ recovery_active' = recovery_active
          /\ skip_count' = skip_count /\ (site_count' = site_count \/ site_count' = 0)
    BY <1>1 DEF CallStep, ActivatePatches, apply_lifecycle_patches, Arm, SetJmp, CallReturns,
       Disarm, Recovered, grafted_nop_saved_crash_sites, SkipModeOff,
       restore_lifecycle_patches, DeactivatePatches, FramePC, GuestPC, Early, recovery, skipping
  <2>2. Granted(pc', stack') \subseteq Granted(pc, stack)
    BY <1>0, <2>1, GotoGrants DEF PC, FramePC, GuestPC
  <2>3. pc[Main] \in Early \/ pc'[Main] \notin Early
    BY <1>0, <2>1 DEF Goto
  <2>4. ~Arm(t) => (recovery_active' => recovery_active)
    BY <1>1 DEF CallStep, ActivatePatches, apply_lifecycle_patches, SkipModeOn, SetJmp, CallReturns,
       Disarm, Recovered, grafted_nop_saved_crash_sites, SkipModeOff,
       restore_lifecycle_patches, DeactivatePatches, recovery
  <2>5. Arm(t) => pc'[Main] \notin Early
    <3>1. ASSUME Arm(t) PROVE t = Main
      BY <3>1, EarlyIsMain DEF Arm, Goto, Early
    <3> QED
      BY <1>0, <3>1 DEF Arm, Goto, Early
  <2>6. Asking(pc') \subseteq Asking(pc)
    BY <1>0, <2>1 DEF Asking, Goto, FramePC, GuestPC
  <2> QED
    BY <2>1, <2>2, <2>3, <2>4, <2>5, <2>6, NothingGranted
<1>2. CASE Crash(t) \/ HandlerFault(t)
  <2>1. PICK k : Signal(t, k)
    BY <1>2 DEF Crash, HandlerFault
  <2>2. Granted(pc', stack') = Granted(pc, stack)
    BY <1>0, <2>1, SignalGrants
  <2>3. /\ skip_count' = skip_count /\ site_count' = site_count
        /\ recovery_active' = recovery_active
        /\ pc'[Main] \in Early => pc[Main] \in Early
    BY <1>0, <2>1 DEF Signal, recovery, skipping, Early
  <2>4. Asking(pc') \subseteq Asking(pc)
    BY <1>0, <2>1 DEF Asking, Signal
  <2> QED
    BY <2>2, <2>3, <2>4, NothingGranted
<1>3. CASE siglongjmp(t)
  <2>1. Granted(pc', stack') \subseteq Granted(pc, stack)
    BY <1>0, <1>3, JumpGrants
  <2>2. /\ skip_count' = skip_count /\ site_count' = site_count
        /\ recovery_active' = recovery_active
        /\ pc'[Main] \in Early => pc[Main] \in Early
    BY <1>0, <1>3 DEF siglongjmp, recovery, skipping, Early
  <2>3. Asking(pc') \subseteq Asking(pc)
    BY <1>0, <1>3 DEF Asking, siglongjmp
  <2> QED
    BY <2>1, <2>2, <2>3, NothingGranted
<1>4. CASE CrashStep(t) /\ ~Crash(t) /\ ~HandlerFault(t) /\ ~siglongjmp(t)
  <2>1. PICK from \in PC, to \in PC \ (Early \cup {"skip"}) :
          /\ Goto(t, from, to)
          /\ skip_count' = skip_count /\ site_count' = site_count
          /\ recovery_active' = recovery_active
          /\ to \in {"mode", "count"} => from \in {"mode", "count"} \/ recovery_active
    BY <1>0, <1>4 DEF CrashStep, Swap, Guard, CheckRecovery, ClearHandler, CheckMode, SkipRefused, Jump, Diagnose,
       CallAbort, abort, shim_abort, PC, FramePC, GuestPC, HandlerPC, Early, recovery, skipping
  <2>2. Granted(pc', stack') \subseteq Granted(pc, stack)
    BY <1>0, <2>1, GotoGrants
  <2>3. pc'[Main] \in Early => pc[Main] \in Early
    BY <1>0, <2>1 DEF Goto
  <2>4. pc[Main] \in Early => Asking(pc') \subseteq Asking(pc)
    <3>1. ASSUME pc[Main] \in Early PROVE ~recovery_active
      BY <3>1 DEF SiteInv, NoneEarly
    <3>2. ASSUME ~recovery_active PROVE Asking(pc') \subseteq Asking(pc)
      BY <1>0, <2>1, <3>2 DEF Asking, Goto
    <3> QED
      BY <3>1, <3>2
  <2> QED
    BY <2>1, <2>2, <2>3, <2>4, NothingGranted
<1> QED
  BY <1>1, <1>2, <1>3, <1>4

(* The types of what no other invariant speaks of. *)
LEMMA OtherTypesStep ==
  ASSUME OtherTypes, [Next]_vars
  PROVE  OtherTypes'
<1>1. CASE UNCHANGED vars
  BY <1>1 DEF OtherTypes, vars, threads, history
<1>2. ASSUME NEW t \in Thread, CallStep(t) PROVE OtherTypes'
  BY <1>2 DEF OtherTypes, CallStep, ActivatePatches, apply_lifecycle_patches, SkipModeOn, Arm, SetJmp,
     CallReturns, Disarm, Recovered, grafted_nop_saved_crash_sites, SkipModeOff,
     restore_lifecycle_patches, DeactivatePatches, Goto, history
<1>3. ASSUME NEW t \in Thread, Crash(t) \/ HandlerFault(t) PROVE OtherTypes'
  BY <1>3 DEF OtherTypes, Crash, HandlerFault, Signal, Kind, history
<1>4. ASSUME NEW t \in Thread, CrashStep(t), ~Crash(t), ~HandlerFault(t) PROVE OtherTypes'
  BY <1>4 DEF OtherTypes, CrashStep, Swap, Guard, CheckRecovery, ClearHandler, CheckMode, CheckSkip, SkipCrash,
     SkipRefused, Jump, Diagnose, CallAbort, abort, shim_abort, siglongjmp, Goto, history
<1> QED
  BY <1>1, <1>2, <1>3, <1>4 DEF Next, Step

(* Whatever threads crash, fault inside the handler or jump, and in        *)
(* whatever order, every variable keeps its type and the table of crash    *)
(* sites never holds more than the limit (sigsegv_handler, skip_n < 500).  *)
THEOREM SitesAreBounded == Spec => []TypeOK
<1>1. Init => SiteInv /\ OtherTypes
  <2> SUFFICES ASSUME Init PROVE SiteInv /\ OtherTypes
    OBVIOUS
  <2>1. Granted(pc, stack) = {}
    <3>1. \A t \in Thread, i \in Nat : ~SkipAt(pc, stack, t, i)
      BY DEF Init, SkipAt
    <3> QED
      BY <3>1 DEF Granted
  <2>2. IsFiniteSet(Granted(pc, stack)) /\ Cardinality(Granted(pc, stack)) = 0
    BY <2>1, FS_EmptySet
  <2>3. Budget
    BY <2>2, RecoveryAssumption DEF Init, Budget
  <2>4. NoneEarly
    BY <2>1 DEF Init, NoneEarly, Asking
  <2>5. OtherTypes
    BY DEF Init, OtherTypes, Kind
  <2> QED
    BY <2>3, <2>4, <2>5 DEF SiteInv
<1>2. IInv /\ SiteInv /\ [Next]_vars => SiteInv'
  <2> SUFFICES ASSUME IInv, SiteInv, [Next]_vars PROVE SiteInv'
    OBVIOUS
  <2>1. CASE UNCHANGED vars
    BY <2>1 DEF SiteInv, Budget, NoneEarly, Asking, Granted, SkipAt, vars, threads, recovery, skipping
  <2>2. CASE Next
    BY <2>2, SkipModeOnKeeps, CheckSkipKeeps, SkipCrashKeeps, OtherStepKeeps DEF Next, Step
  <2> QED
    BY <2>1, <2>2
<1>3. OtherTypes /\ [Next]_vars => OtherTypes'
  BY OtherTypesStep
<1>4. IInv /\ SiteInv /\ OtherTypes => TypeOK
  <2> SUFFICES ASSUME IInv, SiteInv, OtherTypes PROVE TypeOK
    OBVIOUS
  <2>1. site_count \in 0 .. SkipLimit
    BY FS_CardinalityType, RecoveryAssumption DEF SiteInv, Budget
  <2> QED
    BY <2>1 DEF IInv, SiteInv, Budget, OtherTypes, StackShape, FlagTypes, TypeOK
<1> QED
  BY <1>1, <1>2, <1>3, <1>4, Inductive, PTL DEF Spec

=============================================================================
