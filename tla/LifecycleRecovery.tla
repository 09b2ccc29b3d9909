-------------------------- MODULE LifecycleRecovery --------------------------
(***************************************************************************)
(* The crash recovery around applicationDidFinishLaunching:.               *)
(* grafted_swiftui_run_loop (grafted-frameworks/src/appkit/application.rs) *)
(* patches the Swift runtime, calls the app delegate through               *)
(* grafted_try_call and undoes the patches; sigsegv_handler and abort()    *)
(* (grafted-loader/src/executor.rs) turn a crash inside the call into a    *)
(* skipped instruction or a siglongjmp to the one process-wide recovery    *)
(* buffer.                                                                 *)
(*                                                                         *)
(* One step is one access to the shared flags.  SkipModeOn clears the two  *)
(* counters in the same step, when nothing reads them yet, and SkipCrash   *)
(* counts its site, which no handler reads.  What a crash is is reduced to *)
(* what the handler tells apart: "null_call" (RIP is 0 and the stack       *)
(* pointer is plausible), "binary" (a decodable instruction of the         *)
(* program), "library" (anything else) and "abrt" (the signal SIGABRT).    *)
(***************************************************************************)
EXTENDS Integers, Sequences

CONSTANTS
  Main,       \* the thread that makes the lifecycle call
  Others,     \* other threads that run guest code
  SkipLimit,  \* crashes that may be skipped in one lifecycle call (500)
  MaxNest     \* bound: handler activations nested on one thread

Thread == {Main} \cup Others
Kind   == {"null_call", "binary", "library", "abrt"}

ASSUME RecoveryAssumption ==
  /\ Main \notin Others
  /\ SkipLimit \in Nat /\ MaxNest \in Nat \ {0}

VARIABLES
  pc,               \* where each thread is
  stack,            \* the code its nested crashes interrupted, outermost first
  kind,             \* the crash its innermost handler activation looks at
  recovery_active,  \* RECOVERY_ACTIVE
  buf_filled,       \* has __sigsetjmp filled RECOVERY_BUF?
  in_handler,       \* IN_HANDLER
  skip_mode,        \* LIFECYCLE_SKIP_MODE
  skip_count,       \* LIFECYCLE_SKIP_COUNT
  site_count,       \* CRASH_SITE_COUNT
  patched,          \* are the Swift runtime functions overwritten?
  patches_active,   \* LIFECYCLE_PATCHES_ACTIVE
  crashed,          \* history: did the lifecycle call itself crash?
  crashers,         \* history: the threads that have crashed or called abort()
  result,           \* what grafted_try_call returned
  process           \* "running", "exit134", "exit139" or "wild"

recovery == <<recovery_active, buf_filled>>
skipping == <<skip_mode, skip_count, site_count>>
patching == <<patched, patches_active>>
threads  == <<pc, stack, kind>>
history  == <<crashed, crashers>>
vars == <<threads, recovery, in_handler, skipping, patching, history, result, process>>

FramePC   == {"start", "apply", "skip_on", "arm", "setjmp", "disarm", "recovered",
              "nop", "skip_off", "restore", "inactive"}
GuestPC   == {"call", "app", "run"}
HandlerPC == {"handler", "guard", "check", "clear", "mode", "count", "skip", "jump", "diag"}
PC        == FramePC \cup GuestPC \cup HandlerPC \cup {"abort", "longjmp"}

Init ==
  /\ pc = [t \in Thread |-> IF t = Main THEN "start" ELSE "run"]
  /\ stack = [t \in Thread |-> <<>>]
  /\ kind = [t \in Thread |-> "library"]
  /\ recovery_active = FALSE /\ buf_filled = FALSE
  /\ in_handler = FALSE
  /\ skip_mode = FALSE /\ skip_count = 0 /\ site_count = 0
  /\ patched = FALSE /\ patches_active = FALSE
  /\ crashed = FALSE /\ crashers = {} /\ result = "none" /\ process = "running"

Goto(t, from, to) ==
  /\ pc[t] = from
  /\ pc' = [pc EXCEPT ![t] = to]
  /\ UNCHANGED <<stack, kind>>

-----------------------------------------------------------------------------
(* grafted_swiftui_run_loop and grafted_try_call.  The steps belong to the *)
(* stack frame, so a thread that jumps into the frame takes them too.      *)

(* Mutant: the flag is not raised before the patches. *)
ActivatePatches_missing(t) ==
  /\ Goto(t, "start", "apply")
  /\ UNCHANGED <<recovery, in_handler, skipping, patching, history, result, process>>

ActivatePatches(t) ==
  /\ Goto(t, "start", "apply")
  /\ patches_active' = TRUE
  /\ UNCHANGED <<recovery, in_handler, skipping, patched, history, result, process>>

apply_lifecycle_patches(t) ==
  /\ Goto(t, "apply", "skip_on")
  /\ patched' = TRUE
  /\ UNCHANGED <<recovery, in_handler, skipping, patches_active, history, result, process>>

(* grafted_set_lifecycle_skip_mode(legacy): legacy is set in the           *)
(* environment, and turning the mode on clears both counters.              *)
SkipModeOn(t) ==
  /\ Goto(t, "skip_on", "arm")
  /\ \E legacy \in BOOLEAN :
       /\ skip_mode' = legacy
       /\ skip_count' = IF legacy THEN 0 ELSE skip_count
       /\ site_count' = IF legacy THEN 0 ELSE site_count
  /\ UNCHANGED <<recovery, in_handler, patching, history, result, process>>

Arm(t) ==
  /\ Goto(t, "arm", "setjmp")
  /\ recovery_active' = TRUE
  /\ UNCHANGED <<buf_filled, in_handler, skipping, patching, history, result, process>>

SetJmp(t) ==
  /\ Goto(t, "setjmp", "call")
  /\ buf_filled' = TRUE
  /\ UNCHANGED <<recovery_active, in_handler, skipping, patching, history, result, process>>

CallReturns(t) ==
  /\ Goto(t, "call", "disarm")
  /\ UNCHANGED <<recovery, in_handler, skipping, patching, history, result, process>>

(* Mutant: RECOVERY_ACTIVE stays set after a call that succeeded. *)
Disarm_missing(t) ==
  /\ Goto(t, "disarm", "skip_off")
  /\ result' = "true"
  /\ UNCHANGED <<recovery, in_handler, skipping, patching, history, process>>

Disarm(t) ==
  /\ Goto(t, "disarm", "skip_off")
  /\ recovery_active' = FALSE
  /\ result' = "true"
  /\ UNCHANGED <<buf_filled, in_handler, skipping, patching, history, process>>

(* Mutant: RECOVERY_ACTIVE stays set after a call that crashed. *)
Recovered_armed(t) ==
  /\ Goto(t, "recovered", "nop")
  /\ result' = "false"
  /\ UNCHANGED <<recovery, in_handler, skipping, patching, history, process>>

Recovered(t) ==
  /\ Goto(t, "recovered", "nop")
  /\ recovery_active' = FALSE
  /\ result' = "false"
  /\ UNCHANGED <<buf_filled, in_handler, skipping, patching, history, process>>

(* The recorded sites are overwritten with NOPs and forgotten; with        *)
(* max_retries = 1 the loop ends here whatever the call did.               *)
grafted_nop_saved_crash_sites(t) ==
  /\ Goto(t, "nop", "skip_off")
  /\ site_count' = 0
  /\ UNCHANGED <<recovery, in_handler, skip_mode, skip_count, patching, history, result, process>>

SkipModeOff(t) ==
  /\ Goto(t, "skip_off", "restore")
  /\ skip_mode' = FALSE
  /\ UNCHANGED <<recovery, in_handler, skip_count, site_count, patching, history, result, process>>

restore_lifecycle_patches(t) ==
  /\ Goto(t, "restore", "inactive")
  /\ patched' = FALSE
  /\ UNCHANGED <<recovery, in_handler, skipping, patches_active, history, result, process>>

DeactivatePatches(t) ==
  /\ Goto(t, "inactive", "app")
  /\ patches_active' = FALSE
  /\ UNCHANGED <<recovery, in_handler, skipping, patched, history, result, process>>

-----------------------------------------------------------------------------
(* Crashes, sigsegv_handler (installed with SA_NODEFER, so it can          *)
(* interrupt itself) and the abort() override.                             *)

(* A signal interrupts thread t and starts an activation of the handler. *)
Signal(t, k) ==
  /\ stack' = [stack EXCEPT ![t] = Append(@, pc[t])]
  /\ kind' = [kind EXCEPT ![t] = k]
  /\ pc' = [pc EXCEPT ![t] = "handler"]
  /\ UNCHANGED <<recovery, in_handler, skipping, patching, result, process>>

Crash(t) ==
  /\ pc[t] \in GuestPC
  /\ crashed' = (crashed \/ pc[t] = "call")
  /\ crashers' = crashers \cup {t}
  /\ \E k \in Kind : Signal(t, k)

(* The handler itself faults: reading the return address of a null call,   *)
(* decoding the instruction, or dumping the memory at RDI.                 *)
HandlerFault(t) ==
  /\ \/ pc[t] = "skip" /\ kind[t] \in {"null_call", "binary"}
     \/ pc[t] = "diag"
  /\ Len(stack[t]) < MaxNest
  /\ Signal(t, "library")
  /\ UNCHANGED history

Swap(t) ==
  /\ Goto(t, "handler", IF in_handler THEN "guard" ELSE "check")
  /\ in_handler' = TRUE
  /\ UNCHANGED <<recovery, skipping, patching, history, result, process>>

(* IN_HANDLER stays TRUE whichever way the guard leaves. *)
Guard(t) ==
  /\ Goto(t, "guard", "longjmp")
  /\ process' = IF recovery_active THEN process ELSE "exit139"
  /\ UNCHANGED <<recovery, in_handler, skipping, patching, history, result>>

CheckRecovery(t) ==
  /\ Goto(t, "check", IF ~recovery_active THEN "clear"
                      ELSE IF kind[t] = "abrt" THEN "jump" ELSE "mode")
  /\ UNCHANGED <<recovery, in_handler, skipping, patching, history, result, process>>

(* IN_HANDLER is cleared before the diagnostics are collected. *)
ClearHandler(t) ==
  /\ Goto(t, "clear", "diag")
  /\ in_handler' = FALSE
  /\ UNCHANGED <<recovery, skipping, patching, history, result, process>>

CheckMode(t) ==
  /\ Goto(t, "mode", IF skip_mode THEN "count" ELSE "jump")
  /\ UNCHANGED <<recovery, in_handler, skipping, patching, history, result, process>>

(* Mutant: the skipped crash is not counted. *)
CheckSkip_uncounted(t) ==
  /\ Goto(t, "count", IF skip_count < SkipLimit THEN "skip" ELSE "jump")
  /\ UNCHANGED <<recovery, in_handler, skipping, patching, history, result, process>>

(* Mutant: skip_n <= 500. *)
CheckSkip_off_by_one(t) ==
  /\ Goto(t, "count", IF skip_count <= SkipLimit THEN "skip" ELSE "jump")
  /\ skip_count' = skip_count + 1
  /\ UNCHANGED <<recovery, in_handler, skip_mode, site_count, patching, history, result, process>>

(* skip_n is the count before fetch_add. *)
CheckSkip(t) ==
  /\ Goto(t, "count", IF skip_count < SkipLimit THEN "skip" ELSE "jump")
  /\ skip_count' = skip_count + 1
  /\ UNCHANGED <<recovery, in_handler, skip_mode, site_count, patching, history, result, process>>

(* The context is edited and the handler returns to the interrupted code; *)
(* a skipped instruction of the binary is counted as a crash site.        *)
SkipCrash(t) ==
  /\ pc[t] = "skip" /\ kind[t] \in {"null_call", "binary"}
  /\ site_count' = IF kind[t] = "binary" THEN site_count + 1 ELSE site_count
  /\ in_handler' = FALSE
  /\ pc' = [pc EXCEPT ![t] = stack[t][Len(stack[t])]]
  /\ stack' = [stack EXCEPT ![t] = SubSeq(@, 1, Len(@) - 1)]
  /\ UNCHANGED <<kind, recovery, skip_mode, skip_count, patching, history, result, process>>

SkipRefused(t) ==
  /\ kind[t] = "library"
  /\ Goto(t, "skip", "jump")
  /\ UNCHANGED <<recovery, in_handler, skipping, patching, history, result, process>>

Jump(t) ==
  /\ Goto(t, "jump", "longjmp")
  /\ in_handler' = FALSE
  /\ UNCHANGED <<recovery, skipping, patching, history, result, process>>

Diagnose(t) ==
  /\ Goto(t, "diag", "diag")
  /\ process' = "exit139"
  /\ UNCHANGED <<recovery, in_handler, skipping, patching, history, result>>

(* An ELF library the guest code called, the Swift runtime first of all,   *)
(* calls abort(); a Mach-O image's own abort is shim_abort.                *)
CallAbort(t) ==
  /\ pc[t] \in GuestPC
  /\ crashed' = (crashed \/ pc[t] = "call")
  /\ crashers' = crashers \cup {t}
  /\ Goto(t, pc[t], "abort")
  /\ UNCHANGED <<recovery, in_handler, skipping, patching, result, process>>

abort(t) ==
  /\ Goto(t, "abort", "longjmp")
  /\ process' = IF recovery_active THEN process ELSE "exit134"
  /\ UNCHANGED <<recovery, in_handler, skipping, patching, history, result>>

shim_abort(t) ==
  /\ pc[t] \in GuestPC
  /\ Goto(t, pc[t], pc[t])
  /\ process' = "exit134"
  /\ UNCHANGED <<recovery, in_handler, skipping, patching, history, result>>

(* Does the frame of grafted_try_call that filled the buffer still exist?  *)
(* It does from __sigsetjmp until a thread returns from it.                *)
FrameLive == buf_filled /\ result = "none"

(* siglongjmp: thread t goes on in the frame the buffer describes. *)
siglongjmp(t) ==
  /\ pc[t] = "longjmp"
  /\ pc' = [pc EXCEPT ![t] = "recovered"]
  /\ stack' = [stack EXCEPT ![t] = <<>>]
  /\ process' = IF FrameLive THEN process ELSE "wild"
  /\ UNCHANGED <<kind, recovery, in_handler, skipping, patching, history, result>>

-----------------------------------------------------------------------------
CallStep(t) ==
  \/ ActivatePatches(t) \/ apply_lifecycle_patches(t) \/ SkipModeOn(t)
  \/ Arm(t) \/ SetJmp(t) \/ CallReturns(t) \/ Disarm(t) \/ Recovered(t)
  \/ grafted_nop_saved_crash_sites(t) \/ SkipModeOff(t)
  \/ restore_lifecycle_patches(t) \/ DeactivatePatches(t)

CrashStep(t) ==
  \/ Crash(t) \/ HandlerFault(t) \/ Swap(t) \/ Guard(t)
  \/ CheckRecovery(t) \/ ClearHandler(t) \/ CheckMode(t) \/ CheckSkip(t)
  \/ SkipCrash(t) \/ SkipRefused(t)
  \/ Jump(t) \/ Diagnose(t) \/ CallAbort(t) \/ abort(t)
  \/ shim_abort(t) \/ siglongjmp(t)

Step(t) == process = "running" /\ (CallStep(t) \/ CrashStep(t))

Next == \E t \in Thread : Step(t)

Spec == Init /\ [][Next]_vars

(* The scheduler runs every thread, and the code of the lifecycle call     *)
(* goes on: it returns, crashes or aborts.                                 *)
FairSpec == Spec /\ \A t \in Thread : WF_vars(Step(t))

-----------------------------------------------------------------------------
(* Types; the table of crash sites never holds more than the skips allowed *)
(* in one call, whatever mixture of crashes the call has                   *)
(* (sigsegv_handler's skip_n < 500).                                       *)
TypeOK ==
  /\ pc \in [Thread -> PC]
  /\ stack \in [Thread -> Seq(PC)]
  /\ kind \in [Thread -> Kind]
  /\ recovery_active \in BOOLEAN /\ buf_filled \in BOOLEAN /\ in_handler \in BOOLEAN
  /\ skip_mode \in BOOLEAN /\ skip_count \in Nat /\ site_count \in 0 .. SkipLimit
  /\ patched \in BOOLEAN /\ patches_active \in BOOLEAN
  /\ crashed \in BOOLEAN /\ crashers \subseteq Thread /\ result \in {"none", "true", "false"}
  /\ process \in {"running", "exit134", "exit139", "wild"}

(* However the lifecycle call ended, the rest of the program runs without  *)
(* the recovery point, without skipping crashes and on the original Swift  *)
(* runtime (application.rs: the statements after the retry loop).          *)
CleanAfter ==
  \A t \in Thread :
    pc[t] = "app" => ~recovery_active /\ ~skip_mode /\ ~patched /\ ~patches_active

(* A replaced Swift runtime function never runs with                       *)
(* LIFECYCLE_PATCHES_ACTIVE off, where it would call the real one and      *)
(* recurse without end (registry.rs, smart_checkMetadataState).            *)
PatchedImpliesActive == patched => patches_active

(* siglongjmp never goes to a frame that grafted_try_call has already      *)
(* left or not yet set up (executor.rs, RECOVERY_ACTIVE brackets the       *)
(* life of RECOVERY_BUF), as long as no thread but the main one crashes.   *)
NoWildJump == crashers \subseteq {Main} => process # "wild"

(* applicationDidFinishLaunching: ends even if the app crashes over and    *)
(* over: the skip limit turns an endless series of skipped crashes into a  *)
(* jump (sigsegv_handler's skip_n < 500).                                  *)
LifecycleEnds == (pc[Main] = "call") ~> (pc[Main] = "app" \/ process # "running")

(* The comment on grafted_try_call: "Returns true if the call succeeded,   *)
(* false if it crashed."                                                   *)
FalseMeansCrashed == result = "false" => crashed

(* The comment on IN_HANDLER: "Re-entrance guard: if the handler itself    *)
(* crashes, longjmp immediately."  No nested activation passes the guard.  *)
NestedStopsAtGuard == \A t \in Thread : pc[t] = "check" => Len(stack[t]) = 1
=============================================================================
