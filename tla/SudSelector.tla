----------------------------- MODULE SudSelector -----------------------------
(***************************************************************************)
(* Syscall User Dispatch in grafted: how a guest thread gets a selector    *)
(* byte, and how that byte is toggled by the SIGSYS handler, its           *)
(* trampoline, and the libc shims (grafted-loader/src/executor.rs and      *)
(* grafted-dyld/src/shims.rs).                                             *)
(*                                                                         *)
(* The kernel traps a syscall of a thread with SUD on exactly when the     *)
(* byte registered with prctl reads BLOCK.  A trapped Darwin syscall is    *)
(* translated by the handler; one that is not trapped runs as a Linux      *)
(* syscall under its Darwin number.                                        *)
(*                                                                         *)
(* One step is one access to state that another thread, or the kernel on   *)
(* behalf of this thread, can see.  A page is named after the thread that  *)
(* mapped it; a selector pointer is <<page, offset>>.  mmap and prctl      *)
(* succeed (execute gives up when they fail; setup_thread_sud does not     *)
(* look at prctl's result), and the low addresses whose syscalls SUD never *)
(* traps are left out: host code here relies on the byte alone.            *)
(***************************************************************************)
EXTENDS Integers, FiniteSets

CONSTANTS
  Main,          \* the thread that runs execute()
  Created,       \* guest threads, started through shim_pthread_create
  Host,          \* host threads that run guest callbacks (no SUD set up)
  PageSlots,     \* bytes of the selector page (4096)
  MaxDepth,      \* bound: nesting of guest callbacks inside bracketed shims
  Loose,         \* threads whose guest code also calls libc through gen_trampoline
                 \* or is called back from inside a shim
  Signalled,     \* threads that can get a SIGSYS that SUD did not raise
  Null

Thread == {Main} \cup Created \cup Host
Ptr    == Thread \X (0 .. PageSlots - 1)

ASSUME SudAssumption ==
  /\ Main \notin Created \cup Host /\ Created \cap Host = {}
  /\ IsFiniteSet(Thread)
  /\ PageSlots \in Nat \ {0} /\ MaxDepth \in Nat
  /\ Loose \subseteq Thread /\ Signalled \subseteq Thread
  /\ Null \notin Thread /\ Null \notin Ptr

VARIABLES
  page,      \* SELECTOR_PAGE: Null or the published page
  nextSlot,  \* SELECTOR_NEXT
  byte,      \* the selector bytes of every page
  tls,       \* THREAD_SELECTOR of each thread
  tramp,     \* the byte that the code at THREAD_TRAMPOLINE sets
  sud,       \* the byte each thread registered with prctl, or Null
  pc,        \* where each thread is
  local,     \* the page pointer selector_page() returned
  cont,      \* what follows the selector allocation
  resume,    \* the context a SIGSYS interrupted
  cause,     \* what raised that SIGSYS: "dispatch" or "foreign"
  depth,     \* bracketed shims below the guest code that runs
  process    \* "running", "exited", "killed" (by SIGSYS) or "panicked"

vars == <<page, nextSlot, byte, tls, tramp, sud, pc, local, cont, resume, cause, depth, process>>

GuestPC   == {"guest"}
StartPC   == {"load", "cas", "slot", "setup", "prctl", "enter", "block"}
HostPC    == {"allow", "shim", "shim_done", "import", "libc"}
HandlerPC == {"handler", "si_code", "process", "sigreturn", "trampoline"}
PC == {"unborn", "exited"} \cup GuestPC \cup StartPC \cup HostPC \cup HandlerPC

Goto(t, l) == pc' = [pc EXCEPT ![t] = l]

(* The kernel's dispatch rule (external). *)
Trapped(t) == sud[t] # Null /\ byte[sud[t]] = "BLOCK"

(* A write through the thread's selector pointer. *)
SetSelector(ptr, value) == byte' = [byte EXCEPT ![ptr] = value]

(* SIGSYS raised by the kernel for a trapped syscall, or by someone else   *)
(* (kill, raise, seccomp) once the handler is installed.                   *)
RaiseSigsys(t, why, back) ==
  /\ resume' = [resume EXCEPT ![t] = back]
  /\ cause' = [cause EXCEPT ![t] = why]
  /\ Goto(t, "handler")

Init ==
  /\ page = Null
  /\ nextSlot = 0
  /\ byte = [p \in Ptr |-> "ALLOW"]
  /\ tls = [t \in Thread |-> Null]
  /\ tramp = [t \in Thread |-> Null]
  /\ sud = [t \in Thread |-> Null]
  /\ pc = [t \in Thread |-> IF t \in Created THEN "unborn" ELSE "guest"]
  /\ local = [t \in Thread |-> Null]
  /\ cont = [t \in Thread |-> "setup"]
  /\ resume = [t \in Thread |-> "guest"]
  /\ cause = [t \in Thread |-> "dispatch"]
  /\ depth = [t \in Thread |-> 0]
  /\ process = "running"

-----------------------------------------------------------------------------
(* selector_page() and alloc_thread_selector(). *)

(* Mutant: a new selector on every use. *)
selector_ptr_always(t, next) ==
  /\ cont' = [cont EXCEPT ![t] = next]
  /\ Goto(t, "load")

(* Enter the allocation unless the thread has a selector already. *)
selector_ptr(t, next) ==
  /\ cont' = [cont EXCEPT ![t] = next]
  /\ Goto(t, IF tls[t] = Null THEN "load" ELSE next)

LoadPage(t) ==
  /\ pc[t] = "load"
  /\ local' = [local EXCEPT ![t] = page]
  /\ Goto(t, IF page = Null THEN "cas" ELSE "slot")
  /\ UNCHANGED <<page, nextSlot, byte, tls, tramp, sud, cont, resume, cause, depth, process>>

(* Mutant: the loser of the race goes on with the page it mapped. *)
PublishPage_keeping(t) ==
  /\ pc[t] = "cas"
  /\ page' = IF page = Null THEN t ELSE page
  /\ local' = [local EXCEPT ![t] = t]
  /\ Goto(t, "slot")
  /\ UNCHANGED <<nextSlot, byte, tls, tramp, sud, cont, resume, cause, depth, process>>

(* mmap a page and try to publish it; the loser takes the winner's page. *)
PublishPage(t) ==
  /\ pc[t] = "cas"
  /\ page' = IF page = Null THEN t ELSE page
  /\ local' = [local EXCEPT ![t] = page']
  /\ Goto(t, "slot")
  /\ UNCHANGED <<nextSlot, byte, tls, tramp, sud, cont, resume, cause, depth, process>>

(* Mutant: the assertion lets one offset too many through. *)
TakeSlot_off_by_one(t) ==
  /\ pc[t] = "slot"
  /\ nextSlot' = nextSlot + 1
  /\ nextSlot <= PageSlots
  /\ tls' = [tls EXCEPT ![t] = <<local[t], nextSlot>>]
  /\ Goto(t, cont[t])
  /\ UNCHANGED <<page, byte, tramp, sud, local, cont, resume, cause, depth, process>>

(* fetch_add, the assertion, and the stores only this thread can see. *)
TakeSlot(t) ==
  /\ pc[t] = "slot"
  /\ nextSlot' = nextSlot + 1
  /\ IF nextSlot < PageSlots
     THEN LET ptr == <<local[t], nextSlot>>
          IN  /\ SetSelector(ptr, "ALLOW")
              /\ tls' = [tls EXCEPT ![t] = ptr]
              /\ Goto(t, cont[t])
              /\ UNCHANGED process
     ELSE /\ process' = "panicked"
          /\ UNCHANGED <<byte, tls, pc>>
  /\ UNCHANGED <<page, tramp, sud, local, cont, resume, cause, depth>>

-----------------------------------------------------------------------------
(* Starting guest code under SUD: execute() on the main thread, after the  *)
(* initialisers ran without SUD; thread_start_wrapper on the others.       *)

execute(t) ==
  /\ t = Main /\ pc[t] = "guest" /\ sud[t] = Null /\ depth[t] = 0
  /\ selector_ptr(t, "setup")
  /\ UNCHANGED <<page, nextSlot, byte, tls, tramp, sud, local, resume, cause, depth, process>>

AllocTrampoline(t) ==
  /\ pc[t] = "setup"
  /\ tramp' = [tramp EXCEPT ![t] = tls[t]]
  /\ Goto(t, "prctl")
  /\ UNCHANGED <<page, nextSlot, byte, tls, sud, local, cont, resume, cause, depth, process>>

EnableSud(t) ==
  /\ pc[t] = "prctl"
  /\ sud' = [sud EXCEPT ![t] = tls[t]]
  /\ Goto(t, IF t = Main THEN "enter" ELSE "block")
  /\ UNCHANGED <<page, nextSlot, byte, tls, tramp, local, cont, resume, cause, depth, process>>

(* The host syscalls of execute() after prctl (logging, mmap, arch_prctl). *)
(* A shim that an initialiser called has left the selector at BLOCK, and   *)
(* then they are trapped.                                                  *)
EnterSyscall(t) ==
  /\ pc[t] = "enter"
  /\ \E next \in {"enter", "block"} :
       IF Trapped(t)
       THEN RaiseSigsys(t, "dispatch", next)
       ELSE /\ Goto(t, next)
            /\ UNCHANGED <<resume, cause>>
  /\ UNCHANGED <<page, nextSlot, byte, tls, tramp, sud, local, cont, depth, process>>

BlockAndJump(t) ==
  /\ pc[t] = "block"
  /\ SetSelector(tls[t], "BLOCK")
  /\ Goto(t, "guest")
  /\ UNCHANGED <<page, nextSlot, tls, tramp, sud, local, cont, resume, cause, depth, process>>

-----------------------------------------------------------------------------
(* Calls from guest code into the host. *)

(* A shim bracketed by selector_allow() ... selector_block(). *)
CallShim(t) ==
  /\ pc[t] = "guest"
  /\ selector_ptr(t, "allow")
  /\ UNCHANGED <<page, nextSlot, byte, tls, tramp, sud, local, resume, cause, depth, process>>

ShimAllow(t) ==
  /\ pc[t] = "allow"
  /\ SetSelector(tls[t], "ALLOW")
  /\ Goto(t, "shim")
  /\ UNCHANGED <<page, nextSlot, tls, tramp, sud, local, cont, resume, cause, depth, process>>

(* The host syscall of the bracket.  Trapped, it is a raw Linux number and *)
(* the handler performs it.                                                *)
ShimSyscall(t) ==
  /\ pc[t] = "shim"
  /\ IF Trapped(t)
     THEN RaiseSigsys(t, "dispatch", "shim_done")
     ELSE /\ Goto(t, "shim_done")
          /\ UNCHANGED <<resume, cause>>
  /\ UNCHANGED <<page, nextSlot, byte, tls, tramp, sud, local, cont, depth, process>>

(* pthread_create inside its bracket: the new thread starts in             *)
(* thread_start_wrapper, which allocates a selector of its own.            *)
ShimCreateThread(t, u) ==
  /\ pc[t] = "shim" /\ ~Trapped(t)
  /\ u \in Created /\ pc[u] = "unborn"
  /\ pc' = [pc EXCEPT ![t] = "shim_done", ![u] = "load"]
  /\ cont' = [cont EXCEPT ![u] = "setup"]
  /\ UNCHANGED <<page, nextSlot, byte, tls, tramp, sud, local, resume, cause, depth, process>>

(* pthread_once and the like call back into guest code inside the bracket. *)
Callback(t) ==
  /\ t \in Loose /\ pc[t] = "shim" /\ depth[t] < MaxDepth
  /\ depth' = [depth EXCEPT ![t] = depth[t] + 1]
  /\ Goto(t, "guest")
  /\ UNCHANGED <<page, nextSlot, byte, tls, tramp, sud, local, cont, resume, cause, process>>

CallbackReturns(t) ==
  /\ pc[t] = "guest" /\ depth[t] > 0
  /\ depth' = [depth EXCEPT ![t] = depth[t] - 1]
  /\ Goto(t, "shim")
  /\ UNCHANGED <<page, nextSlot, byte, tls, tramp, sud, local, cont, resume, cause, process>>

ShimBlock(t) ==
  /\ pc[t] = "shim_done"
  /\ SetSelector(tls[t], "BLOCK")
  /\ Goto(t, "guest")
  /\ UNCHANGED <<page, nextSlot, tls, tramp, sud, local, cont, resume, cause, depth, process>>

(* A libc import behind gen_trampoline: ALLOW, then a tail jump, so        *)
(* nothing restores BLOCK when libc returns to the guest.                  *)
CallImport(t) ==
  /\ t \in Loose /\ pc[t] = "guest"
  /\ selector_ptr(t, "import")
  /\ UNCHANGED <<page, nextSlot, byte, tls, tramp, sud, local, resume, cause, depth, process>>

grafted_selector_allow(t) ==
  /\ pc[t] = "import"
  /\ SetSelector(tls[t], "ALLOW")
  /\ Goto(t, "libc")
  /\ UNCHANGED <<page, nextSlot, tls, tramp, sud, local, cont, resume, cause, depth, process>>

ImportReturns(t) ==
  /\ pc[t] = "libc"
  /\ Goto(t, "guest")
  /\ UNCHANGED <<page, nextSlot, byte, tls, tramp, sud, local, cont, resume, cause, depth, process>>

-----------------------------------------------------------------------------
(* A Darwin syscall of the guest that the kernel traps.  One that is not   *)
(* trapped changes nothing here: it runs in the Linux kernel.              *)
GuestSyscall(t) ==
  /\ pc[t] = "guest" /\ Trapped(t)
  /\ RaiseSigsys(t, "dispatch", "guest")
  /\ UNCHANGED <<page, nextSlot, byte, tls, tramp, sud, local, cont, depth, process>>

ForeignSignal(t) ==
  /\ t \in Signalled /\ sud[Main] # Null
  /\ pc[t] \in GuestPC \cup StartPC \cup HostPC
  /\ RaiseSigsys(t, "foreign", pc[t])
  /\ UNCHANGED <<page, nextSlot, byte, tls, tramp, sud, local, cont, depth, process>>

(* Mutant: the handler forgets to allow its own syscalls. *)
HandlerAllow_missing(t) ==
  /\ pc[t] = "handler"
  /\ Goto(t, IF tls[t] = Null THEN "sigreturn" ELSE "si_code")
  /\ UNCHANGED <<page, nextSlot, byte, tls, tramp, sud, local, cont, resume, cause, depth, process>>

(* sigsys_handler: without a selector return at once, else ALLOW first. *)
HandlerAllow(t) ==
  /\ pc[t] = "handler"
  /\ IF tls[t] = Null
     THEN /\ Goto(t, "sigreturn")
          /\ UNCHANGED byte
     ELSE /\ SetSelector(tls[t], "ALLOW")
          /\ Goto(t, "si_code")
  /\ UNCHANGED <<page, nextSlot, tls, tramp, sud, local, cont, resume, cause, depth, process>>

(* A SIGSYS that is not SYS_USER_DISPATCH: set BLOCK and return. *)
CheckSiCode(t) ==
  /\ pc[t] = "si_code"
  /\ IF cause[t] = "foreign"
     THEN /\ SetSelector(tls[t], "BLOCK")
          /\ Goto(t, "sigreturn")
     ELSE /\ Goto(t, "process")
          /\ UNCHANGED byte
  /\ UNCHANGED <<page, nextSlot, tls, tramp, sud, local, cont, resume, cause, depth, process>>

(* Mutant: the handler restores BLOCK itself. *)
ProcessSyscall_blocking(t) ==
  /\ pc[t] = "process"
  /\ SetSelector(tls[t], "BLOCK")
  /\ Goto(t, "sigreturn")
  /\ UNCHANGED <<page, nextSlot, tls, tramp, sud, local, cont, resume, cause, depth, process>>

(* process_syscall runs host syscalls.  A trap here hits a masked SIGSYS   *)
(* and the kernel kills the process.  Afterwards the saved context is      *)
(* redirected to the thread's trampoline.                                  *)
ProcessSyscall(t) ==
  /\ pc[t] = "process"
  /\ IF Trapped(t)
     THEN /\ process' = "killed"
          /\ UNCHANGED pc
     ELSE \/ /\ Goto(t, "sigreturn")           \* any other syscall
             /\ UNCHANGED process
          \/ /\ resume[t] = "guest"            \* exit: always exit_group
             /\ process' = "exited"
             /\ UNCHANGED pc
  /\ UNCHANGED <<page, nextSlot, byte, tls, tramp, sud, local, cont, resume, cause, depth>>

(* Mutant: the context is not redirected to the trampoline. *)
Sigreturn_direct(t) ==
  /\ pc[t] = "sigreturn" /\ ~Trapped(t)
  /\ Goto(t, resume[t])
  /\ UNCHANGED <<page, nextSlot, byte, tls, tramp, sud, local, cont, resume, cause, depth, process>>

(* rt_sigreturn is a syscall too, and is made with SIGSYS masked.  On the  *)
(* dispatch path the context it restores is the trampoline.                *)
Sigreturn(t) ==
  /\ pc[t] = "sigreturn"
  /\ IF Trapped(t)
     THEN /\ process' = "killed"
          /\ UNCHANGED pc
     ELSE /\ Goto(t, IF cause[t] = "dispatch" THEN "trampoline" ELSE resume[t])
          /\ UNCHANGED process
  /\ UNCHANGED <<page, nextSlot, byte, tls, tramp, sud, local, cont, resume, cause, depth>>

(* Mutant: the trampoline returns without the store. *)
Trampoline_bare(t) ==
  /\ pc[t] = "trampoline"
  /\ Goto(t, resume[t])
  /\ UNCHANGED <<page, nextSlot, byte, tls, tramp, sud, local, cont, resume, cause, depth, process>>

(* movabs r11, sel; mov byte ptr [r11], BLOCK; ret *)
Trampoline(t) ==
  /\ pc[t] = "trampoline"
  /\ SetSelector(tramp[t], "BLOCK")
  /\ Goto(t, resume[t])
  /\ UNCHANGED <<page, nextSlot, tls, tramp, sud, local, cont, resume, cause, depth, process>>

(* A created thread returns from its start routine.  Its slot is not       *)
(* given back.                                                             *)
ThreadExit(t) ==
  /\ t \in Created /\ pc[t] = "guest" /\ depth[t] = 0
  /\ Goto(t, "exited")
  /\ UNCHANGED <<page, nextSlot, byte, tls, tramp, sud, local, cont, resume, cause, depth, process>>

StartStep(t) ==
  \/ LoadPage(t) \/ PublishPage(t) \/ TakeSlot(t)
  \/ AllocTrampoline(t) \/ EnableSud(t) \/ EnterSyscall(t) \/ BlockAndJump(t)

HandlerStep(t) ==
  \/ HandlerAllow(t) \/ CheckSiCode(t) \/ ProcessSyscall(t)
  \/ Sigreturn(t) \/ Trampoline(t)

HostStep(t) ==
  \/ ShimAllow(t) \/ ShimSyscall(t) \/ Callback(t) \/ ShimBlock(t)
  \/ (\E u \in Created : ShimCreateThread(t, u))
  \/ grafted_selector_allow(t) \/ ImportReturns(t)

GuestStep(t) ==
  \/ execute(t) \/ CallShim(t) \/ CallImport(t) \/ CallbackReturns(t)
  \/ GuestSyscall(t) \/ ThreadExit(t) \/ ForeignSignal(t)

Step(t) == StartStep(t) \/ HandlerStep(t) \/ HostStep(t) \/ GuestStep(t)

Next ==
  \/ process = "running" /\ \E t \in Thread : Step(t)
  \/ process # "running" /\ UNCHANGED vars   \* the process is gone

Spec == Init /\ [][Next]_vars

(* The handler and its trampoline run to completion: nothing in them waits *)
(* and the kernel schedules every runnable thread.                         *)
FairSpec == Spec /\ \A t \in Thread : WF_vars(process = "running" /\ HandlerStep(t))

-----------------------------------------------------------------------------
(* Properties. *)

(* Types: pointers, bytes and locations. *)
TypeOK ==
  /\ page \in Thread \cup {Null}
  /\ nextSlot \in Nat
  /\ byte \in [Ptr -> {"ALLOW", "BLOCK"}]
  /\ tls \in [Thread -> Ptr \cup {Null}]
  /\ tramp \in [Thread -> Ptr \cup {Null}]
  /\ sud \in [Thread -> Ptr \cup {Null}]
  /\ pc \in [Thread -> PC]
  /\ local \in [Thread -> Thread \cup {Null}]
  /\ cont \in [Thread -> {"setup", "allow", "import"}]
  /\ resume \in [Thread -> GuestPC \cup StartPC \cup HostPC]
  /\ cause \in [Thread -> {"dispatch", "foreign"}]
  /\ depth \in [Thread -> 0 .. MaxDepth]
  /\ process \in {"running", "exited", "killed", "panicked"}

(* "each thread gets its own byte from a shared page": however the lazy    *)
(* mmap, the compare-exchange and the slot counter interleave, no two      *)
(* threads toggle the same byte and all bytes lie in the published page.   *)
OwnSelector ==
  /\ \A t, u \in Thread : t # u /\ tls[t] # Null => tls[t] # tls[u]
  /\ \A t \in Thread : tls[t] # Null => tls[t][1] = page

(* Each thread takes one slot in its life, so the page holds PageSlots     *)
(* threads before alloc_thread_selector panics.                            *)
SlotsNotWasted ==
  nextSlot <= PageSlots => nextSlot = Cardinality({t \in Thread : tls[t] # Null})

(* "FIRST: allow our own syscalls": no syscall made inside the SIGSYS      *)
(* handler is trapped again, whatever the other threads do to their        *)
(* selectors meanwhile.  A trap there would kill the process.              *)
HandlerNeverTraps == \A t \in Thread : pc[t] = "process" => ~Trapped(t)

(* "Leave selector as ALLOW - sigreturn needs it to work": on a thread     *)
(* that gets no SIGSYS from elsewhere the handler reaches rt_sigreturn     *)
(* with a selector that lets it through, whatever the other threads get.   *)
SigreturnAllowed == \A t \in Thread \ Signalled : pc[t] = "sigreturn" => ~Trapped(t)

(* The same comment taken at its word, for every SIGSYS of every thread.   *)
SigreturnAlways == \A t \in Thread : pc[t] = "sigreturn" => ~Trapped(t)

(* A thread that calls bracketed shims only, and gets no SIGSYS from       *)
(* elsewhere, is protected whatever the other threads do: each Darwin      *)
(* syscall it makes with SUD on is trapped.  It never runs guest code with *)
(* its selector left at ALLOW, after its start, a shim, or a handled       *)
(* syscall.                                                                *)
GuestTrapped ==
  \A t \in Thread \ (Loose \cup Signalled) : pc[t] = "guest" /\ sud[t] # Null => Trapped(t)

(* A trapped syscall is answered: the thread gets back to the code that    *)
(* made it, with its selector at BLOCK, unless the process ends.           *)
TrapAnswered ==
  \A t \in Thread \ Signalled :
    pc[t] = "handler" ~> \/ pc[t] \in {"guest", "shim_done", "enter", "block"} /\ Trapped(t)
                         \/ process # "running"
=============================================================================
