-------------------------- MODULE SudSelector_proofs --------------------------
(***************************************************************************)
(* Proofs about SudSelector for any number of threads and slots: no two    *)
(* threads share a selector byte, no slot is wasted, and the SIGSYS        *)
(* handler is never trapped.                                               *)
(***************************************************************************)
EXTENDS SudSelector, FiniteSetTheorems, TLAPS

(* Where a thread is, looking through the SIGSYS handler at what it        *)
(* interrupted.                                                            *)
Eff(t) == IF pc[t] \in HandlerPC THEN resume[t] ELSE pc[t]

(* The strengthening.  A thread about to take a slot holds the published   *)
(* page and has no selector yet; slots below nextSlot are taken, each by   *)
(* one thread; what a thread registered with prctl, or what its trampoline *)
(* writes, is its own selector; and the handler has set it to ALLOW.       *)
PageReady == \A t \in Thread : Eff(t) = "slot" => local[t] = page /\ page # Null

NoSelectorYet ==
  \A t \in Thread : Eff(t) \in {"unborn", "load", "cas", "slot"} => tls[t] = Null

SlotsTaken ==
  \A t \in Thread : tls[t] # Null => tls[t][1] = page /\ page # Null /\ tls[t][2] < nextSlot

Distinct == \A t, u \in Thread : t # u /\ tls[t] # Null => tls[t] # tls[u]

Registered ==
  \A t \in Thread : /\ sud[t] # Null => sud[t] = tls[t]
                    /\ tramp[t] # Null => tramp[t] = tls[t]

HandlerAllowed ==
  \A t \in Thread : pc[t] \in {"si_code", "process"} => tls[t] # Null /\ byte[tls[t]] = "ALLOW"

IInv ==
  /\ TypeOK /\ PageReady /\ NoSelectorYet
  /\ SlotsTaken /\ Distinct /\ Registered /\ HandlerAllowed

-----------------------------------------------------------------------------
(* Every step keeps the types; a slot is taken in a mapped page because    *)
(* of PageReady.                                                           *)
LEMMA TypeStep ==
  ASSUME TypeOK, PageReady, NEW t \in Thread, Step(t)
  PROVE  TypeOK'
<1> USE SudAssumption
    DEF TypeOK, PC, GuestPC, StartPC, HostPC, HandlerPC, Goto, SetSelector, RaiseSigsys,
        selector_ptr
<1>1. CASE LoadPage(t)
      BY <1>1 DEF LoadPage
<1>2. CASE PublishPage(t)
      BY <1>2 DEF PublishPage
<1>3. CASE TakeSlot(t)
  <2>1. local[t] \in Thread
        BY <1>3 DEF TakeSlot, PageReady, Eff
  <2>2. nextSlot < PageSlots => <<local[t], nextSlot>> \in Ptr
        BY <2>1 DEF Ptr
  <2>3. cont[t] \in PC
        OBVIOUS
  <2> QED BY <1>3, <2>1, <2>2, <2>3 DEF TakeSlot
<1>4. CASE AllocTrampoline(t)
      BY <1>4 DEF AllocTrampoline
<1>5. CASE EnableSud(t)
      BY <1>5 DEF EnableSud
<1>6. CASE EnterSyscall(t)
      BY <1>6 DEF EnterSyscall
<1>7. CASE BlockAndJump(t)
      BY <1>7 DEF BlockAndJump
<1>8. CASE HandlerAllow(t)
      BY <1>8 DEF HandlerAllow
<1>9. CASE CheckSiCode(t)
      BY <1>9 DEF CheckSiCode
<1>10. CASE ProcessSyscall(t)
      BY <1>10 DEF ProcessSyscall
<1>11. CASE Sigreturn(t)
      BY <1>11 DEF Sigreturn
<1>12. CASE Trampoline(t)
      BY <1>12 DEF Trampoline
<1>13. CASE ShimAllow(t)
      BY <1>13 DEF ShimAllow
<1>14. CASE ShimSyscall(t)
      BY <1>14 DEF ShimSyscall
<1>15. CASE Callback(t)
      BY <1>15 DEF Callback
<1>16. CASE ShimBlock(t)
      BY <1>16 DEF ShimBlock
<1>17. ASSUME NEW u \in Created, ShimCreateThread(t, u) PROVE TypeOK'
      BY <1>17 DEF ShimCreateThread
<1>18. CASE grafted_selector_allow(t)
      BY <1>18 DEF grafted_selector_allow
<1>19. CASE ImportReturns(t)
      BY <1>19 DEF ImportReturns
<1>20. CASE execute(t)
      BY <1>20 DEF execute
<1>21. CASE CallShim(t)
      BY <1>21 DEF CallShim
<1>22. CASE CallImport(t)
      BY <1>22 DEF CallImport
<1>23. CASE CallbackReturns(t)
      BY <1>23 DEF CallbackReturns
<1>24. CASE GuestSyscall(t)
      BY <1>24 DEF GuestSyscall
<1>25. CASE ThreadExit(t)
      BY <1>25 DEF ThreadExit
<1>26. CASE ForeignSignal(t)
      BY <1>26 DEF ForeignSignal
<1> QED BY <1>1, <1>2, <1>3, <1>4, <1>5, <1>6, <1>7, <1>8, <1>9, <1>10, <1>11, <1>12, <1>13,
           <1>14, <1>15, <1>16, <1>17, <1>18, <1>19, <1>20, <1>21, <1>22, <1>23, <1>24, <1>25,
           <1>26 DEF Step, StartStep, HandlerStep, HostStep, GuestStep

(* Only four steps change who holds which selector. *)
LEMMA SelectorSteps ==
  ASSUME NEW t \in Thread, Step(t)
  PROVE  \/ PublishPage(t) \/ TakeSlot(t) \/ AllocTrampoline(t) \/ EnableSud(t)
         \/ UNCHANGED <<page, nextSlot, tls, tramp, sud>>
BY DEF Step, StartStep, HandlerStep, HostStep, GuestStep, LoadPage, EnterSyscall, BlockAndJump,
       HandlerAllow, CheckSiCode, ProcessSyscall, Sigreturn, Trampoline, ShimAllow, ShimSyscall,
       Callback, ShimBlock, ShimCreateThread, grafted_selector_allow, ImportReturns, execute,
       CallShim, CallImport, CallbackReturns, GuestSyscall, ThreadExit, ForeignSignal

(* The allocation hands every thread a slot of its own in the one page     *)
(* that was published.                                                     *)
LEMMA AllocationStep ==
  ASSUME IInv, NEW t \in Thread, Step(t)
  PROVE  SlotsTaken' /\ Distinct' /\ Registered'
<1> USE SudAssumption DEF IInv, TypeOK
<1>1. CASE PublishPage(t)
      BY <1>1 DEF PublishPage, SlotsTaken, Distinct, Registered
<1>2. CASE TakeSlot(t)
  <2>1. local[t] = page /\ page # Null /\ tls[t] = Null
        BY <1>2 DEF TakeSlot, PageReady, NoSelectorYet, Eff, HandlerPC
  <2>2. sud[t] = Null /\ tramp[t] = Null
        BY <2>1 DEF Registered
  <2>3. CASE nextSlot < PageSlots
    <3>1. tls' = [tls EXCEPT ![t] = <<page, nextSlot>>]
          BY <1>2, <2>1, <2>3 DEF TakeSlot
    <3>2. nextSlot' = nextSlot + 1 /\ UNCHANGED <<page, sud, tramp>>
          BY <1>2 DEF TakeSlot
    <3>3. \A u \in Thread : u # t => tls'[u] = tls[u]
          BY <3>1
    <3>4. tls'[t] = <<page, nextSlot>>
          BY <3>1
    <3>5. \A u \in Thread : tls[u] # Null => tls[u][2] \in Nat
          BY DEF Ptr
    <3>6. SlotsTaken'
          BY <2>1, <3>2, <3>3, <3>4, <3>5 DEF SlotsTaken
    <3>7. \A u \in Thread : tls[u] # <<page, nextSlot>>
      <4>1. <<page, nextSlot>> \in Ptr
            BY <2>1, <2>3 DEF Ptr
      <4>2. ASSUME NEW u \in Thread, tls[u] = <<page, nextSlot>> PROVE FALSE
        <5>1. tls[u] # Null
              BY <4>1, <4>2
        <5>2. tls[u][2] < nextSlot
              BY <5>1 DEF SlotsTaken
        <5> QED BY <4>2, <5>2
      <4> QED BY <4>2
    <3>8. Distinct'
          BY <3>3, <3>4, <3>7 DEF Distinct
    <3>9. Registered'
          BY <2>2, <3>2, <3>3 DEF Registered
    <3> QED BY <3>6, <3>8, <3>9
  <2>4. CASE ~(nextSlot < PageSlots)
    <3>1. nextSlot' = nextSlot + 1 /\ UNCHANGED <<page, tls, sud, tramp>>
          BY <1>2, <2>4 DEF TakeSlot
    <3>2. \A u \in Thread : tls[u] # Null => tls[u][2] \in Nat
          BY DEF Ptr
    <3> QED BY <3>1, <3>2 DEF SlotsTaken, Distinct, Registered
  <2> QED BY <2>3, <2>4
<1>3. CASE AllocTrampoline(t)
      BY <1>3 DEF AllocTrampoline, SlotsTaken, Distinct, Registered
<1>4. CASE EnableSud(t)
      BY <1>4 DEF EnableSud, SlotsTaken, Distinct, Registered
<1>5. CASE UNCHANGED <<page, nextSlot, tls, tramp, sud>>
      BY <1>5 DEF SlotsTaken, Distinct, Registered
<1> QED BY <1>1, <1>2, <1>3, <1>4, <1>5, SelectorSteps

(* No step leads a thread to the allocation that has a selector, or to its *)
(* slot without the page.                                                  *)
LEMMA LocationStep ==
  ASSUME IInv, NEW t \in Thread, Step(t)
  PROVE  PageReady' /\ NoSelectorYet'
<1> USE SudAssumption
    DEF IInv, TypeOK, PageReady, NoSelectorYet, Eff, PC, GuestPC, StartPC, HostPC, HandlerPC, Goto,
        SetSelector, RaiseSigsys, selector_ptr, Thread
<1>1. CASE LoadPage(t)
      BY <1>1 DEF LoadPage
<1>2. CASE PublishPage(t)
      BY <1>2 DEF PublishPage
<1>3. CASE TakeSlot(t)
      BY <1>3 DEF TakeSlot
<1>4. CASE AllocTrampoline(t)
      BY <1>4 DEF AllocTrampoline
<1>5. CASE EnableSud(t)
      BY <1>5 DEF EnableSud
<1>6. CASE EnterSyscall(t)
      BY <1>6 DEF EnterSyscall
<1>7. CASE BlockAndJump(t)
      BY <1>7 DEF BlockAndJump
<1>8. CASE HandlerAllow(t)
      BY <1>8 DEF HandlerAllow
<1>9. CASE CheckSiCode(t)
      BY <1>9 DEF CheckSiCode
<1>10. CASE ProcessSyscall(t)
      BY <1>10 DEF ProcessSyscall
<1>11. CASE Sigreturn(t)
      BY <1>11 DEF Sigreturn
<1>12. CASE Trampoline(t)
      BY <1>12 DEF Trampoline
<1>13. CASE ShimAllow(t)
      BY <1>13 DEF ShimAllow
<1>14. CASE ShimSyscall(t)
      BY <1>14 DEF ShimSyscall
<1>15. CASE Callback(t)
      BY <1>15 DEF Callback
<1>16. CASE ShimBlock(t)
      BY <1>16 DEF ShimBlock
<1>17. CASE grafted_selector_allow(t)
      BY <1>17 DEF grafted_selector_allow
<1>18. CASE ImportReturns(t)
      BY <1>18 DEF ImportReturns
<1>19. CASE execute(t)
      BY <1>19 DEF execute
<1>20. CASE CallShim(t)
      BY <1>20 DEF CallShim
<1>21. CASE CallImport(t)
      BY <1>21 DEF CallImport
<1>22. CASE CallbackReturns(t)
      BY <1>22 DEF CallbackReturns
<1>23. CASE GuestSyscall(t)
      BY <1>23 DEF GuestSyscall
<1>24. CASE ThreadExit(t)
      BY <1>24 DEF ThreadExit
<1>25. CASE ForeignSignal(t)
      BY <1>25 DEF ForeignSignal
<1>26. ASSUME NEW u \in Created, ShimCreateThread(t, u) PROVE PageReady' /\ NoSelectorYet'
      BY <1>26 DEF ShimCreateThread
<1> QED BY <1>1, <1>2, <1>3, <1>4, <1>5, <1>6, <1>7, <1>8, <1>9, <1>10, <1>11, <1>12, <1>13,
           <1>14, <1>15, <1>16, <1>17, <1>18, <1>19, <1>20, <1>21, <1>22, <1>23, <1>24, <1>25, <1>26
        DEF Step, StartStep, HandlerStep, HostStep, GuestStep

(* Once the handler has set its own selector to ALLOW nobody else changes  *)
(* it: all writes go through the writer's own selector pointer.            *)
LEMMA HandlerAllowedStep ==
  ASSUME IInv, NEW t \in Thread, Step(t)
  PROVE  HandlerAllowed'
<1> USE SudAssumption
    DEF IInv, TypeOK, HandlerAllowed, Distinct, Registered, HandlerPC, Goto, SetSelector,
        RaiseSigsys, selector_ptr, Thread
<1>1. CASE LoadPage(t)
      BY <1>1 DEF LoadPage
<1>2. CASE PublishPage(t)
      BY <1>2 DEF PublishPage
<1>3. CASE TakeSlot(t)
      BY <1>3 DEF TakeSlot
<1>4. CASE AllocTrampoline(t)
      BY <1>4 DEF AllocTrampoline
<1>5. CASE EnableSud(t)
      BY <1>5 DEF EnableSud
<1>6. CASE EnterSyscall(t)
      BY <1>6 DEF EnterSyscall
<1>7. CASE BlockAndJump(t)
      BY <1>7 DEF BlockAndJump
<1>8. CASE HandlerAllow(t)
      BY <1>8 DEF HandlerAllow
<1>9. CASE CheckSiCode(t)
      BY <1>9 DEF CheckSiCode
<1>10. CASE ProcessSyscall(t)
      BY <1>10 DEF ProcessSyscall
<1>11. CASE Sigreturn(t)
      BY <1>11 DEF Sigreturn, GuestPC, StartPC, HostPC
<1>12. CASE Trampoline(t)
      BY <1>12 DEF Trampoline, GuestPC, StartPC, HostPC
<1>13. CASE ShimAllow(t)
      BY <1>13 DEF ShimAllow
<1>14. CASE ShimSyscall(t)
      BY <1>14 DEF ShimSyscall
<1>15. CASE Callback(t)
      BY <1>15 DEF Callback
<1>16. CASE ShimBlock(t)
      BY <1>16 DEF ShimBlock
<1>17. CASE grafted_selector_allow(t)
      BY <1>17 DEF grafted_selector_allow
<1>18. CASE ImportReturns(t)
      BY <1>18 DEF ImportReturns
<1>19. CASE execute(t)
      BY <1>19 DEF execute
<1>20. CASE CallShim(t)
      BY <1>20 DEF CallShim
<1>21. CASE CallImport(t)
      BY <1>21 DEF CallImport
<1>22. CASE CallbackReturns(t)
      BY <1>22 DEF CallbackReturns
<1>23. CASE GuestSyscall(t)
      BY <1>23 DEF GuestSyscall
<1>24. CASE ThreadExit(t)
      BY <1>24 DEF ThreadExit
<1>25. CASE ForeignSignal(t)
      BY <1>25 DEF ForeignSignal
<1>26. ASSUME NEW u \in Created, ShimCreateThread(t, u) PROVE HandlerAllowed'
      BY <1>26 DEF ShimCreateThread
<1> QED BY <1>1, <1>2, <1>3, <1>4, <1>5, <1>6, <1>7, <1>8, <1>9, <1>10, <1>11, <1>12, <1>13,
           <1>14, <1>15, <1>16, <1>17, <1>18, <1>19, <1>20, <1>21, <1>22, <1>23, <1>24, <1>25, <1>26
        DEF Step, StartStep, HandlerStep, HostStep, GuestStep

-----------------------------------------------------------------------------
(* The strengthened invariant is inductive. *)
LEMMA Inductive == Spec => []IInv
<1>1. Init => IInv
  <2> SUFFICES ASSUME Init PROVE IInv
      OBVIOUS
  <2>1. TypeOK
        BY SudAssumption
        DEF Init, TypeOK, PC, GuestPC, StartPC, HostPC, HandlerPC
  <2> QED BY <2>1 DEF Init, IInv, PageReady, NoSelectorYet, SlotsTaken, Distinct, Registered,
                      HandlerAllowed, Eff, HandlerPC
<1>2. IInv /\ [Next]_vars => IInv'
  <2> SUFFICES ASSUME IInv, [Next]_vars PROVE IInv'
      OBVIOUS
  <2>1. ASSUME NEW t \in Thread, Step(t) PROVE IInv'
    <3>1. TypeOK'
          BY <2>1, TypeStep DEF IInv
    <3>2. SlotsTaken' /\ Distinct' /\ Registered'
          BY <2>1, AllocationStep
    <3>3. PageReady' /\ NoSelectorYet'
          BY <2>1, LocationStep
    <3>4. HandlerAllowed'
          BY <2>1, HandlerAllowedStep
    <3> QED BY <3>1, <3>2, <3>3, <3>4 DEF IInv
  <2>2. CASE UNCHANGED vars
        BY <2>2 DEF vars, IInv, TypeOK, PageReady, NoSelectorYet, SlotsTaken, Distinct,
                    Registered, HandlerAllowed, Eff
  <2> QED BY <2>1, <2>2 DEF Next
<1> QED BY <1>1, <1>2, PTL DEF Spec

(* The type invariant of SudSelector holds in every reachable state. *)
THEOREM TypeCorrect == Spec => []TypeOK
<1>1. IInv => TypeOK
      BY DEF IInv
<1> QED BY <1>1, Inductive, PTL

(* alloc_thread_selector gives each thread a byte of its own in the shared *)
(* page, for any number of threads and whoever wins the race to map it.    *)
THEOREM SelectorsAreOwn == Spec => []OwnSelector
<1>1. IInv => OwnSelector
      BY DEF IInv, SlotsTaken, Distinct, OwnSelector
<1> QED BY <1>1, Inductive, PTL

(* sigsys_handler makes its own syscalls with a selector that lets them    *)
(* through, whatever other threads, callbacks and foreign signals do.      *)
THEOREM HandlerIsNeverTrapped == Spec => []HandlerNeverTraps
<1>1. IInv => HandlerNeverTraps
      BY DEF IInv, HandlerAllowed, Registered, HandlerNeverTraps, Trapped
<1> QED BY <1>1, Inductive, PTL

-----------------------------------------------------------------------------
(* On a thread without foreign SIGSYS, every signal the handler sees is a  *)
(* dispatch and it returns with the selector at ALLOW.                     *)
DispatchOnly ==
  \A t \in Thread \ Signalled : /\ cause[t] = "dispatch"
                                /\ pc[t] = "sigreturn" => tls[t] = Null \/ byte[tls[t]] = "ALLOW"

(* DispatchOnly is kept by every step. *)
LEMMA DispatchOnlyStep ==
  ASSUME DispatchOnly, IInv, NEW t \in Thread, Step(t)
  PROVE  DispatchOnly'
<1> USE SudAssumption
    DEF IInv, TypeOK, DispatchOnly, HandlerAllowed, Distinct, Registered, GuestPC, StartPC, HostPC,
        Goto, SetSelector, RaiseSigsys, selector_ptr, Thread
<1>1. CASE LoadPage(t)
      BY <1>1 DEF LoadPage
<1>2. CASE PublishPage(t)
      BY <1>2 DEF PublishPage
<1>3. CASE TakeSlot(t)
      BY <1>3 DEF TakeSlot
<1>4. CASE AllocTrampoline(t)
      BY <1>4 DEF AllocTrampoline
<1>5. CASE EnableSud(t)
      BY <1>5 DEF EnableSud
<1>6. CASE EnterSyscall(t)
      BY <1>6 DEF EnterSyscall
<1>7. CASE BlockAndJump(t)
      BY <1>7 DEF BlockAndJump
<1>8. CASE HandlerAllow(t)
      BY <1>8 DEF HandlerAllow
<1>9. CASE CheckSiCode(t)
      BY <1>9 DEF CheckSiCode
<1>10. CASE ProcessSyscall(t)
      BY <1>10 DEF ProcessSyscall
<1>11. CASE Sigreturn(t)
      BY <1>11 DEF Sigreturn
<1>12. CASE Trampoline(t)
      BY <1>12 DEF Trampoline
<1>13. CASE ShimAllow(t)
      BY <1>13 DEF ShimAllow
<1>14. CASE ShimSyscall(t)
      BY <1>14 DEF ShimSyscall
<1>15. CASE Callback(t)
      BY <1>15 DEF Callback
<1>16. CASE ShimBlock(t)
      BY <1>16 DEF ShimBlock
<1>17. CASE grafted_selector_allow(t)
      BY <1>17 DEF grafted_selector_allow
<1>18. CASE ImportReturns(t)
      BY <1>18 DEF ImportReturns
<1>19. CASE execute(t)
      BY <1>19 DEF execute
<1>20. CASE CallShim(t)
      BY <1>20 DEF CallShim
<1>21. CASE CallImport(t)
      BY <1>21 DEF CallImport
<1>22. CASE CallbackReturns(t)
      BY <1>22 DEF CallbackReturns
<1>23. CASE GuestSyscall(t)
      BY <1>23 DEF GuestSyscall
<1>24. CASE ThreadExit(t)
      BY <1>24 DEF ThreadExit
<1>25. CASE ForeignSignal(t)
      BY <1>25 DEF ForeignSignal
<1>26. ASSUME NEW u \in Created, ShimCreateThread(t, u) PROVE DispatchOnly'
      BY <1>26 DEF ShimCreateThread
<1> QED BY <1>1, <1>2, <1>3, <1>4, <1>5, <1>6, <1>7, <1>8, <1>9, <1>10, <1>11, <1>12, <1>13,
           <1>14, <1>15, <1>16, <1>17, <1>18, <1>19, <1>20, <1>21, <1>22, <1>23, <1>24, <1>25, <1>26
        DEF Step, StartStep, HandlerStep, HostStep, GuestStep

(* On a thread that gets no SIGSYS from elsewhere, rt_sigreturn at the end *)
(* of sigsys_handler is never trapped.                                     *)
THEOREM SigreturnIsAllowed == Spec => []SigreturnAllowed
<1>1. Init => DispatchOnly
      BY DEF Init, DispatchOnly
<1>2. IInv /\ DispatchOnly /\ [Next]_vars => DispatchOnly'
  <2>1. ASSUME IInv, DispatchOnly, UNCHANGED vars PROVE DispatchOnly'
        BY <2>1 DEF vars, DispatchOnly
  <2> QED BY <2>1, DispatchOnlyStep DEF Next
<1>3. IInv /\ DispatchOnly => SigreturnAllowed
      BY DEF IInv, Registered, DispatchOnly, SigreturnAllowed, Trapped
<1> QED BY <1>1, <1>2, <1>3, Inductive, PTL DEF Spec

-----------------------------------------------------------------------------
(* A thread that calls bracketed shims only, in addition: with SUD on it   *)
(* has a trampoline for its selector, and runs guest code at BLOCK.        *)
Bracketed ==
  \A t \in Thread \ (Loose \cup Signalled) :
    /\ depth[t] = 0
    /\ pc[t] \notin {"import", "libc"} /\ cont[t] # "import"
    /\ resume[t] \in {"guest", "shim_done", "enter", "block"}
    /\ pc[t] = "setup" => tls[t] # Null
    /\ pc[t] = "prctl" => tls[t] # Null /\ tramp[t] # Null
    /\ sud[t] # Null => tramp[t] # Null
    /\ pc[t] = "guest" /\ sud[t] # Null => byte[sud[t]] = "BLOCK"

(* Bracketed is kept by every step. *)
LEMMA BracketedStep ==
  ASSUME DispatchOnly, Bracketed, IInv, NEW t \in Thread, Step(t)
  PROVE  Bracketed'
<1> USE SudAssumption
    DEF IInv, TypeOK, DispatchOnly, Bracketed, Distinct, Registered, NoSelectorYet, Eff, HandlerPC,
        Goto, SetSelector, RaiseSigsys, selector_ptr, Thread
<1>1. CASE LoadPage(t)
      BY <1>1 DEF LoadPage
<1>2. CASE PublishPage(t)
      BY <1>2 DEF PublishPage
<1>3. CASE TakeSlot(t)
  <2>1. local[t] \in Thread /\ sud[t] = Null
        BY <1>3 DEF TakeSlot, PageReady
  <2>2. CASE nextSlot < PageSlots
    <3> DEFINE ptr == <<local[t], nextSlot>>
    <3>1. ptr \in Ptr /\ ptr # Null
          BY <2>1, <2>2 DEF Ptr
    <3>2. tls' = [tls EXCEPT ![t] = ptr] /\ byte' = [byte EXCEPT ![ptr] = "ALLOW"]
          BY <1>3, <2>2 DEF TakeSlot
    <3>3. Distinct'
          BY AllocationStep
    <3>4. ASSUME NEW u \in Thread, u # t, sud[u] # Null PROVE byte'[sud[u]] = byte[sud[u]]
      <4>1. sud[u] = tls'[u] /\ tls'[t] = ptr
            BY <3>2, <3>4
      <4>2. sud[u] # ptr
            BY <3>1, <3>3, <3>4, <4>1
      <4> QED BY <3>2, <3>4, <4>2
    <3>5. pc' = [pc EXCEPT ![t] = cont[t]] /\ UNCHANGED <<tramp, sud, cont, resume>>
          BY <1>3, <2>2 DEF TakeSlot
    <3>6. /\ cont[t] \in {"setup", "allow", "import"}
          /\ t \notin Loose \cup Signalled => cont[t] # "import"
          OBVIOUS
    <3>7. UNCHANGED depth
          BY <1>3, <2>2 DEF TakeSlot
    <3> HIDE DEF ptr
    <3> QED BY <2>1, <3>1, <3>2, <3>4, <3>5, <3>6, <3>7
  <2>3. CASE ~(nextSlot < PageSlots)
        BY <1>3, <2>3 DEF TakeSlot
  <2> QED BY <2>2, <2>3
<1>4. CASE AllocTrampoline(t)
      BY <1>4 DEF AllocTrampoline
<1>5. CASE EnableSud(t)
      BY <1>5 DEF EnableSud
<1>6. CASE EnterSyscall(t)
      BY <1>6 DEF EnterSyscall
<1>7. CASE BlockAndJump(t)
      BY <1>7 DEF BlockAndJump
<1>8. CASE HandlerAllow(t)
      BY <1>8 DEF HandlerAllow
<1>9. CASE CheckSiCode(t)
      BY <1>9 DEF CheckSiCode
<1>10. CASE ProcessSyscall(t)
      BY <1>10 DEF ProcessSyscall
<1>11. CASE Sigreturn(t)
      BY <1>11 DEF Sigreturn
<1>12. CASE Trampoline(t)
      BY <1>12 DEF Trampoline
<1>13. CASE ShimAllow(t)
      BY <1>13 DEF ShimAllow
<1>14. CASE ShimSyscall(t)
      BY <1>14 DEF ShimSyscall
<1>15. CASE Callback(t)
      BY <1>15 DEF Callback
<1>16. CASE ShimBlock(t)
      BY <1>16 DEF ShimBlock
<1>17. CASE grafted_selector_allow(t)
      BY <1>17 DEF grafted_selector_allow
<1>18. CASE ImportReturns(t)
      BY <1>18 DEF ImportReturns
<1>19. CASE execute(t)
      BY <1>19 DEF execute
<1>20. CASE CallShim(t)
      BY <1>20 DEF CallShim
<1>21. CASE CallImport(t)
      BY <1>21 DEF CallImport
<1>22. CASE CallbackReturns(t)
      BY <1>22 DEF CallbackReturns
<1>23. CASE GuestSyscall(t)
      BY <1>23 DEF GuestSyscall
<1>24. CASE ThreadExit(t)
      BY <1>24 DEF ThreadExit
<1>25. CASE ForeignSignal(t)
      BY <1>25 DEF ForeignSignal
<1>26. ASSUME NEW u \in Created, ShimCreateThread(t, u) PROVE Bracketed'
      BY <1>26 DEF ShimCreateThread
<1> QED BY <1>1, <1>2, <1>3, <1>4, <1>5, <1>6, <1>7, <1>8, <1>9, <1>10, <1>11, <1>12, <1>13,
           <1>14, <1>15, <1>16, <1>17, <1>18, <1>19, <1>20, <1>21, <1>22, <1>23, <1>24, <1>25, <1>26
        DEF Step, StartStep, HandlerStep, HostStep, GuestStep

(* If a thread reaches the host only through bracketed shims that do not   *)
(* call back, each of its Darwin syscalls with SUD on is trapped and       *)
(* translated: no path through a shim, the handler or its trampoline       *)
(* returns to the guest with the selector left at ALLOW, and no other      *)
(* thread can change that.                                                 *)
THEOREM GuestIsTrapped == Spec => []GuestTrapped
<1>1. Init => DispatchOnly /\ Bracketed
      BY DEF Init, DispatchOnly, Bracketed
<1>2. IInv /\ DispatchOnly /\ Bracketed /\ [Next]_vars => DispatchOnly' /\ Bracketed'
  <2>1. ASSUME IInv, DispatchOnly, Bracketed, UNCHANGED vars PROVE DispatchOnly' /\ Bracketed'
        BY <2>1 DEF vars, DispatchOnly, Bracketed
  <2> QED BY <2>1, DispatchOnlyStep, BracketedStep DEF Next
<1>3. Bracketed => GuestTrapped
      BY DEF Bracketed, GuestTrapped, Trapped
<1> QED BY <1>1, <1>2, <1>3, Inductive, PTL DEF Spec

-----------------------------------------------------------------------------
(* The threads that have a selector. *)
Equipped == {t \in Thread : tls[t] # Null}

LEMMA EquippedFinite ==
  /\ IsFiniteSet(Equipped) /\ Cardinality(Equipped) \in Nat
  /\ Cardinality(Equipped) <= Cardinality(Thread) /\ Cardinality(Thread) \in Nat
<1>1. Equipped \subseteq Thread /\ IsFiniteSet(Thread) BY SudAssumption DEF Equipped
<1> QED BY <1>1, FS_Subset, FS_CardinalityType

(* A thread that takes a slot has none: the count goes up with the         *)
(* counter, until the assertion fails.                                     *)
LEMMA SlotsNotWastedStep ==
  ASSUME IInv, SlotsNotWasted, [Next]_vars
  PROVE  SlotsNotWasted'
<1>0. nextSlot \in Nat /\ PageSlots \in Nat /\ tls \in [Thread -> Ptr \cup {Null}]
      BY SudAssumption DEF IInv, TypeOK
<1>1. ASSUME UNCHANGED <<nextSlot, tls>> PROVE SlotsNotWasted'
      BY <1>1 DEF SlotsNotWasted
<1>2. ASSUME NEW t \in Thread, TakeSlot(t) PROVE SlotsNotWasted'
  <2>1. tls[t] = Null BY <1>2, SudAssumption DEF TakeSlot, IInv, TypeOK, NoSelectorYet, Eff, HandlerPC
  <2>2. nextSlot' = nextSlot + 1 BY <1>2 DEF TakeSlot
  <2>3. CASE nextSlot < PageSlots
    <3>1. local[t] \in Thread BY <1>2 DEF TakeSlot, IInv, TypeOK, PageReady, Eff, HandlerPC
    <3>2. <<local[t], nextSlot>> \in Ptr BY <1>0, <2>3, <3>1 DEF Ptr
    <3>3. tls' = [tls EXCEPT ![t] = <<local[t], nextSlot>>] BY <1>2, <2>3 DEF TakeSlot
    <3>4. Equipped' = Equipped \cup {t} /\ t \notin Equipped
          BY <1>0, <2>1, <3>2, <3>3, SudAssumption DEF Equipped
    <3>5. Cardinality(Equipped') = Cardinality(Equipped) + 1
          BY <3>4, EquippedFinite, FS_AddElement
    <3>6. nextSlot = Cardinality(Equipped) BY <1>0, <2>3 DEF SlotsNotWasted, Equipped
    <3> QED BY <2>2, <3>5, <3>6 DEF SlotsNotWasted, Equipped
  <2>4. CASE ~(nextSlot < PageSlots)
    <3>1. ~(nextSlot' <= PageSlots) BY <1>0, <2>2, <2>4
    <3> QED BY <3>1 DEF SlotsNotWasted
  <2> QED BY <2>3, <2>4
<1>3. ASSUME NEW t \in Thread, PublishPage(t) \/ AllocTrampoline(t) \/ EnableSud(t) PROVE SlotsNotWasted'
      BY <1>1, <1>3 DEF PublishPage, AllocTrampoline, EnableSud
<1> QED BY <1>1, <1>2, <1>3, SelectorSteps DEF Next, vars

LEMMA SlotsNotWastedInit == Init => SlotsNotWasted
<1> SUFFICES ASSUME Init PROVE SlotsNotWasted OBVIOUS
<1>1. {t \in Thread : tls[t] # Null} = {} /\ nextSlot = 0 BY DEF Init
<1> QED BY <1>1, FS_EmptySet DEF SlotsNotWasted

(* However many threads ask for a selector, and however often they or the  *)
(* handler ask again, the counter of the page is the number of threads     *)
(* that have one.                                                          *)
THEOREM NoSlotIsWasted == Spec => []SlotsNotWasted
BY SlotsNotWastedInit, SlotsNotWastedStep, Inductive, PTL DEF Spec

Room == nextSlot <= PageSlots /\ process # "panicked"

(* "too many threads for selector page": the assertion of                  *)
(* alloc_thread_selector fails only when there are more threads in all     *)
(* than bytes in the page.                                                 *)
THEOREM RoomForEveryThread ==
  ASSUME Cardinality(Thread) <= PageSlots
  PROVE  Spec => [](process # "panicked")
<1>1. Init => Room BY SudAssumption DEF Init, Room
<1>2. ASSUME IInv, SlotsNotWasted, Room, [Next]_vars PROVE Room'
  <2> USE DEF Room
  <2>0. nextSlot \in Nat /\ PageSlots \in Nat BY <1>2, SudAssumption DEF IInv, TypeOK
  <2>1. ASSUME NEW t \in Thread, TakeSlot(t) PROVE nextSlot < PageSlots
    <3>1. tls[t] = Null BY <1>2, <2>1, SudAssumption DEF TakeSlot, IInv, TypeOK, NoSelectorYet, Eff, HandlerPC
    <3>2. Equipped # Thread /\ Equipped \subseteq Thread BY <3>1 DEF Equipped
    <3>3. Cardinality(Equipped) # Cardinality(Thread)
          BY <3>2, FS_Subset, SudAssumption
    <3>4. nextSlot = Cardinality(Equipped) BY <1>2 DEF SlotsNotWasted, Equipped
    <3> QED BY <2>0, <3>3, <3>4, EquippedFinite
  <2>2. ASSUME NEW t \in Thread, TakeSlot(t) PROVE Room'
        BY <1>2, <2>0, <2>1, <2>2 DEF TakeSlot
  <2>3. ASSUME NEW t \in Thread, Step(t), ~TakeSlot(t) PROVE Room'
    <3>1. nextSlot' = nextSlot BY <2>3, SelectorSteps DEF PublishPage, AllocTrampoline, EnableSud
    <3>2. process' \in {process, "killed", "exited"}
          BY <2>3 DEF Step, StartStep, HandlerStep, HostStep, GuestStep, LoadPage, PublishPage, AllocTrampoline,
             EnableSud, EnterSyscall, BlockAndJump,
             HandlerAllow, CheckSiCode, ProcessSyscall, Sigreturn, Trampoline, ShimAllow, ShimSyscall,
             Callback, ShimBlock, ShimCreateThread, grafted_selector_allow, ImportReturns, execute,
             CallShim, CallImport, CallbackReturns, GuestSyscall, ThreadExit, ForeignSignal
    <3> QED BY <1>2, <3>1, <3>2
  <2> QED BY <1>2, <2>2, <2>3 DEF Next, vars
<1>3. Room => process # "panicked" BY DEF Room
<1> QED BY <1>1, <1>2, <1>3, SlotsNotWastedInit, SlotsNotWastedStep, Inductive, PTL DEF Spec
=============================================================================
