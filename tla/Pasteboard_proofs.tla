-------------------------- MODULE Pasteboard_proofs --------------------------
(***************************************************************************)
(* Proofs about Pasteboard, for any number of guest threads and any        *)
(* bounds: its types, and that a watcher of changeCount misses no change.  *)
(***************************************************************************)
EXTENDS Pasteboard, TLAPS

Step(t) ==
  \/ \E s \in GuestText : SetString(t, s)
  \/ Clear(t) \/ DeclareTypes(t) \/ ChangeCount(t) \/ Call(t)

(* Every step keeps the types. *)
LEMMA TypeStep == TypeOK /\ [Next]_vars => TypeOK'
<1> SUFFICES ASSUME TypeOK, [Next]_vars PROVE TypeOK'
    OBVIOUS
<1> USE PasteboardAssumption DEF TypeOK, Copied, Text, Content, Thread, PollPC, CallPC
<1>1. CASE Copy
      BY <1>1 DEF Copy
<1>2. CASE PollRead
      BY <1>2 DEF PollRead, read_clipboard_text, Fail
<1>3. CASE PollLock
      BY <1>3 DEF PollLock
<1>4. CASE PollCompare
      BY <1>4 DEF PollCompare
<1>5. CASE PollBump
      BY <1>5 DEF PollBump
<1>6. CASE PollPosted
      BY <1>6 DEF PollPosted
<1>7. ASSUME NEW t \in Thread, Step(t) PROVE TypeOK'
  <2>1. ASSUME NEW s \in GuestText, SetString(t, s) PROVE TypeOK'
        BY <2>1 DEF SetString, Goto
  <2>2. CASE Clear(t)
        BY <2>2 DEF Clear, Goto
  <2>3. CASE DeclareTypes(t)
        BY <2>3 DEF DeclareTypes
  <2>4. CASE ChangeCount(t)
        BY <2>4 DEF ChangeCount, Goto
  <2>5. CASE SetWrite(t)
        BY <2>5 DEF SetWrite, Goto, write_clipboard_text, Fail
  <2>6. CASE SetBump(t)
        BY <2>6 DEF SetBump, Goto
  <2>7. CASE SetLast(t)
        BY <2>7 DEF SetLast, Goto
  <2>8. CASE ClearWrite(t)
        BY <2>8 DEF ClearWrite, Goto, write_clipboard_text, Fail
  <2>9. CASE ClearLast(t)
        BY <2>9 DEF ClearLast, Goto
  <2>10. CASE ClearBump(t)
        BY <2>10 DEF ClearBump, Goto
  <2>11. CASE StringForType(t)
        BY <2>11 DEF StringForType, Goto, read_clipboard_text, Fail
  <2> QED BY <1>7, <2>1, <2>2, <2>3, <2>4, <2>5, <2>6, <2>7, <2>8, <2>9, <2>10, <2>11 DEF Step, Call
<1>8. CASE UNCHANGED vars
      BY <1>8 DEF vars
<1> QED BY <1>1, <1>2, <1>3, <1>4, <1>5, <1>6, <1>7, <1>8 DEF Next, Poll, Step

(* The type invariant of Pasteboard holds in every reachable state. *)
THEOREM TypeCorrect == Spec => []TypeOK
<1>1. Init => TypeOK
      BY PasteboardAssumption DEF Init, TypeOK, Copied, Text, Content, Thread, PollPC, CallPC
<1> QED BY <1>1, TypeStep, PTL DEF Spec

-----------------------------------------------------------------------------
(* The strengthening.  Nobody knows a count from the future; the texts     *)
(* around are no newer than the newest copied one, so a fresh copy differs *)
(* from LAST_CONTENT; and a watcher that is stale waits for a call when    *)
(* the clipboard's text is the guest's, for the poller when it was copied. *)
CountsKnown ==
  \A t \in Thread : seen[t][1] <= count /\ sample[t] <= count

CopiesOld ==
  \A c \in Copied : c > copies => c # clipboard /\ c # last /\ c # current

StaleAfterCall ==
  \A t \in Thread : Stale(t) /\ clipboard \notin Copied => \E u \in Thread : BumpPending(u)

StaleAfterCopy ==
  \A t \in Thread : Stale(t) /\ clipboard \in Copied => PollPending

IInv == TypeOK /\ CountsKnown /\ CopiesOld /\ StaleAfterCall /\ StaleAfterCopy

(* Counts only grow and are read before they are remembered. *)
LEMMA CountsStep == TypeOK /\ CountsKnown /\ [Next]_vars => CountsKnown'
<1> SUFFICES ASSUME TypeOK, CountsKnown, [Next]_vars PROVE CountsKnown'
    OBVIOUS
<1> USE DEF TypeOK, CountsKnown
<1>1. CASE Copy \/ Poll
      BY <1>1 DEF Copy, Poll, PollRead, PollLock, PollCompare, PollBump, PollPosted
<1>2. ASSUME NEW t \in Thread, Step(t) PROVE CountsKnown'
  <2>1. CASE ChangeCount(t)
        BY <2>1 DEF ChangeCount
  <2>2. CASE StringForType(t)
        BY <2>2 DEF StringForType
  <2>3. CASE DeclareTypes(t) \/ SetBump(t) \/ ClearBump(t)
        BY <2>3 DEF DeclareTypes, SetBump, ClearBump
  <2>4. CASE (\E s \in GuestText : SetString(t, s)) \/ Clear(t) \/ SetWrite(t) \/ SetLast(t)
             \/ ClearWrite(t) \/ ClearLast(t)
        BY <2>4 DEF SetString, Clear, SetWrite, SetLast, ClearWrite, ClearLast
  <2> QED BY <1>2, <2>1, <2>2, <2>3, <2>4 DEF Step, Call
<1>3. CASE UNCHANGED vars
      BY <1>3 DEF vars
<1> QED BY <1>1, <1>2, <1>3 DEF Next, Step

(* Only Copy brings a new copied text, and it brings the next one. *)
LEMMA CopiesStep == TypeOK /\ CopiesOld /\ [Next]_vars => CopiesOld'
<1> SUFFICES ASSUME TypeOK, CopiesOld, [Next]_vars PROVE CopiesOld'
    OBVIOUS
<1> USE PasteboardAssumption DEF TypeOK, CopiesOld, Copied, Text
<1>1. CASE Copy
      BY <1>1 DEF Copy
<1>2. CASE PollRead
      BY <1>2 DEF PollRead, read_clipboard_text
<1>3. CASE PollLock \/ PollCompare \/ PollBump \/ PollPosted
      BY <1>3 DEF PollLock, PollCompare, PollBump, PollPosted
<1>4. ASSUME NEW t \in Thread, Step(t) PROVE CopiesOld'
  <2>1. CASE SetWrite(t) \/ ClearWrite(t)
        BY <2>1 DEF SetWrite, ClearWrite, write_clipboard_text
  <2>2. CASE SetLast(t) \/ ClearLast(t)
        BY <2>2 DEF SetLast, ClearLast
  <2>3. CASE (\E s \in GuestText : SetString(t, s)) \/ Clear(t) \/ SetBump(t) \/ ClearBump(t)
             \/ DeclareTypes(t) \/ ChangeCount(t) \/ StringForType(t)
        BY <2>3 DEF SetString, Clear, SetBump, ClearBump, DeclareTypes, ChangeCount, StringForType
  <2> QED BY <1>4, <2>1, <2>2, <2>3 DEF Step, Call
<1>5. CASE UNCHANGED vars
      BY <1>5 DEF vars
<1> QED BY <1>1, <1>2, <1>3, <1>4, <1>5 DEF Next, Poll, Step

(* A watcher is stale after a call only until the call has counted. *)
LEMMA StaleAfterCallStep == IInv /\ [Next]_vars => StaleAfterCall'
<1> SUFFICES ASSUME IInv, [Next]_vars PROVE StaleAfterCall'
    OBVIOUS
<1> USE PasteboardAssumption
    DEF IInv, TypeOK, CountsKnown, StaleAfterCall, Stale, BumpPending
<1>1. CASE Copy
  <2>1. copies + 1 \in Copied
        BY <1>1 DEF Copy, Copied
  <2> QED BY <1>1, <2>1 DEF Copy
<1>2. CASE PollRead \/ PollLock \/ PollCompare \/ PollPosted
      BY <1>2 DEF PollRead, PollLock, PollCompare, PollPosted
<1>3. CASE PollBump
      BY <1>3 DEF PollBump
<1>4. ASSUME NEW t \in Thread, Step(t) PROVE StaleAfterCall'
  <2>1. CASE SetWrite(t)
        BY <2>1 DEF SetWrite, Goto, write_clipboard_text
  <2>2. CASE ClearWrite(t)
        BY <2>2 DEF ClearWrite, Goto, write_clipboard_text
  <2>3. CASE SetBump(t) \/ ClearBump(t) \/ DeclareTypes(t)
        BY <2>3 DEF SetBump, ClearBump, DeclareTypes
  <2>4. CASE SetLast(t) \/ ClearLast(t)
        BY <2>4 DEF SetLast, ClearLast, Goto
  <2>5. CASE StringForType(t)
        BY <2>5 DEF StringForType, Goto, read_clipboard_text
  <2>6. CASE (\E s \in GuestText : SetString(t, s)) \/ Clear(t) \/ ChangeCount(t)
        BY <2>6 DEF SetString, Clear, ChangeCount, Goto, MayCall
  <2> QED BY <1>4, <2>1, <2>2, <2>3, <2>4, <2>5, <2>6 DEF Step, Call
<1>5. CASE UNCHANGED vars
      BY <1>5 DEF vars
<1> QED BY <1>1, <1>2, <1>3, <1>4, <1>5 DEF Next, Poll, Step

(* A watcher is stale after a copy only until the poller has counted: no   *)
(* other step makes LAST_CONTENT the copied text.                          *)
LEMMA StaleAfterCopyStep == IInv /\ [Next]_vars => StaleAfterCopy'
<1> SUFFICES ASSUME IInv, [Next]_vars PROVE StaleAfterCopy'
    OBVIOUS
<1> USE PasteboardAssumption
    DEF IInv, TypeOK, CountsKnown, StaleAfterCopy, Stale, PollPending
<1>1. CASE Copy
  <2>1. copies + 1 \in Copied /\ copies + 1 > copies
        BY <1>1 DEF Copy, Copied
  <2> QED BY <1>1, <2>1 DEF Copy, CopiesOld
<1>2. CASE PollRead \/ PollLock \/ PollPosted
      BY <1>2 DEF PollRead, PollLock, PollPosted
<1>3. CASE PollCompare
      BY <1>3 DEF PollCompare
<1>4. CASE PollBump
      BY <1>4 DEF PollBump
<1>5. ASSUME NEW t \in Thread, Step(t) PROVE StaleAfterCopy'
  <2>1. CASE SetWrite(t) \/ ClearWrite(t)
    <3>1. text[t] \notin Copied
          BY DEF Thread
    <3> QED BY <2>1, <3>1 DEF SetWrite, ClearWrite, write_clipboard_text
  <2>2. CASE SetBump(t) \/ ClearBump(t) \/ DeclareTypes(t)
        BY <2>2 DEF SetBump, ClearBump, DeclareTypes
  <2>3. CASE SetLast(t) \/ ClearLast(t)
    <3>1. text[t] \notin Copied /\ Empty \notin Copied
          BY DEF Thread
    <3> QED BY <2>3, <3>1 DEF SetLast, ClearLast
  <2>4. CASE StringForType(t)
        BY <2>4 DEF StringForType, read_clipboard_text
  <2>5. CASE (\E s \in GuestText : SetString(t, s)) \/ Clear(t) \/ ChangeCount(t)
        BY <2>5 DEF SetString, Clear, ChangeCount
  <2> QED BY <1>5, <2>1, <2>2, <2>3, <2>4, <2>5 DEF Step, Call
<1>6. CASE UNCHANGED vars
      BY <1>6 DEF vars
<1> QED BY <1>1, <1>2, <1>3, <1>4, <1>5, <1>6 DEF Next, Poll, Step

(* The strengthened invariant is inductive. *)
LEMMA Inductive == Spec => []IInv
<1>1. Init => IInv
  <2> SUFFICES ASSUME Init PROVE IInv
      OBVIOUS
  <2>1. TypeOK
        BY PasteboardAssumption
        DEF Init, TypeOK, Copied, Text, Content, Thread, PollPC, CallPC
  <2>2. CountsKnown
        BY DEF Init, CountsKnown
  <2>3. CopiesOld
        BY PasteboardAssumption DEF Init, CopiesOld, Text, Copied
  <2>4. StaleAfterCall /\ StaleAfterCopy
        BY DEF Init, StaleAfterCall, StaleAfterCopy, Stale
  <2> QED BY <2>1, <2>2, <2>3, <2>4 DEF IInv
<1>2. IInv /\ [Next]_vars => IInv'
      BY TypeStep, CountsStep, CopiesStep, StaleAfterCallStep, StaleAfterCopyStep DEF IInv
<1> QED BY <1>1, <1>2, PTL DEF Spec

(* Whatever the poller, the calls of the guest and other applications do   *)
(* between the steps of one another, a watcher that follows changeCount is *)
(* never left with an old text without a bump under way: the order in      *)
(* which every call writes, counts and updates LAST_CONTENT is right.      *)
THEOREM WatcherMissesNothing == Spec => []NoMissedChange
<1>1. IInv => NoMissedChange
      BY DEF IInv, StaleAfterCall, StaleAfterCopy, NoMissedChange
<1> QED BY <1>1, Inductive, PTL
=============================================================================
