------------------------------ MODULE Pasteboard ------------------------------
(***************************************************************************)
(* NSPasteboard of grafted-frameworks/src/appkit/pasteboard.rs: a change   *)
(* count over the desktop's clipboard, which other applications change     *)
(* too.  A polling thread compares the clipboard with LAST_CONTENT every   *)
(* half second; setString:, clearContents and declareTypes: count their    *)
(* own changes.  The clipboard is reached through subprocesses, which may  *)
(* fail.                                                                   *)
(*                                                                         *)
(* One step is one access to the clipboard, to CHANGE_COUNT or under the   *)
(* LAST_CONTENT mutex.  A text is a number: those that other applications  *)
(* copy are 0, 1, 2, ... in the order they are copied, so no such text     *)
(* comes back; the empty text and the texts the guest writes are apart.    *)
(***************************************************************************)
EXTENDS Integers

CONSTANTS
  Guest,      \* guest threads
  Poller,     \* the thread "grafted-pasteboard-poll"
  GuestText,  \* the texts the guest writes
  Empty,      \* ""
  None,       \* Option::None
  MaxCopies,  \* bound: texts copied by other applications
  MaxCount,   \* bound: thread -> the count from which on it starts no call
  MaxFails    \* bound: failures of a clipboard subprocess

Copied  == 0 .. MaxCopies
Text    == Copied \cup GuestText \cup {Empty}
Content == Text \cup {None}
Thread  == Guest \cup {Poller}

ASSUME PasteboardAssumption ==
  /\ Poller \notin Guest
  /\ MaxCopies \in Nat /\ MaxCount \in [Thread -> Nat] /\ MaxFails \in Nat
  /\ GuestText \cap Copied = {} /\ Empty \notin Copied \cup GuestText
  /\ None \notin Text

VARIABLES
  clipboard,  \* the text the desktop's clipboard holds
  copies,     \* the newest text another application copied
  fails,      \* subprocess failures so far
  count,      \* CHANGE_COUNT
  last,       \* LAST_CONTENT
  lock,       \* the holder of the LAST_CONTENT mutex, or None
  pollpc,     \* where the polling thread is
  current,    \* what it read
  pc,         \* where each thread is in a pasteboard call
  text,       \* the argument of that call
  sample,     \* the change count each thread read last
  seen        \* <<change count, text>> each thread knows the clipboard by

vars == <<clipboard, copies, fails, count, last, lock, pollpc, current, pc, text, sample, seen>>

PollPC == {"sleep", "lock", "compare", "bump", "post"}
CallPC == {"idle", "set_write", "set_bump", "set_last",
           "clear_write", "clear_last", "clear_bump", "read_text"}

(* POLL_STARTED: LAST_CONTENT is primed with the clipboard if the read     *)
(* works; only then does anyone hold the pasteboard object.                *)
Init ==
  /\ clipboard = 0 /\ copies = 0
  /\ \/ last = 0 /\ fails = 0
     \/ last = None /\ fails = 1 /\ MaxFails > 0
  /\ count = 0
  /\ lock = None
  /\ pollpc = "sleep"
  /\ current = None
  /\ pc = [t \in Thread |-> "idle"]
  /\ text = [t \in Thread |-> Empty]
  /\ sample = [t \in Thread |-> 0]
  /\ seen = [t \in Thread |-> <<0, 0>>]

-----------------------------------------------------------------------------
(* The desktop. *)

(* Another application copies a new text (external). *)
Copy ==
  /\ copies < MaxCopies
  /\ copies' = copies + 1
  /\ clipboard' = copies + 1
  /\ UNCHANGED <<fails, count, last, lock, pollpc, current, pc, text, sample, seen>>

Fail == fails < MaxFails /\ fails' = fails + 1

(* read_clipboard_text: the text, or None when the subprocess fails or     *)
(* its output is not UTF-8.                                                *)
read_clipboard_text(result) ==
  \/ result = clipboard /\ UNCHANGED fails
  \/ result = None /\ Fail

(* write_clipboard_text: FALSE when the writer cannot be spawned; TRUE     *)
(* once it was, although its exit status is ignored and the clipboard may  *)
(* still hold the old text.                                                *)
write_clipboard_text(t, ok) ==
  \/ ok /\ clipboard' = text[t] /\ UNCHANGED fails
  \/ ok /\ Fail /\ UNCHANGED clipboard
  \/ ~ok /\ Fail /\ UNCHANGED clipboard

-----------------------------------------------------------------------------
(* The polling thread. *)

PollRead ==
  /\ pollpc = "sleep"
  /\ \E result \in {clipboard, None} :
       read_clipboard_text(result) /\ current' = result
  /\ pollpc' = "lock"
  /\ UNCHANGED <<clipboard, copies, count, last, lock, pc, text, sample, seen>>

PollLock ==
  /\ pollpc = "lock" /\ lock = None
  /\ lock' = Poller
  /\ pollpc' = "compare"
  /\ UNCHANGED <<clipboard, copies, fails, count, last, current, pc, text, sample, seen>>

(* Mutants: the mutex is held until the end of the loop body, while the    *)
(* observers run; a change is remembered but not counted.                  *)
PollCompare_held ==
  /\ pollpc = "compare"
  /\ last' = current
  /\ lock' = IF last = current THEN None ELSE Poller
  /\ pollpc' = IF last = current THEN "sleep" ELSE "bump"
  /\ UNCHANGED <<clipboard, copies, fails, count, current, pc, text, sample, seen>>

PollCompare_uncounted ==
  /\ pollpc = "compare"
  /\ last' = current
  /\ lock' = None
  /\ pollpc' = "sleep"
  /\ UNCHANGED <<clipboard, copies, fails, count, current, pc, text, sample, seen>>

(* Compare, remember, and release the mutex. *)
PollCompare ==
  /\ pollpc = "compare"
  /\ last' = current
  /\ lock' = None
  /\ pollpc' = IF last = current THEN "sleep" ELSE "bump"
  /\ UNCHANGED <<clipboard, copies, fails, count, current, pc, text, sample, seen>>

(* Count the change and post NSPasteboardDidChangeNotification, whose      *)
(* observers run on this thread.                                           *)
PollBump ==
  /\ pollpc = "bump"
  /\ count' = count + 1
  /\ pollpc' = "post"
  /\ UNCHANGED <<clipboard, copies, fails, last, lock, current, pc, text, sample, seen>>

(* The end of the loop body, where a guard of the mutex would be dropped   *)
(* if it were still there.                                                 *)
PollPosted ==
  /\ pollpc = "post" /\ pc[Poller] = "idle"
  /\ pollpc' = "sleep"
  /\ lock' = None
  /\ UNCHANGED <<clipboard, copies, fails, count, last, current, pc, text, sample, seen>>

-----------------------------------------------------------------------------
(* Pasteboard calls of guest code: on guest threads, and on the polling    *)
(* thread inside an observer.                                              *)

RunsGuestCode(t) == t \in Guest \/ pollpc = "post"

Goto(t, l) == pc' = [pc EXCEPT ![t] = l]

MayCall(t) == RunsGuestCode(t) /\ pc[t] = "idle" /\ count < MaxCount[t]

(* ns_pasteboard_set_string. *)
SetString(t, s) ==
  /\ MayCall(t)
  /\ text' = [text EXCEPT ![t] = s]
  /\ Goto(t, "set_write")
  /\ UNCHANGED <<clipboard, copies, fails, count, last, lock, pollpc, current, sample, seen>>

(* Mutant: the write is not counted. *)
SetWrite_uncounted(t) ==
  /\ pc[t] = "set_write"
  /\ \E ok \in BOOLEAN : /\ write_clipboard_text(t, ok)
                         /\ Goto(t, IF ok THEN "set_last" ELSE "idle")
  /\ UNCHANGED <<copies, count, last, lock, pollpc, current, text, sample, seen>>

SetWrite(t) ==
  /\ pc[t] = "set_write"
  /\ \E ok \in BOOLEAN : /\ write_clipboard_text(t, ok)
                         /\ Goto(t, IF ok THEN "set_bump" ELSE "idle")
  /\ UNCHANGED <<copies, count, last, lock, pollpc, current, text, sample, seen>>

SetBump(t) ==
  /\ pc[t] = "set_bump"
  /\ count' = count + 1
  /\ Goto(t, "set_last")
  /\ UNCHANGED <<clipboard, copies, fails, last, lock, pollpc, current, text, sample, seen>>

SetLast(t) ==
  /\ pc[t] = "set_last" /\ lock = None
  /\ last' = text[t]
  /\ Goto(t, "idle")
  /\ UNCHANGED <<clipboard, copies, fails, count, lock, pollpc, current, text, sample, seen>>

(* ns_pasteboard_clear: whether the write worked is not looked at. *)
Clear(t) ==
  /\ MayCall(t)
  /\ text' = [text EXCEPT ![t] = Empty]
  /\ Goto(t, "clear_write")
  /\ UNCHANGED <<clipboard, copies, fails, count, last, lock, pollpc, current, sample, seen>>

ClearWrite(t) ==
  /\ pc[t] = "clear_write"
  /\ \E ok \in BOOLEAN : write_clipboard_text(t, ok)
  /\ Goto(t, "clear_last")
  /\ UNCHANGED <<copies, count, last, lock, pollpc, current, text, sample, seen>>

ClearLast(t) ==
  /\ pc[t] = "clear_last" /\ lock = None
  /\ last' = Empty
  /\ Goto(t, "clear_bump")
  /\ UNCHANGED <<clipboard, copies, fails, count, lock, pollpc, current, text, sample, seen>>

ClearBump(t) ==
  /\ pc[t] = "clear_bump"
  /\ count' = count + 1
  /\ Goto(t, "idle")
  /\ UNCHANGED <<clipboard, copies, fails, last, lock, pollpc, current, text, sample, seen>>

(* ns_pasteboard_declare_types. *)
DeclareTypes(t) ==
  /\ MayCall(t)
  /\ count' = count + 1
  /\ UNCHANGED <<clipboard, copies, fails, last, lock, pollpc, current, pc, text, sample, seen>>

(* A clipboard watcher: changeCount first and, when it moved, the text.    *)
(* It gets nil for an empty clipboard and for a failed read alike, keeps   *)
(* what it knew and asks again.                                            *)
ChangeCount(t) ==
  /\ RunsGuestCode(t) /\ pc[t] = "idle" /\ seen[t][1] # count
  /\ sample' = [sample EXCEPT ![t] = count]
  /\ Goto(t, "read_text")
  /\ UNCHANGED <<clipboard, copies, fails, count, last, lock, pollpc, current, text, seen>>

StringForType(t) ==
  /\ pc[t] = "read_text"
  /\ \E result \in {clipboard, None} :
       /\ read_clipboard_text(result)
       /\ seen' = IF result \in {None, Empty} THEN seen
                  ELSE [seen EXCEPT ![t] = <<sample[t], result>>]
       /\ Goto(t, "idle")
  /\ UNCHANGED <<clipboard, copies, count, last, lock, pollpc, current, text, sample>>

Call(t) ==
  \/ SetWrite(t) \/ SetBump(t) \/ SetLast(t)
  \/ ClearWrite(t) \/ ClearLast(t) \/ ClearBump(t) \/ StringForType(t)

Poll == PollRead \/ PollLock \/ PollCompare \/ PollBump \/ PollPosted

Next ==
  \/ Copy \/ Poll
  \/ \E t \in Thread :
       \/ \E s \in GuestText : SetString(t, s)
       \/ Clear(t) \/ DeclareTypes(t) \/ ChangeCount(t) \/ Call(t)

Spec == Init /\ [][Next]_vars

(* The polling thread loops forever and a pasteboard call that has begun   *)
(* runs on.  Strong fairness for the calls: one that waits for the mutex   *)
(* finds it free while the poller sleeps for half a second between two     *)
(* comparisons.                                                            *)
FairSpec == Spec /\ WF_vars(Poll) /\ \A t \in Thread : SF_vars(Call(t))

-----------------------------------------------------------------------------
(* Properties. *)

(* Types: texts, counters and locations. *)
TypeOK ==
  /\ clipboard \in Text /\ copies \in Copied /\ fails \in 0 .. MaxFails
  /\ count \in Nat
  /\ last \in Content /\ current \in Content
  /\ lock \in {Poller, None}
  /\ pollpc \in PollPC
  /\ pc \in [Thread -> CallPC]
  /\ text \in [Thread -> GuestText \cup {Empty}]
  /\ sample \in [Thread -> Nat]
  /\ seen \in [Thread -> Nat \X Text]

(* A watcher that follows changeCount misses nothing: while it knows an    *)
(* old text under the current count, a bump that will tell it so is on its *)
(* way, from the setString: or clearContents that made the change, or from *)
(* the poller, for which LAST_CONTENT must then still differ.  It is the   *)
(* order of write, bump and LAST_CONTENT update in every call that decides *)
(* this, with the poller and other calls between any two of them.          *)
Stale(t) == seen[t][1] = count /\ seen[t][2] # clipboard
BumpPending(t) == pc[t] \in {"set_bump", "clear_last", "clear_bump"}
PollPending == last # clipboard \/ pollpc = "bump"
NoMissedChange ==
  \A t \in Thread : Stale(t) => PollPending \/ \E u \in Thread : BumpPending(u)

(* And it gets on its way: no watcher stays in that state.                 *)
ChangeIsAnnounced == \A t \in Thread : Stale(t) ~> ~Stale(t)

(* "release before posting notification (observers may call clipboard      *)
(* APIs)": every pasteboard call returns, also those an observer makes on  *)
(* the polling thread.                                                     *)
CallsReturn == \A t \in Thread : pc[t] # "idle" ~> pc[t] = "idle"

(* "Also update LAST_CONTENT so the poller doesn't double-count": the      *)
(* poller never counts a text that setString: wrote and counts itself.     *)
PollerSkipsOwnWrites == pollpc = "bump" => current \notin GuestText
=============================================================================
