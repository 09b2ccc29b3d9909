--------------------------- MODULE Notifications ---------------------------
(***************************************************************************)
(* NSNotificationCenter (grafted-frameworks/src/foundation/notification.rs)*)
(* and the selectors and method look-up of the Objective-C runtime it      *)
(* dispatches through (grafted-objc/src/runtime.rs).                       *)
(*                                                                         *)
(* Threads of the guest, and the clipboard poller, call the centre; an     *)
(* observer's method may call it again, so each thread has a stack of      *)
(* calls, the innermost first.  Classes and methods are registered before  *)
(* the program starts and do not change; selectors are interned at any     *)
(* time.  The guest's own selector pointers (__objc_selrefs) point to the  *)
(* same names as interned ones.                                            *)
(***************************************************************************)
EXTENDS Integers, Sequences

CONSTANTS
  Thread,
  Pollers,     \* threads of the pasteboard, which only post
  Entry,       \* what is registered: [observer, selector, name, object]
  Posted,      \* what is posted: [name, object]
  Removed,     \* what is removed: [observer, name, object]
  SelName,     \* names of selectors
  OwnSel,      \* selector pointers of the guest
  NameOf,      \* selector pointer -> name, interned ones included
  Boot,        \* name -> the pointer interned for it before the program starts
  Implements,  \* pairs <<observer, name>>: the class has the method
  Nil,
  MaxCalls,    \* bound: calls of the centre
  MaxDepth     \* bound: calls in progress on one thread

SelPtr == DOMAIN NameOf

ASSUME NotificationsAssumption ==
  /\ NameOf \in [SelPtr -> SelName] /\ OwnSel \subseteq SelPtr /\ Nil \notin SelPtr
  /\ DOMAIN Boot \subseteq SelName /\ \A n \in DOMAIN Boot : Boot[n] \in SelPtr /\ NameOf[Boot[n]] = n
  /\ \A e \in Entry : e.selector \in SelPtr
  /\ \A e \in Entry : <<e.observer, NameOf[e.selector]>> \in Implements => NameOf[e.selector] \in DOMAIN Boot
  /\ Pollers \subseteq Thread
  /\ {MaxCalls, MaxDepth} \subseteq Nat

VARIABLES
  observers,  \* OBSERVERS: [id, entry], id counts registrations.  The vector is pushed
              \* to and retained from, so its order is that of the ids
  added,      \* how many registrations there were
  lock,       \* the thread that holds its mutex, or Nil
  center,     \* CENTER: Nil or the thread whose object it is
  selectors,  \* SELECTOR_REGISTRY: name -> pointer
  calls,      \* thread -> stack of calls
  made,       \* how many calls there were
  got         \* history: the centres defaultCenter has returned

vars == <<observers, added, lock, center, selectors, calls, made, got>>

(* A call: the operation, its argument, where it is, the matches a post    *)
(* has still to dispatch; and, as history, which registrations were there  *)
(* at some time since a post began, which all the time, and which it       *)
(* called.                                                                 *)
Call(op, arg, pc) ==
  [op |-> op, arg |-> arg, pc |-> pc, matches |-> {}, ever |-> {}, always |-> {}, called |-> <<>>]

Ids(obs) == {o.id : o \in obs}
Top(t) == calls[t][1]
At(t, op, pc) == calls[t] # <<>> /\ Top(t).op = op /\ Top(t).pc = pc

(* Methods are registered under the interned pointer. *)
Methods == {<<i[1], Boot[i[2]]>> : i \in {j \in Implements : j[2] \in DOMAIN Boot}}

Init ==
  /\ observers = {} /\ added = 0 /\ lock = Nil /\ center = Nil
  /\ selectors = Boot
  /\ calls = [t \in Thread |-> <<>>]
  /\ made = 0 /\ got = {}

(* A thread is free to call when no call is in progress, or from an        *)
(* observer's method.                                                      *)
Free(t) == calls[t] # <<>> => (Top(t).op = "post" /\ Top(t).pc = "method")

Push(t, c) == calls' = [calls EXCEPT ![t] = <<c>> \o @]
Pop(t) == calls' = [calls EXCEPT ![t] = Tail(@)]
SetTop(t, c) == calls' = [calls EXCEPT ![t] = <<c>> \o Tail(@)]

Begin(t, c) ==
  /\ made < MaxCalls /\ made' = made + 1
  /\ Free(t) /\ (t \in Pollers /\ calls[t] = <<>> => c.op = "post")
  /\ Len(calls[t]) < MaxDepth
  /\ Push(t, c)

BeginAdd(t) ==
  /\ \E e \in Entry : Begin(t, Call("add", e, "lock"))
  /\ UNCHANGED <<observers, added, lock, center, selectors, got>>

BeginRemove(t) ==
  /\ \E r \in Removed : Begin(t, Call("remove", r, "lock"))
  /\ UNCHANGED <<observers, added, lock, center, selectors, got>>

(* post_by_name; what is there now may be gone when the lock is taken. *)
BeginPost(t) ==
  /\ \E p \in Posted :
       Begin(t, [Call("post", p, "lock") EXCEPT !.ever = Ids(observers), !.always = Ids(observers)])
  /\ UNCHANGED <<observers, added, lock, center, selectors, got>>

Acquire(t) ==
  /\ calls[t] # <<>> /\ Top(t).pc = "lock" /\ lock = Nil
  /\ lock' = t
  /\ SetTop(t, [Top(t) EXCEPT !.pc = "locked"])
  /\ UNCHANGED <<observers, added, center, selectors, made, got>>

(* The list becomes obs, and the call is over.  Posts in progress take     *)
(* note.                                                                   *)
Noted(c, obs) ==
  IF c.op # "post" THEN c
  ELSE [c EXCEPT !.ever = @ \cup Ids(obs), !.always = @ \cap Ids(obs)]
Update(t, obs) ==
  /\ observers' = obs
  /\ calls' = [u \in Thread |->
                 LET s == [i \in DOMAIN calls[u] |-> Noted(calls[u][i], obs)]
                 IN  IF u = t THEN Tail(s) ELSE s]
  /\ lock' = Nil
  /\ UNCHANGED <<center, selectors, made, got>>

addObserver(t) ==
  /\ At(t, "add", "locked")
  /\ added' = added + 1
  /\ Update(t, observers \cup {[id |-> added', entry |-> Top(t).arg]})

(* removeObserver:name:object:; removeObserver: gives Nil for both. *)
Drops(r, e) ==
  /\ e.observer = r.observer
  /\ r.name \in {Nil, e.name}
  /\ r.object \in {Nil, e.object}

removeObserver(t) ==
  /\ At(t, "remove", "locked")
  /\ Update(t, {o \in observers : ~Drops(Top(t).arg, o.entry)})
  /\ UNCHANGED added

(* Nil matches anything; an object of Nil in a post as well. *)
Matches(p, e) ==
  /\ e.name \in {Nil, p.name}
  /\ Nil \in {e.object, p.object} \/ e.object = p.object

(* Mutant: the lock is kept while the observers are called. *)
Collect_holding(t) ==
  /\ At(t, "post", "locked")
  /\ LET p == Top(t).arg
     IN  SetTop(t, [Top(t) EXCEPT !.pc = "dispatch",
                                 !.matches = {o \in observers : Matches(p, o.entry)}])
  /\ UNCHANGED <<observers, added, lock, center, selectors, made, got>>

(* post_by_name collects under the lock and dispatches without it. *)
Collect(t) ==
  /\ At(t, "post", "locked")
  /\ LET p == Top(t).arg
     IN  SetTop(t, [Top(t) EXCEPT !.pc = "dispatch",
                                 !.matches = {o \in observers : Matches(p, o.entry)}])
  /\ lock' = Nil
  /\ UNCHANGED <<observers, added, center, selectors, made, got>>

(* grafted_lookup_method: by the pointer, or by the one interned for its   *)
(* name.  Anything else ends in a stub that does nothing.  Selectors here  *)
(* are real ones: addresses above 0x1000 of names that are UTF-8 and       *)
(* shorter than 256 bytes, for which the code looks the name up at all.    *)
Finds(e) ==
  \/ <<e.observer, e.selector>> \in Methods
  \/ /\ NameOf[e.selector] \in DOMAIN selectors
     /\ <<e.observer, selectors[NameOf[e.selector]]>> \in Methods

(* dispatch_one, for the first of the matches that are left. *)
Dispatch(t) ==
  /\ At(t, "post", "dispatch")
  /\ \E o \in Top(t).matches :
       /\ \A q \in Top(t).matches : o.id <= q.id
       /\ LET c == [Top(t) EXCEPT !.matches = @ \ {o}]
          IN  SetTop(t, IF Finds(o.entry)
                        THEN [c EXCEPT !.pc = "method", !.called = Append(@, o.id)]
                        ELSE c)
  /\ UNCHANGED <<observers, added, lock, center, selectors, made, got>>

MethodReturns(t) ==
  /\ At(t, "post", "method")
  /\ SetTop(t, [Top(t) EXCEPT !.pc = "dispatch"])
  /\ UNCHANGED <<observers, added, lock, center, selectors, made, got>>

(* A guard that is still held is dropped with its scope. *)
PostReturns(t) ==
  /\ At(t, "post", "dispatch") /\ Top(t).matches = {}
  /\ Pop(t)
  /\ lock' = IF lock = t THEN Nil ELSE lock
  /\ UNCHANGED <<observers, added, center, selectors, made, got>>

-----------------------------------------------------------------------------
(* defaultCenter, also of NSDistributedNotificationCenter. *)

BeginDefault(t) ==
  /\ Begin(t, Call("center", Nil, "load"))
  /\ UNCHANGED <<observers, added, lock, center, selectors, got>>

Answer(t, c) == got' = got \cup {c} /\ Pop(t)

LoadCenter(t) ==
  /\ At(t, "center", "load")
  /\ IF center # Nil THEN Answer(t, center)
     ELSE SetTop(t, [Top(t) EXCEPT !.pc = "swap"]) /\ UNCHANGED got
  /\ UNCHANGED <<observers, added, lock, center, selectors, made>>

(* Mutant: the new object is stored whatever is there. *)
SwapCenter_store(t) ==
  /\ At(t, "center", "swap")
  /\ center' = t /\ Answer(t, t)
  /\ UNCHANGED <<observers, added, lock, selectors, made>>

(* The object of the thread that comes second is freed. *)
SwapCenter(t) ==
  /\ At(t, "center", "swap")
  /\ center' = IF center = Nil THEN t ELSE center
  /\ Answer(t, center')
  /\ UNCHANGED <<observers, added, lock, selectors, made>>

(* calloc fails. *)
NoCenter(t) ==
  /\ At(t, "center", "swap")
  /\ Answer(t, center)
  /\ UNCHANGED <<observers, added, lock, center, selectors, made>>

-----------------------------------------------------------------------------
(* Mutant: the name is not looked up again under the write lock. *)
sel_registerName_anew(t, n) ==
  /\ Free(t)
  /\ \E p \in SelPtr \ OwnSel :
       /\ NameOf[p] = n /\ \A m \in DOMAIN selectors : selectors[m] # p
       /\ selectors' = [m \in DOMAIN selectors \cup {n} |-> IF m = n THEN p ELSE selectors[m]]
  /\ UNCHANGED <<observers, added, lock, center, calls, made, got>>

(* A name that is interned keeps its pointer. *)
sel_registerName(t, n) ==
  /\ Free(t) /\ n \notin DOMAIN selectors
  /\ \E p \in SelPtr \ OwnSel :
       /\ NameOf[p] = n
       /\ selectors' = [m \in DOMAIN selectors \cup {n} |-> IF m = n THEN p ELSE selectors[m]]
  /\ UNCHANGED <<observers, added, lock, center, calls, made, got>>

-----------------------------------------------------------------------------
(* What a thread does once it has begun a call. *)
Step(t) ==
  \/ Acquire(t) \/ addObserver(t) \/ removeObserver(t)
  \/ Collect(t) \/ Dispatch(t) \/ MethodReturns(t) \/ PostReturns(t)
  \/ LoadCenter(t) \/ SwapCenter(t) \/ NoCenter(t)

Next ==
  \E t \in Thread :
    \/ Step(t)
    \/ BeginAdd(t) \/ BeginRemove(t) \/ BeginPost(t) \/ BeginDefault(t)
    \/ \E n \in SelName : sel_registerName(t, n)

Spec == Init /\ [][Next]_vars

(* Threads run, and an observer's method returns when it makes no more     *)
(* calls, of which MaxCalls leaves but finitely many.                      *)
FairSpec == Spec /\ \A t \in Thread : WF_vars(Step(t))

-----------------------------------------------------------------------------
(* A post in progress. *)
PostsOf(t) == {i \in DOMAIN calls[t] : calls[t][i].op = "post"}
Finished(c) == c.pc = "dispatch" /\ c.matches = {}

(* Observers are called from a copy of the list.  Whatever is registered   *)
(* and removed meanwhile, by other threads or by the observers themselves: *)
(* a post calls in the order of registration, nothing twice and nothing    *)
(* that was not registered while it lasted; and by its end it has called   *)
(* all that was registered from its beginning to its end, matches, and has *)
(* a method for the name of its selector, whichever pointer that is.       *)
DeliveryWindow ==
  \A t \in Thread : \A i \in PostsOf(t) :
    LET c == calls[t][i]
        called == {c.called[k] : k \in DOMAIN c.called}
    IN  /\ \A j, k \in DOMAIN c.called : j < k => c.called[j] < c.called[k]
        /\ called \subseteq c.ever
        /\ Finished(c) =>
             \A o \in observers :
               /\ o.id \in c.always /\ Matches(c.arg, o.entry)
               /\ <<o.entry.observer, NameOf[o.entry.selector]>> \in Implements
               => o.id \in called

(* Threads that ask for the default centre at the same time are given the  *)
(* same one.                                                               *)
OneCenter == got \subseteq {Nil, center}

(* Observers may call the centre: no call waits for ever. *)
CallsReturn == \A t \in Thread : calls[t] # <<>> ~> calls[t] = <<>>
=============================================================================
