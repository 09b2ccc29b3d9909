# A TLA+ model of grafted

grafted runs macOS (Mach-O, x86-64) programs on Linux.  It maps the program and
its libraries, binds their imports to shims and to stand-ins for the Apple
frameworks, traps the Darwin syscalls the code still makes, and translates them.
This directory holds TLA+ modules of the parts of grafted that keep state several
threads, signal handlers or processes touch, the TLC configurations that check
them on small instances, and TLAPS proofs of their main properties for all
instances.

## Inventory

| Part | Source (under `src/crates/`) | State | Operations | Talks to |
|---|---|---|---|---|
| Executor, Syscall User Dispatch | `grafted-loader/src/executor.rs` | selector page, next slot, per-thread selector and trampoline | `execute`, `selector_ptr`, `sigsys_handler`, `process_syscall` | kernel (prctl, SIGSYS), shims, guest code |
| Crash recovery | `executor.rs`, `grafted-frameworks/src/appkit/application.rs`, `registry.rs` | `RECOVERY_ACTIVE`, `RECOVERY_BUF`, `IN_HANDLER`, skip mode and counters, patches and their flag | `grafted_try_call`, `sigsegv_handler`, `abort`, apply/restore patches | kernel (signals), Swift runtime, app delegate |
| Mach ports | `grafted-dyld/src/mach_ipc.rs` | port namespace, name counter, message queues | allocate, deallocate, insert_right, mod_refs, mach_msg, port_type | shims, guest threads |
| NSPasteboard | `grafted-frameworks/src/appkit/pasteboard.rs` | change count, last content (mutex), poller thread | setString:, clearContents, declareTypes:, changeCount, stringForType: | clipboard tools, notification centre |
| libc shims | `grafted-dyld/src/shims.rs` | once words, keys, generated trampolines | some 200 wrappers | executor's selector, libc |
| Syscall translation | `grafted-kernel/src/syscall.rs` | none | `translate` | `process_syscall` |
| CFRunLoop | `grafted-frameworks/src/cf/runloop.rs` | modes, common modes, sources, timers, observers, stop flag, stack of entered modes | run, run in mode, stop, signal, add/remove | application loop, guest callbacks, other threads |
| NSNotificationCenter | `grafted-frameworks/src/foundation/notification.rs` | observer list (mutex), default centre | add, remove, post | pasteboard poller, guest observers, method look-up |
| NSApplication | `grafted-frameworks/src/appkit/application.rs` | running and terminated flags, shared object, main window | run, terminate, SwiftUI window and run loop | run loop, display |
| Display | `grafted-frameworks/src/ws/display.rs`, `ws/x11.rs` | connection, window table and its reverse (mutex) | connect, create, show, destroy, poll | X server |
| Objective-C runtime | `grafted-objc/src/runtime.rs` | class and selector tables | register, look up, send | all frameworks |
| Linker, resolver and loader | `grafted-cli/src/main.rs`, `grafted-dyld/src/{linker,resolver,chained_fixups}.rs`, `grafted-loader/src/*.rs` | loaded images, work list, mappings, the program's pointers, which initialisers ran | map, load dependencies, bind, register classes, initialise, execute | executor, registries, Swift runtime |
| CoreFoundation objects | `grafted-frameworks/src/cf/*.rs` | reference counts, containers | create, retain, release | frameworks |
| Swift stubs, drawing, fonts, views | `swift_*.rs`, `cg`, `ct`, `appkit/{view,window,menu,event}.rs` | layouts, pixels | | |

What is hard in this code, and what makes each part correct:

* **Selectors.** One byte per thread decides whether a syscall is Darwin or Linux.
  It is written by the signal handler, by a machine-code trampoline, by every shim,
  and once when guest code starts.  The byte must belong to one thread only, must be
  ALLOW whenever host code runs inside the handler, and BLOCK whenever guest code runs.
* **Crash recovery.** A process-wide jump buffer, a process-wide re-entrance flag and
  handlers that may interrupt themselves.  Jumps must land in frames that exist, the
  call must end, and nothing of the recovery may survive it.
* **Ports.** Rights and queues under names that are created implicitly, dropped and
  reused; u32 and i32 arithmetic.  Messages must neither disappear nor change order.
* **Pasteboard.** Three pieces of state (clipboard, count, last content) that are updated
  one at a time by guest threads and by a poller while other applications write the first.
* **Run loop.** Callbacks register, remove, signal, stop and run the loop again while the
  loop walks copies of its registries; other threads signal and stop.  All nested runs share
  one stop flag and one stack of modes.
* **Notifications.** Observers are called from a copy of the list, outside the mutex, and
  change the list or post again.  Methods are found by selector pointer or by name while
  names are interned.
* **Application and display.** The loop handles a batch of events after it has released the
  mutex; other threads close the windows the batch names.  The loop runs inside its own callbacks.
* **Launch.** Dependencies may be circular, missing or broken; mappings are made with
  `MAP_FIXED`; three formats describe what to bind; class records are rewritten in place
  between the reader that wants them old and the one that wants them new.

`PROJECT.json` lists the hazards line by line, with the properties that cover them.

## Modules

Each component has a module with its state and actions, an `MC` module with the model
values, and a `_proofs` module with the theorems.  Operators whose names end in a lower
case remark after an underscore (`send_msg_front`, `Disarm_missing`, ...) and that are
introduced as mutants are variants of the action below them; they are not part of the
specification and serve to show that a property can fail.

### MachIPC

State: `ports` (a function defined on the live names), `next_name`, and history
variables for the fate of each message.  Every public function of `mach_ipc.rs` holds
the `PORT_SPACE` mutex throughout, so a call is one action, whichever thread makes it;
a combined send and receive is also one action and the receive phase works on the
namespace the send phase left.  `IncName`, `IncCount` and `AddI32` compute as the
release build does; their widths are the constants `NameMod` and `CountHalf`.  A message
is its identity.  The guest may call `mach_port_insert_right` under names it was never
given, which the code accepts; the history variable `invented` remembers them.

### SudSelector

State: the published selector page, the slot counter, all selector bytes, and for each
thread its `THREAD_SELECTOR`, the byte its trampoline sets, the byte registered with
prctl and a program counter.  A step is one access to what another thread or the kernel
can see: the load of `SELECTOR_PAGE`, the compare-exchange, the fetch_add, each store to
a selector byte, each syscall.  The kernel (external) traps a syscall exactly when the
registered byte is BLOCK; a trap while SIGSYS is masked kills the process.  Guest code
can call bracketed shims, create threads, be called back inside a bracket (`MaxDepth`),
call libc through `gen_trampoline` (the threads in `Loose`) and receive a SIGSYS that SUD did not
raise (the threads in `Signalled`).  Threads of the host that run guest callbacks never set up SUD.

### Pasteboard

State: the desktop's clipboard, `CHANGE_COUNT`, `LAST_CONTENT` and its mutex, the poller,
and for each guest thread its call and what it knows of the clipboard.  `Copy` is another
application (external).  Reading and writing go through subprocesses that may fail
(`MaxFails`); a writer that was started but failed is reported as success, as in the code.
Observers of the change notification run on the polling thread and may make any
pasteboard call.  The watcher (`ChangeCount`, `StringForType`) is the way the API is
meant to be used: read the count, and the text when the count moved.

### LifecycleRecovery

State: the flags of `executor.rs`, whether the buffer is filled, the patches and their
flag, and for each thread a program counter and a stack of interrupted places
(`SA_NODEFER`: the handler can interrupt itself).  The statements of
`grafted_swiftui_run_loop` and `grafted_try_call` are one action each and belong to the
stack frame, so a thread that jumps into the frame executes them too.  The handler takes a step
for each flag it reads or writes.  A crash is one of
four kinds, which is all the handler tells apart.  `wild` is the state after a jump to a
frame that does not exist; what happens then is undefined and the model stops.  The history
variable `crashers` holds the threads that crashed or called `abort`.

### RunLoop

The loop of one thread.  `frames` is the stack of `CFRunLoopRunInMode` calls in progress,
each with its mode, its arguments and where it is: firing the observers of an activity,
walking the copy of its sources, between clearing a source's flag and calling it
(`"perform"`), walking its timers, waiting, or inside a callback.  Registries are kept per
mode, as sets: the order of registration becomes a free choice at each dispatch.  A
registration in the common modes goes to the modes that are common at that moment, as in
the code.  In a callback the guest registers, removes and runs the loop again; other threads
only signal and stop, at any time.  `epoll_wait` watches an empty set, so a wait ends by its
time-out, and one without time-out only when a signal handler interrupts it
(`WaitInterrupted`, without fairness).  History: `pending` (signalled since `perform` last
began), and in each frame `duty` (what was ready when the run began and is still to be
dispatched) and `gone` (in the snapshot, removed from the mode since).

### Application

NSApplication and the display connection.  Each function of `display.rs` holds the mutex
throughout and is one step; `ns_application_run` and `grafted_swiftui_create_window` are
several.  Opening the display and creating the window, the first two of the latter, are one step:
an open display is never closed.  The X server (external) keeps the windows it knows and a queue of events per
connection; a request for a destroyed window sets `xerror`, because Xlib's default error
handler exits.  One iteration of the CFRunLoop is the time during which guest code runs on
the main thread; what happens inside is the subject of RunLoop.  Worker threads execute guest code all the
time.

### DylibResolver, Launch, ProgramStart

`DylibResolver` has the search for a library's file as pure operators.  `Launch` is `main`
from parsing to the jump into the program: mapping, `load_dependencies` with its work list,
binding by opcodes, chained fixups or indirect symbols, registration of classes,
initialisers, the Swift passes, and `execute`.  What the files hold is constant; which of
them exist and can be parsed, what kind of file the program is and which format it uses is
chosen at the start.  An address stands for the range of one image.  Files may have the same
fixed address, which may also be one the kernel finds for a slid image as long as it is free:
`map_binary` maps with `MAP_FIXED` over what is there, as the code does.  Finding a range, giving it up and mapping
it is one step, since `main` is the only thread.  `Slots` are the program's pointers; `NLSections` and `Indirect` are the
sections of non-lazy pointers and the indirect symbol table, of which `bind_nl_symbol_ptrs`
uses the last section and the entries from the first one on.  Iteration over a HashMap is a
free choice.

`ProgramStart` is the abstract specification: a program goes through the stages loading,
linking, initialising, ready, running; pointers are written while linking only, and all
that the file describes are bound when it ends; classes are registered before initialisers run,
each initialiser runs once and the program's last; class records are announced to Swift only
in its own layout, and read by the Objective-C runtime only in the old one; failure is possible until registration
begins and after the initialisers, not in between.  The mapping: `stage` is computed from
`pc`, `open` is the set of described slots that still hold the raw value, `known` and `done`
are `classes` and `inits`, and `ptr`, `layout` and `announced` are the variables of the same name:
exchanging the two Swift passes, for instance, is not a behaviour of `ProgramStart`.  `layout`
is that of the records `translate_swift_metadata` recognises by their description pointer.

### Notifications

The observer list and its mutex, the default centre, the interned selectors, and for each
thread a stack of calls, since an observer's method may call the centre.  The list is a set of
registrations with their numbers: new ones are appended and removal keeps the order, so the
numbers are the order.  A post takes the
lock, copies what matches, releases the lock and calls one observer after the other; the
history in a call records which registrations existed at some time during the post, which
all the time, and which it called.  The pasteboard's poller is a thread that begins nothing
but posts, which is what Pasteboard's poller does at `"post"`.

## Runs

| Run | Instance | Shows |
|---|---|---|
| `mach_ports` | 5 names, counts modulo 4, 2 messages, invented names | types; `InvalidIffAbsent`, `OrderedDelivery`, `DeadNamesHoldNothing`; until a name is invented `NoSilentLoss`, and before the counter wraps `AllocateFresh` |
| `sud_signals` | main, a created and a host thread, two slots, callbacks, imports, foreign SIGSYS | types; `OwnSelector`, `SlotsNotWasted`, `HandlerNeverTraps`; for threads outside `Signalled` and `Loose`: `SigreturnAllowed`, `GuestTrapped`, `TrapAnswered` |
| `sud_foreign_sigsys` | a created thread gets a foreign SIGSYS | **violates** `SigreturnAlways` |
| `pasteboard` | one guest thread with one call that counts, observers with two, one copy, one failure | `NoMissedChange`, `ChangeIsAnnounced`, `CallsReturn` |
| `pasteboard_double_count` | no failures | **violates** `PollerSkipsOwnWrites` |
| `lifecycle` | main and a second thread, two skips, two nested activations | types; `CleanAfter`, `PatchedImpliesActive`, `LifecycleEnds`; while only main has crashed `NoWildJump` |
| `lifecycle_cross_thread` | main and a second thread | **violates** `FalseMeansCrashed` |
| `lifecycle_nested` | main alone | **violates** `NestedStopsAtGuard` |
| `run_loop` | a source, a timer, an observer, runs nested twice, one stop | `ModeStackMatches`, `NoSignalLost`, `DispatchesOwnMode`, `ReadyIsServed`, `StopEndsOneRun`, `RunsEnd` |
| `application` | main and a worker, two windows, two waiting events, loops nested twice | `MapsInverse`, `NoBadWindow`, `CloseNotLost`, `IsRunningTruthful`, `TerminateEnds`, `CloseEnds` |
| `launch` | six files with a circle and a shared address, every subset missing or broken, three formats, seven slots | `DependenciesSettled`, `PointersAsAsked`, the refinement `StartsProperly`, `LaunchEnds` |
| `notifications` | a guest thread and a poller, five calls, nested twice | `DeliveryWindow`, `OneCenter`, `CallsReturn` |

The four violations are disagreements between a comment in the code and what the code
does; `PROJECT.json` quotes the comments under "findings".

*Bounds.*  Ports: two user names and a special one suffice for every pair of names a call
can relate (send here, receive there; drop one, make the other), and a count modulo 4 lets
`send_count as i32 + delta` wrap on both sides.  Two messages are the least for an order.
`insert_right` stops below the wrap of `send_count`, which takes 2^32 calls.  Selectors: two
slots for three threads reach the assertion of `alloc_thread_selector`, and the race for the
page needs the main thread and one host thread, since a created thread is started by a shim
that already has a selector.  Pasteboard: a copied text between a poll's read and its
comparison is the case the count exists for.  `MaxCount` says up to which count a thread
begins calls, while polls go on: the guest may make the first change, and an observer, which
the poller calls after it has counted one, the next, so calls that take the mutex are made
from the polling thread while it announces a change.  Recovery: the skip limit is reached, and two
nested activations show both the guarded and the unguarded re-entry.  Run loop: two runs are
enough for one run to disturb another; one source and one timer can each be in either's
snapshot; the clock reaches the timer's date; a run is of the default mode (returning after
one dispatch, or by `CFRunLoopRun`) or of the tracking mode, and the program makes a mode of
its own common, so that the timer is registered in two or three modes.  Application: two windows let one be closed while the
other has events; events are Expose, which makes requests, and Close, which ends the loop.
Launch: the circle A, B and a library that different loaders find in
different places; an import of each kind (library, weak, replaced by suffix match, class,
host); a slot whose format is not supported and one whose import does not exist; a region of
two for slid images, one of them the fixed address that two other libraries share; two
sections of non-lazy pointers, the last longer than the indirect table, with an entry that
names no symbol and entries for pointers that `bind` has written.  Notifications: five calls allow add, post, and from its method remove,
add or post again, next to a post of the poller.  There is no symmetry reduction, because
most runs check liveness or have a distinguished thread.

*Deadlock.*  TLC checks for it except in the runs of LifecycleRecovery, where the process
exits, in `launch`, where main's part is over when the program runs or is refused, and in `notifications`,
where the bound on calls lets every thread finish; there `CallsReturn` rules out that threads
wait for each other.  SudSelector stutters explicitly once the process is gone.

*Fairness.*  SudSelector: weak fairness of the handler and trampoline steps, which wait for
nothing.  Pasteboard: weak fairness of the poller, an endless loop; strong fairness of a
call in progress, because a call that waits for the mutex finds it free again and again
while the poller sleeps for half a second, and Rust's futex mutex lets it in.
LifecycleRecovery: weak fairness of each thread.  The code inside the lifecycle call is
assumed to do something (return, crash or abort) and may crash forever; what bounds it is
the skip limit.  RunLoop: weak fairness of the loop's own steps (the thread is scheduled, a
wait with a time-out ends) and strong fairness of the return of a callback at each depth:
a callback may run the loop any number of times, but it returns in the end.  Application:
weak fairness of the main thread's loop and of the window function it is in, and strong
fairness of the CFRunLoop iteration's return at each depth, for the same reason; nothing is
assumed of workers, server or user.  Launch: weak fairness of `main`, which runs alone.  Notifications: weak fairness
of each thread inside a call; methods return when they make no more calls, and `MaxCalls`
leaves finitely many.

## Proofs

All theorems hold for every value of the constants that satisfies the named assumptions
(`MachAssumption`, `SudAssumption`, `PasteboardAssumption`, `RecoveryAssumption`,
`RunLoopAssumption`, `ApplicationAssumption`, `LaunchAssumption`, `NotificationsAssumption`),
in particular for any number of threads, names, messages, windows, files and nested calls.
Some have a hypothesis more: those on fresh names and lost messages ask that the name counter
does not reach its end (`MaxNext < NameMod - 1`), and `RoomForEveryThread` that a page has a
slot for every thread.

* **MachIPC_proofs.**  `TypeCorrect`; then `RightsConsistent`, `DeliveryInOrder` and
  `DeadNamesStayEmpty` from an invariant that says of the namespace that every live port
  holds a right, dead ports are empty, and each queue is sorted and younger than what was
  received before.  The lemmas state what storing, making, dropping, sending and receiving do to
  such a namespace; a combined send and receive applies two of them.  `AllocateIsFresh` adds that live
  names are below `next_name`, which holds until a name is invented and the counter wraps.
  On the same conditions rest `NothingLostSilently` and `EndsAreFinal`: an accepted message is
  in one queue until it is received or discarded (`NoLossIn`; that an id is only once in a
  queue follows from the order of the queue), and what has ended is never queued again, so a
  message is delivered at most once.
* **SudSelector_proofs.**  `OwnSelector` is not inductive: one needs that a thread past the
  page has the *published* page (`PageReady`), that a thread without selector has not got one
  by another way (`NoSelectorYet`), and that slots below the counter only are taken
  (`SlotsTaken`).  Then selectors are distinct (`Distinct`), the registered byte and the
  trampoline's byte are the thread's own (`Registered`), and no other thread can undo the
  handler's ALLOW (`HandlerAllowed`).  `SigreturnIsAllowed` is about threads that
  get no foreign SIGSYS, and `GuestIsTrapped` about those of them that make neither unbracketed
  calls nor callbacks: the violated run and the hazards show that the restrictions are needed.
  `NoSlotIsWasted` counts: a thread takes a slot only while it has no selector, so the counter
  and the set of threads with a selector grow together; `RoomForEveryThread` draws the
  conclusion that `alloc_thread_selector` panics only with more threads than slots.
* **Pasteboard_proofs.**  `WatcherMissesNothing`: a watcher is stale only after a call that
  has not counted yet (`StaleAfterCall`) or after a copy that `LAST_CONTENT` does not have
  (`StaleAfterCopy`); `CountsKnown` and `CopiesOld` say that counts and copied texts only move
  forward.
* **LifecycleRecovery_proofs.**  The argument is about the places a thread still has before
  it, `On(t, l)`: its program counter or an entry of its stack.  Each statement after the
  retry loop establishes one conjunct of `CleanAfter`, and nothing can take it back, because
  only the main thread runs the code before the call (`CallIsMain`) and it is past it as soon as the
  buffer is filled (`FilledIsLate`).  `JumpsLandInLiveFrames` holds for any number of
  threads as long as only the main thread has crashed (`JumpInv`): what the handler checked
  still holds when it jumps.  `SitesAreBounded` is the type invariant with its bound on the
  crash sites.  The sites alone are not inductive: several threads and nested activations may
  have been allowed to skip and not have recorded their site yet.  `Budget` counts these places
  too (`Granted`): sites and grants together are within `skip_count` and within the limit.
  `NoneEarly` says that nothing is granted or about to be when turning the skip mode on clears
  the counters.
* **RunLoop_proofs.**  `Inv`: the stack of modes has the length of the stack of frames and
  agrees with it (`InStep`), no signal is lost, and what a frame has in hand - its copy and
  the item in dispatch - is in its mode or was taken out of it since (`Good`).  The copy has
  to be in the invariant, because what is dispatched later comes from it.  `TopMoves`
  covers the steps of the innermost run, `Popped` and `Entered` the changes of the stack,
  `AddGrows` and `RemoveShrinks` those of the registries.  From it follow
  `StackIsThatOfTheRuns`, `SignalsAreKept` and `RunsServeTheirMode`; `LoopTypesHold` is the
  type invariant.  `OneStopEndsOneRun`: the frames that end as stopped are a finite set that
  gains a member only when the flag is taken down (`Counts`).  `ReadyServedBeforeWaiting`
  follows a run's duty through its phases (`Duties`): it is in the mode, then in the snapshot,
  and empty when the run gets as far as waiting.  A nested run can serve an outer one's duty,
  so a source in it is signalled or being performed (`Flagged`), and a timer whose callback runs is
  no enclosing run's duty any more (`InTimer`), because its date may move.
* **Application_proofs.**  `Table` adds to `MapsInverse` that ids are handed out once and
  that the server knows every window of the maps; each function of `display.rs` keeps it.
  Then `RequestsReachLiveWindows`: a request is made under the mutex for a window of the
  table.  `Truth` says where the flags can differ from the depth of the loops.
  `CloseIsNotLost` (`Wishes`): a wish is in the queue under the X name of its window, and
  `poll_events` translates it to the same window because the two maps are inverse.
* **Launch_proofs.**  `Types` (with what a look-up can return), then three arguments.  The
  refinement `LaunchRefinesProgramStart` needs `Progress` (the slots before the one under way
  that the format describes are bound), `Phases` (what is registered and initialised at each place of `main`) and
  `Unannounced`; `StepImplements` has one step per action of `Launch`.  `PointersAreAsAsked`
  follows the passes: the table of resolved imports answers them one for one (`Table`), and a
  pointer holds what its pass makes of it once the pass has been there and what it held before
  until then (`SoFar`); that the passes reach every entry (`PassesReachAll`) makes it `Final`.
  The answers do not change with the steps that follow, because no library is loaded any more
  (`AnswersKept`).  That a pointer leads to a file with its address is `Mapped`: a slid image is
  mapped in a free range only, and a fixed one over files that have the same address.  No
  assumption says that addresses differ.  `NoDependencyForgotten`: what an image depends on
  moves from the work list to the settled names and never back.
* **Notifications_proofs.**  `CenterIsUnique`: `OneCenter` is inductive; only the three ways
  out of `defaultCenter` touch it.  `PostsDeliver` (`Window`): every post in every stack of
  calls is a `GoodCall`.  What it still has to call is registered later than what it has called
  (`InOrder`), its history is that of the list (`History`), and what it owes is called or
  still to be called (`Promised`).  That a method is found whichever pointer its selector is
  needs that the selectors interned before the program started keep theirs (`Interned`).

Every invariant, every action property and the refinement that a passing run checks is proved.
Only model-checked, because they need fairness: `TrapAnswered`, `ChangeIsAnnounced`,
`CallsReturn` (twice), `LifecycleEnds`, `RunsEnd`, `TerminateEnds`, `CloseEnds`, `LaunchEnds`.
The four violated runs are counterexamples, which is what TLC is for.  Where a model counted or
filtered sequences it was put so that the provers can follow without induction: the observer
list is a set of numbered registrations, whose order is that of the numbers, and a batch of
events keeps an event that nothing is done for in the place of one that `poll_events` drops.

## Not modelled

Guest memory (the red zone below RSP, the pushed return address), the bytes of messages and
images, segment protections, the TLV image, the argument translation of the shims, the guest
stack, and the patching of the Go runtime.  `install_swift_retain_hooks` changes nothing the
launch's model keeps.  `swift_once_lifecycle` in `registry.rs` also calls `grafted_try_call`,
and `render_view_tree` draws, but nothing refers to either.  The search for a SwiftUI body
getter and the view tree are analyses of memory.  `sigaltstack` is installed for one thread
only; the model gives every thread a working handler stack.  SudSelector leaves out that
`mmap` or `prctl` can fail and the low addresses whose syscalls are never trapped;
Notifications leaves out selector pointers that are not names (the tests on address, encoding
and length in `grafted_lookup_method`); Pasteboard's copied texts do not come back.  The syscall table maps numbers
to numbers and keeps no state.  CoreFoundation containers are sequential.  Rendering, fonts,
views, Swift metadata layouts and static tables have no protocol to check.

Known weak points of the code that no property covers: `send_count` wraps after 2^32 rights;
a trap pushes its return address into the red zone; a guest handler that returns by
`rt_sigreturn` under BLOCK; a clipboard text that is replaced and comes back within half a
second is not counted; the guard's jump leaves `IN_HANDLER` set; method look-up ignores
superclasses; a nested run can set a timer's date back; two first callers of
`shim_pthread_once`; two first callers of `sharedApplication`; initialisers of libraries run
in the order of a HashMap; look-ups of symbols in slid libraries give unslid addresses; a file
whose fixed address is taken replaces what is mapped there; only the last section of non-lazy
pointers is bound, by a table read from its first entry whatever the section says
(`reserved1`), so that a pointer can be given another symbol than its own.

## Where to go on

1. `PthreadOnce` (the translated control word, two first callers) and the signal shims,
   composed with SudSelector.
2. `Syscall`: class dispatch and number table as operators, against a reference relation.
3. An abstract FIFO channel implemented by `MachIPC`, for which `NothingLostSilently`,
   `DeliveryInOrder` and `EndsAreFinal` are the lemmas.
4. Application and RunLoop composed: the CFRunLoop iteration of the event loop as the run of
   RunLoop in the default mode.
