----------------------------- MODULE Application -----------------------------
(***************************************************************************)
(* NSApplication's event loop and the window table it feeds from           *)
(* (grafted-frameworks/src/appkit/application.rs, appkit/window.rs,        *)
(* ws/display.rs, ws/x11.rs).                                              *)
(*                                                                         *)
(* The main thread runs the loop: poll the X11 connection, handle the      *)
(* batch, run the CFRunLoop once.  In that run, and before and after the   *)
(* loop, it executes guest code, which calls the window functions; worker  *)
(* threads execute guest code all the time.  Every function of display.rs  *)
(* holds the DISPLAY mutex for its whole body and is one step.  One        *)
(* iteration of the CFRunLoop is what module RunLoop describes; here it is *)
(* the time during which callbacks of the guest run.                       *)
(***************************************************************************)
EXTENDS Integers, Sequences, FiniteSets

CONSTANTS
  Main, Workers,
  XIDs,        \* the X11 resource ids the server hands out
  Kinds,       \* bound: the kinds of X11 events the server sends
  MaxQueue,    \* bound: X11 events waiting on the connection
  MaxRuns,     \* bound: nesting of -[NSApplication run]
  Null

Thread   == {Main} \cup Workers
MaxId    == Cardinality(XIDs)
WindowID == 0 .. MaxId           \* 0: what an NSWindow without X11 window holds
XEvent   == [type : {"EXPOSE", "CLOSE", "ESCAPE", "OTHER"}, xwin : XIDs]
Event    == [type : {"Expose", "WindowClose", "Escape", "Other"}, window : WindowID]

ASSUME ApplicationAssumption ==
  /\ Main \notin Workers /\ IsFiniteSet(XIDs)
  /\ MaxQueue \in Nat /\ MaxRuns \in Nat /\ Null \notin Thread \cup XIDs

VARIABLES
  x11lib,     \* does libX11.so.6 load?  Decided once
  display,    \* is the connection open?
  windows,    \* WindowID -> X11 window (`visible` is never read)
  x11_to_id,  \* the reverse map
  next_id,
  server,     \* X11 window -> "live" or "destroyed", on the server
  queue,      \* events on the connection
  batch,      \* translated events not yet handled
  main_id,    \* MAIN_WINDOW_ID: 0 or the SwiftUI window
  main_ctx,   \* MAIN_WINDOW_CTX: does it have a drawing context?
  app,        \* SHARED_APP: Null or the thread whose object it is
  running,    \* APP_RUNNING
  terminated, \* APP_TERMINATED
  depth,      \* ns_application_run calls in progress
  pc, after,  \* per thread: where it is, and what follows ns_application_shared
  arg,        \* per thread: the id grafted_swiftui_create_window works on
  asked,      \* history: the windows the user asked to close
  xerror      \* history: a request named a window that is gone

win  == <<windows, x11_to_id, next_id, server>>
vars == <<x11lib, display, windows, x11_to_id, next_id, server, queue, batch, main_id, main_ctx, app,
          running, terminated, depth, pc, after, arg, asked, xerror>>

PC == {"guest", "shared", "show", "flush", "store", "no_ctx", "ctx", "null_ctx",
       "run", "test", "poll", "handle"}
Goto(t, l) == pc' = [pc EXCEPT ![t] = l]

Without(f, k) == [i \in DOMAIN f \ {k} |-> f[i]]
With(f, k, v) == [i \in DOMAIN f \cup {k} |-> IF i = k THEN v ELSE f[i]]

(* X11Lib::load: the library and all its symbols, or none, once for all. *)
X11Load == x11lib \in BOOLEAN

Init ==
  /\ X11Load
  /\ display = FALSE
  /\ windows = <<>> /\ x11_to_id = <<>> /\ next_id = 1
  /\ server = <<>>
  /\ queue = <<>> /\ batch = <<>>
  /\ main_id = 0 /\ main_ctx = FALSE /\ app = Null
  /\ running = FALSE /\ terminated = FALSE /\ depth = 0
  /\ pc = [t \in Thread |-> "guest"]
  /\ after = [t \in Thread |-> "guest"]
  /\ arg = [t \in Thread |-> 0]
  /\ asked = {} /\ xerror = FALSE

-----------------------------------------------------------------------------
(* ws/display.rs *)

(* init_display: opens the connection, which may fail, unless it is open. *)
init_display ==
  \/ x11lib /\ display' = TRUE
  \/ ~display /\ display' = FALSE

(* The id of the next X11 window: one the server has not used.  External. *)
NewXid == CHOOSE x \in XIDs : x \notin DOMAIN server

(* Mutant: the reverse map is not filled. *)
create_window_unmapped(id, x) ==
  /\ windows' = With(windows, id, x)
  /\ server' = With(server, x, "live")
  /\ next_id' = next_id + 1
  /\ UNCHANGED x11_to_id

create_window(id, x) ==
  /\ windows' = With(windows, id, x)
  /\ x11_to_id' = With(x11_to_id, x, id)
  /\ server' = With(server, x, "live")
  /\ next_id' = next_id + 1

(* An X11 request on the window behind id, sent only if id is in the map. *)
Request(id) ==
  xerror' = (xerror \/ (id \in DOMAIN windows /\ server[windows[id]] # "live"))

(* show_window and hide_window; flush_window. *)
show_window(id)  == Request(id) /\ UNCHANGED win
flush_window(id) == Request(id) /\ UNCHANGED win

(* Mutant: the entry stays in windows. *)
destroy_window_kept(id) ==
  /\ Request(id)
  /\ IF id \in DOMAIN windows
     THEN /\ x11_to_id' = Without(x11_to_id, windows[id])
          /\ server' = [server EXCEPT ![windows[id]] = "destroyed"]
     ELSE UNCHANGED <<x11_to_id, server>>
  /\ UNCHANGED <<windows, next_id>>

destroy_window(id) ==
  /\ Request(id)
  /\ IF id \in DOMAIN windows
     THEN /\ windows' = Without(windows, id)
          /\ x11_to_id' = Without(x11_to_id, windows[id])
          /\ server' = [server EXCEPT ![windows[id]] = "destroyed"]
     ELSE UNCHANGED <<windows, x11_to_id, server>>
  /\ UNCHANGED next_id

(* poll_events: every pending event, translated.  One of an unknown window *)
(* is dropped: in its place the batch has an event nothing is done for.    *)
Dropped == [type |-> "Other", window |-> 0]

Translate(e) ==
  IF e.xwin \in DOMAIN x11_to_id
  THEN [type |-> CASE e.type = "EXPOSE" -> "Expose" [] e.type = "CLOSE" -> "WindowClose"
                   [] e.type = "ESCAPE" -> "Escape" [] OTHER -> "Other",
        window |-> x11_to_id[e.xwin]]
  ELSE Dropped

poll_events == [i \in DOMAIN queue |-> Translate(queue[i])]

(* The X server: the user, the window manager and expose events.  External. *)
XServer ==
  /\ Len(queue) < MaxQueue
  /\ \E e \in XEvent :
       /\ e.type \in Kinds /\ e.xwin \in DOMAIN server /\ server[e.xwin] = "live"
       /\ queue' = Append(queue, e)
       /\ asked' = IF e.type = "CLOSE"
                   THEN asked \cup {id \in DOMAIN windows : windows[id] = e.xwin} ELSE asked
  /\ UNCHANGED <<x11lib, display, win, batch, main_id, main_ctx, app, running, terminated, depth,
                 pc, after, arg, xerror>>

-----------------------------------------------------------------------------
(* Window functions that guest code calls, on any thread. *)

(* grafted_swiftui_create_window: open the display, create the window and  *)
(* a drawing context, which fails for an empty size, ...  The display and  *)
(* the window take the lock one after the other; they are one step because *)
(* a display that is open is never closed.                                 *)
grafted_swiftui_create_window(t) ==
  /\ pc[t] = "guest"
  /\ init_display
  /\ IF display'
     THEN /\ XIDs # DOMAIN server
          /\ create_window(next_id, NewXid)
          /\ arg' = [arg EXCEPT ![t] = next_id]
          /\ Goto(t, "show") \/ Goto(t, "no_ctx")
     ELSE UNCHANGED <<win, pc, arg>>
  /\ UNCHANGED <<x11lib, queue, batch, main_id, main_ctx, app, running, terminated, depth,
                 after, asked, xerror>>

(* ... show and flush it, each under the lock of its own, ... *)
CreateShows(t) ==
  /\ pc[t] = "show"
  /\ show_window(arg[t])
  /\ Goto(t, "flush")
  /\ UNCHANGED <<x11lib, display, queue, batch, main_id, main_ctx, app, running, terminated, depth,
                 after, arg, asked>>

CreateFlushes(t) ==
  /\ pc[t] = "flush"
  /\ flush_window(arg[t])
  /\ Goto(t, "store")
  /\ UNCHANGED <<x11lib, display, queue, batch, main_id, main_ctx, app, running, terminated, depth,
                 after, arg, asked>>

(* ... and make it the main window: its id first, ... *)
StoreId(t) ==
  /\ pc[t] \in {"store", "no_ctx"}
  /\ main_id' = arg[t]
  /\ arg' = [arg EXCEPT ![t] = 0]
  /\ Goto(t, IF pc[t] = "store" THEN "ctx" ELSE "null_ctx")
  /\ UNCHANGED <<x11lib, display, win, queue, batch, main_ctx, app, running, terminated, depth,
                 after, asked, xerror>>

(* ... then its context: in between, another window's context is used. *)
StoreCtx(t) ==
  /\ pc[t] \in {"ctx", "null_ctx"}
  /\ main_ctx' = (pc[t] = "ctx")
  /\ Goto(t, "guest")
  /\ UNCHANGED <<x11lib, display, win, queue, batch, main_id, app, running, terminated, depth,
                 after, arg, asked, xerror>>

(* -[NSWindow initWithContentRect:...]: no window unless the display is open. *)
ns_window_init(t) ==
  /\ pc[t] = "guest" /\ display /\ XIDs # DOMAIN server
  /\ create_window(next_id, NewXid)
  /\ UNCHANGED <<x11lib, display, queue, batch, main_id, main_ctx, app, running, terminated, depth,
                 pc, after, arg, asked, xerror>>

(* makeKeyAndOrderFront: and orderOut:, display, close; the id may be that *)
(* of a window closed long ago.                                            *)
NSWindowCall(t, id) ==
  /\ pc[t] = "guest" /\ display
  /\ \/ show_window(id)
     \/ flush_window(id)
     \/ destroy_window(id)
  /\ UNCHANGED <<x11lib, display, queue, batch, main_id, main_ctx, app, running, terminated, depth,
                 pc, after, arg, asked>>

-----------------------------------------------------------------------------
(* appkit/application.rs *)

(* +[NSApplication sharedApplication], called for what comes next: load,   *)
(* and when there is none, allocate and store without looking again.       *)
ns_application_shared(t, next) ==
  /\ after' = [after EXCEPT ![t] = IF app = Null THEN next ELSE "guest"]
  /\ Goto(t, IF app = Null THEN "shared" ELSE next)

CallShared(t) ==
  /\ pc[t] = "guest"
  /\ ns_application_shared(t, "guest")
  /\ UNCHANGED <<x11lib, display, win, queue, batch, main_id, main_ctx, app, running, terminated,
                 depth, arg, asked, xerror>>

SharedStores(t) ==
  /\ pc[t] = "shared"
  /\ app' = t
  /\ init_display
  /\ Goto(t, after[t])
  /\ after' = [after EXCEPT ![t] = "guest"]
  /\ UNCHANGED <<x11lib, win, queue, batch, main_id, main_ctx, running, terminated, depth,
                 arg, asked, xerror>>

(* NSApplicationMain: the body getter is guest code; then shared and run.  *)
NSApplicationMain ==
  /\ pc[Main] = "guest" /\ depth < MaxRuns
  /\ ns_application_shared(Main, "run")
  /\ UNCHANGED <<x11lib, display, win, queue, batch, main_id, main_ctx, app, running, terminated,
                 depth, arg, asked, xerror>>

(* grafted_swiftui_run_loop: draw the main window, make the lifecycle call *)
(* (module LifecycleRecovery), then shared and run.  For a delegate method *)
(* outside the expected addresses it returns after the call.               *)
grafted_swiftui_run_loop ==
  /\ pc[Main] = "guest" /\ depth < MaxRuns
  /\ IF main_id # 0 /\ main_ctx THEN flush_window(main_id) ELSE UNCHANGED <<win, xerror>>
  /\ \/ ns_application_shared(Main, "run")
     \/ UNCHANGED <<pc, after>>
  /\ UNCHANGED <<x11lib, display, queue, batch, main_id, main_ctx, app, running, terminated, depth,
                 arg, asked>>

(* -[NSApplication run] *)
ns_application_run ==
  /\ pc[Main] = "run"
  /\ running' = TRUE
  /\ depth' = depth + 1
  /\ Goto(Main, "test")
  /\ UNCHANGED <<x11lib, display, win, queue, batch, main_id, main_ctx, app, terminated, after, arg,
                 asked, xerror>>

(* Mutants: the flag stays up at the end of the loop; the loop looks at    *)
(* APP_RUNNING instead of APP_TERMINATED.                                  *)
TestTerminated_unreset ==
  /\ pc[Main] = "test"
  /\ IF terminated
     THEN depth' = depth - 1 /\ Goto(Main, "guest")
     ELSE Goto(Main, "poll") /\ UNCHANGED depth
  /\ UNCHANGED <<x11lib, display, win, queue, batch, main_id, main_ctx, app, running, terminated,
                 after, arg, asked, xerror>>
TestTerminated_running ==
  /\ pc[Main] = "test"
  /\ IF ~running
     THEN depth' = depth - 1 /\ Goto(Main, "guest")
     ELSE Goto(Main, "poll") /\ UNCHANGED depth
  /\ UNCHANGED <<x11lib, display, win, queue, batch, main_id, main_ctx, app, running, terminated,
                 after, arg, asked, xerror>>

TestTerminated ==
  /\ pc[Main] = "test"
  /\ IF terminated
     THEN running' = FALSE /\ depth' = depth - 1 /\ Goto(Main, "guest")
     ELSE Goto(Main, "poll") /\ UNCHANGED <<running, depth>>
  /\ UNCHANGED <<x11lib, display, win, queue, batch, main_id, main_ctx, app, terminated, after, arg,
                 asked, xerror>>

Poll ==
  /\ pc[Main] = "poll"
  /\ IF display THEN batch' = poll_events /\ queue' = <<>> ELSE UNCHANGED <<batch, queue>>
  /\ Goto(Main, "handle")
  /\ UNCHANGED <<x11lib, display, win, main_id, main_ctx, app, running, terminated, depth, after, arg,
                 asked, xerror>>

(* Mutant: only the main window's close button counts. *)
Terminates_main(e) == e.type = "Escape" \/ (e.type = "WindowClose" /\ e.window = main_id)

Terminates(e) == e.type \in {"WindowClose", "Escape"}

(* The next event of the batch: an Expose is answered with the main        *)
(* window's contents whichever window it is for.                           *)
HandleEvent ==
  /\ pc[Main] = "handle" /\ batch # <<>>
  /\ LET e == Head(batch)
     IN  /\ terminated' = (terminated \/ Terminates(e))
         /\ IF e.type = "Expose" /\ main_ctx
            THEN flush_window(e.window) ELSE UNCHANGED <<win, xerror>>
         /\ batch' = Tail(batch)
  /\ UNCHANGED <<x11lib, display, queue, main_id, main_ctx, app, running, depth, pc, after, arg, asked>>

(* The batch is done: into CFRunLoopRunInMode, whose callbacks are guest   *)
(* code, ...                                                               *)
BatchDone ==
  /\ pc[Main] = "handle" /\ batch = <<>>
  /\ Goto(Main, "guest")
  /\ UNCHANGED <<x11lib, display, win, queue, batch, main_id, main_ctx, app, running, terminated,
                 depth, after, arg, asked, xerror>>

(* ... and back to the loop's condition. *)
RunLoopReturns ==
  /\ pc[Main] = "guest" /\ depth > 0
  /\ Goto(Main, "test")
  /\ UNCHANGED <<x11lib, display, win, queue, batch, main_id, main_ctx, app, running, terminated,
                 depth, after, arg, asked, xerror>>

ns_application_terminate(t) ==
  /\ pc[t] = "guest"
  /\ terminated' = TRUE
  /\ UNCHANGED <<x11lib, display, win, queue, batch, main_id, main_ctx, app, running, depth, pc, after,
                 arg, asked, xerror>>

GuestCall(t) ==
  \/ grafted_swiftui_create_window(t) \/ ns_window_init(t)
  \/ (\E id \in WindowID : NSWindowCall(t, id))
  \/ CallShared(t) \/ ns_application_terminate(t)

Finish(t) == CreateShows(t) \/ CreateFlushes(t) \/ StoreId(t) \/ StoreCtx(t) \/ SharedStores(t)

MainLoop == ns_application_run \/ TestTerminated \/ Poll \/ HandleEvent \/ BatchDone

Next ==
  \/ \E t \in Thread : GuestCall(t) \/ Finish(t)
  \/ NSApplicationMain \/ grafted_swiftui_run_loop
  \/ MainLoop \/ RunLoopReturns
  \/ XServer

Spec == Init /\ [][Next]_vars

(* Threads are scheduled, and each run of the CFRunLoop comes to an end    *)
(* (RunLoop!RunsEnd, for callbacks that return and do not sleep).          *)
FairSpec ==
  /\ Spec
  /\ WF_vars(MainLoop) /\ WF_vars(Finish(Main))
  /\ \A d \in 1 .. MaxRuns : SF_vars(depth = d /\ RunLoopReturns)

-----------------------------------------------------------------------------
(* Properties. *)

TypeOK ==
  /\ x11lib \in BOOLEAN /\ display \in BOOLEAN
  /\ DOMAIN windows \subseteq WindowID
  /\ windows \in [DOMAIN windows -> XIDs]
  /\ DOMAIN x11_to_id \subseteq XIDs /\ x11_to_id \in [DOMAIN x11_to_id -> WindowID]
  /\ next_id \in Nat /\ next_id > 0
  /\ DOMAIN server \subseteq XIDs /\ server \in [DOMAIN server -> {"live", "destroyed"}]
  /\ queue \in Seq(XEvent) /\ batch \in Seq(Event)
  /\ main_id \in WindowID /\ main_ctx \in BOOLEAN /\ app \in Thread \cup {Null}
  /\ running \in BOOLEAN /\ terminated \in BOOLEAN /\ depth \in 0 .. MaxRuns
  /\ pc \in [Thread -> PC] /\ after \in [Thread -> {"guest", "run"}]
  /\ arg \in [Thread -> WindowID]
  /\ asked \subseteq WindowID /\ xerror \in BOOLEAN

(* The window table and its reverse map are inverse to each other, and the *)
(* reverse map knows exactly the windows that live on the server: events   *)
(* of a window find it as long as it exists, and no longer.                *)
MapsInverse ==
  /\ \A id \in DOMAIN windows :
       windows[id] \in DOMAIN x11_to_id /\ x11_to_id[windows[id]] = id
  /\ \A x \in DOMAIN x11_to_id :
       x11_to_id[x] \in DOMAIN windows /\ windows[x11_to_id[x]] = x
  /\ \A x \in DOMAIN server : server[x] = "live" <=> x \in DOMAIN x11_to_id

(* No request names a destroyed X11 window, which would be a BadWindow     *)
(* error and the end of the process: not for events of a batch whose       *)
(* window is closed meanwhile by another thread, nor for a window closed   *)
(* twice or while grafted_swiftui_create_window is showing it.             *)
NoBadWindow == ~xerror

(* The user's wish to close a window is not lost: until the application is *)
(* told to terminate the event waits on the connection or in the batch, or *)
(* the window is gone.                                                     *)
CloseNotLost ==
  \A id \in asked :
    \/ terminated
    \/ id \notin DOMAIN windows
    \/ \E i \in DOMAIN queue : queue[i] = [type |-> "CLOSE", xwin |-> windows[id]]
    \/ \E i \in DOMAIN batch : batch[i] = [type |-> "WindowClose", window |-> id]

(* -[NSApplication isRunning] tells the truth, also for a loop nested in a *)
(* callback of the loop: it is up only inside a loop, and down inside one  *)
(* only when that loop is about to end.                                    *)
IsRunningTruthful ==
  /\ running => depth > 0
  /\ depth > 0 /\ ~running => terminated

(* A running application that was told to terminate leaves its loop, every *)
(* nested one included.                                                    *)
TerminateEnds == terminated /\ depth > 0 ~> depth = 0

(* A running application with windows the user wants closed terminates,    *)
(* unless the program closes them first.                                   *)
Unanswered == asked \cap DOMAIN windows # {}
CloseEnds == Unanswered /\ depth > 0 ~> terminated \/ ~Unanswered
=============================================================================
