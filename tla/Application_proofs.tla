-------------------------- MODULE Application_proofs --------------------------
(***************************************************************************)
(* Proofs about Application, for any number of threads, windows and nested *)
(* runs: the window table and its reverse map agree, no request names a    *)
(* window that is gone, a wish to close a window is not lost, and          *)
(* isRunning tells the truth.                                              *)
(***************************************************************************)
EXTENDS Application, SequenceTheorems, TLAPS

(* What the functions of display.rs keep, each under the mutex: the maps   *)
(* are inverse, ids are handed out once, and the server knows every window *)
(* of the maps.                                                            *)
Table ==
  /\ MapsInverse
  /\ next_id \in Nat /\ next_id >= 1
  /\ \A id \in DOMAIN windows : id \in Nat /\ id < next_id
  /\ DOMAIN x11_to_id \subseteq DOMAIN server
  /\ DOMAIN server \subseteq XIDs

LEMMA CreateKeeps ==
  ASSUME Table, NEW x \in XIDs, x \notin DOMAIN server, create_window(next_id, x)
  PROVE  Table'
<1>1. next_id \notin DOMAIN windows BY DEF Table
<1>2. x \notin DOMAIN x11_to_id BY DEF Table
<1>3. /\ DOMAIN windows' = DOMAIN windows \cup {next_id} /\ windows'[next_id] = x
      /\ \A id \in DOMAIN windows : windows'[id] = windows[id]
      BY <1>1 DEF create_window, With
<1>4. /\ DOMAIN x11_to_id' = DOMAIN x11_to_id \cup {x} /\ x11_to_id'[x] = next_id
      /\ \A y \in DOMAIN x11_to_id : x11_to_id'[y] = x11_to_id[y]
      BY <1>2 DEF create_window, With
<1>5. /\ DOMAIN server' = DOMAIN server \cup {x} /\ server'[x] = "live"
      /\ \A y \in DOMAIN server : server'[y] = server[y]
      BY DEF create_window, With
<1>6. next_id' = next_id + 1 BY DEF create_window
<1>7. MapsInverse' BY <1>1, <1>2, <1>3, <1>4, <1>5 DEF Table, MapsInverse
<1> QED BY <1>3, <1>4, <1>5, <1>6, <1>7 DEF Table

LEMMA DestroyKeeps ==
  ASSUME Table, NEW id, destroy_window(id)
  PROVE  Table'
<1>1. CASE id \notin DOMAIN windows
  <2>1. UNCHANGED <<windows, x11_to_id, server, next_id>> BY <1>1 DEF destroy_window
  <2> QED BY <2>1 DEF Table, MapsInverse
<1>2. CASE id \in DOMAIN windows
  <2> DEFINE x == windows[id]
  <2>1. /\ DOMAIN windows' = DOMAIN windows \ {id}
        /\ \A i \in DOMAIN windows \ {id} : windows'[i] = windows[i]
        BY <1>2 DEF destroy_window, Without
  <2>2. /\ DOMAIN x11_to_id' = DOMAIN x11_to_id \ {x}
        /\ \A y \in DOMAIN x11_to_id \ {x} : x11_to_id'[y] = x11_to_id[y]
        BY <1>2 DEF destroy_window, Without
  <2>3. x \in DOMAIN x11_to_id /\ x11_to_id[x] = id /\ x \in DOMAIN server
        BY <1>2 DEF Table, MapsInverse
  <2>4. /\ DOMAIN server' = DOMAIN server /\ server'[x] = "destroyed"
        /\ \A y \in DOMAIN server \ {x} : server'[y] = server[y]
        BY <1>2, <2>3 DEF destroy_window
  <2>5. next_id' = next_id BY DEF destroy_window
  <2> HIDE DEF x
  <2>6. \A i \in DOMAIN windows' : windows'[i] # x BY <1>2, <2>1, <2>3 DEF Table, MapsInverse
  <2>7. \A i \in DOMAIN windows' : windows'[i] \in DOMAIN x11_to_id' /\ x11_to_id'[windows'[i]] = i
        BY <2>1, <2>2, <2>6 DEF Table, MapsInverse
  <2>8. \A y \in DOMAIN x11_to_id' : x11_to_id'[y] \in DOMAIN windows' /\ windows'[x11_to_id'[y]] = y
    <3> SUFFICES ASSUME NEW y \in DOMAIN x11_to_id'
                 PROVE  x11_to_id'[y] \in DOMAIN windows' /\ windows'[x11_to_id'[y]] = y
        OBVIOUS
    <3>1. y \in DOMAIN x11_to_id /\ y # x /\ x11_to_id'[y] = x11_to_id[y] BY <2>2
    <3>2. x11_to_id[y] \in DOMAIN windows /\ windows[x11_to_id[y]] = y BY <3>1 DEF Table, MapsInverse
    <3>3. x11_to_id[y] # id BY <3>1, <3>2 DEF x
    <3> QED BY <2>1, <3>1, <3>2, <3>3
  <2>9. \A y \in DOMAIN server' : server'[y] = "live" <=> y \in DOMAIN x11_to_id'
        BY <2>2, <2>3, <2>4 DEF Table, MapsInverse
  <2>10. MapsInverse' BY <2>7, <2>8, <2>9 DEF MapsInverse
  <2> QED BY <2>1, <2>2, <2>4, <2>5, <2>10 DEF Table
<1> QED BY <1>1, <1>2

(* A request goes to a window that is alive. *)
LEMMA RequestsHit ==
  ASSUME Table, NEW id
  PROVE  ~(id \in DOMAIN windows /\ server[windows[id]] # "live")
BY DEF Table, MapsInverse

LEMMA NewXidIsNew ==
  ASSUME Table, XIDs # DOMAIN server
  PROVE  NewXid \in XIDs /\ NewXid \notin DOMAIN server
<1>1. \E x \in XIDs : x \notin DOMAIN server BY DEF Table
<1> QED BY <1>1 DEF NewXid

LEMMA TableInit == Init => Table
BY DEF Init, Table, MapsInverse

LEMMA TableNext ==
  ASSUME Table, [Next]_vars
  PROVE  Table'
<1>0. ASSUME UNCHANGED win PROVE Table' BY <1>0 DEF Table, MapsInverse, win
<1>1. ASSUME NEW t \in Thread, GuestCall(t) PROVE Table'
  <2>1. CASE grafted_swiftui_create_window(t)
    <3>1. CASE display' = TRUE
          BY <2>1, <3>1, NewXidIsNew, CreateKeeps DEF grafted_swiftui_create_window
    <3>2. CASE ~(display' = TRUE)
          BY <1>0, <2>1, <3>2 DEF grafted_swiftui_create_window, init_display
    <3> QED BY <3>1, <3>2
  <2>2. CASE ns_window_init(t) BY <2>2, NewXidIsNew, CreateKeeps DEF ns_window_init
  <2>3. ASSUME NEW id \in WindowID, NSWindowCall(t, id) PROVE Table'
        BY <1>0, <2>3, DestroyKeeps DEF NSWindowCall, show_window, flush_window
  <2>4. CASE CallShared(t) BY <1>0, <2>4 DEF CallShared
  <2>5. CASE ns_application_terminate(t) BY <1>0, <2>5 DEF ns_application_terminate, win
  <2> QED BY <1>1, <2>1, <2>2, <2>3, <2>4, <2>5 DEF GuestCall
<1>2. ASSUME NEW t \in Thread, Finish(t) PROVE Table'
      BY <1>0, <1>2 DEF Finish, CreateShows, CreateFlushes, StoreId, StoreCtx, SharedStores,
                        show_window, flush_window
<1>3. CASE NSApplicationMain BY <1>0, <1>3 DEF NSApplicationMain
<1>4. CASE grafted_swiftui_run_loop
      BY <1>0, <1>4 DEF grafted_swiftui_run_loop, flush_window, win
<1>5. CASE MainLoop
      BY <1>0, <1>5 DEF MainLoop, ns_application_run, TestTerminated, Poll, HandleEvent, BatchDone,
                        flush_window, win
<1>6. CASE RunLoopReturns BY <1>0, <1>6 DEF RunLoopReturns, win
<1>7. CASE XServer BY <1>0, <1>7 DEF XServer, win
<1>8. CASE UNCHANGED vars BY <1>0, <1>8 DEF vars, win
<1> QED BY <1>1, <1>2, <1>3, <1>4, <1>5, <1>6, <1>7, <1>8 DEF Next

(* The window table and its reverse map are inverse to each other and know *)
(* exactly the windows that live on the server, whichever threads create   *)
(* and close windows.                                                      *)
THEOREM WindowMapsAgree == Spec => []MapsInverse
<1>1. Table => MapsInverse BY DEF Table
<1> QED BY TableInit, TableNext, <1>1, PTL DEF Spec

LEMMA QuietNext ==
  ASSUME Table, NoBadWindow, [Next]_vars
  PROVE  NoBadWindow'
<1>0. ASSUME UNCHANGED xerror PROVE NoBadWindow' BY <1>0 DEF NoBadWindow
<1>r. ASSUME NEW id, Request(id) PROVE NoBadWindow' BY <1>r, RequestsHit DEF Request, NoBadWindow
<1>1. ASSUME NEW t \in Thread, GuestCall(t) PROVE NoBadWindow'
  <2>1. CASE grafted_swiftui_create_window(t) BY <1>0, <2>1 DEF grafted_swiftui_create_window
  <2>2. CASE ns_window_init(t) BY <1>0, <2>2 DEF ns_window_init
  <2>3. ASSUME NEW id \in WindowID, NSWindowCall(t, id) PROVE NoBadWindow'
        BY <1>r, <2>3 DEF NSWindowCall, show_window, flush_window, destroy_window
  <2>4. CASE CallShared(t) BY <1>0, <2>4 DEF CallShared
  <2>5. CASE ns_application_terminate(t) BY <1>0, <2>5 DEF ns_application_terminate
  <2> QED BY <1>1, <2>1, <2>2, <2>3, <2>4, <2>5 DEF GuestCall
<1>2. ASSUME NEW t \in Thread, Finish(t) PROVE NoBadWindow'
      BY <1>0, <1>r, <1>2 DEF Finish, CreateShows, CreateFlushes, StoreId, StoreCtx, SharedStores,
                              show_window, flush_window
<1>3. CASE NSApplicationMain BY <1>0, <1>3 DEF NSApplicationMain
<1>4. CASE grafted_swiftui_run_loop
      BY <1>0, <1>r, <1>4 DEF grafted_swiftui_run_loop, flush_window
<1>5. CASE MainLoop
  <2>1. CASE HandleEvent BY <1>0, <1>r, <2>1 DEF HandleEvent, flush_window
  <2> QED BY <1>0, <1>5, <2>1 DEF MainLoop, ns_application_run, TestTerminated, Poll, BatchDone
<1>6. CASE RunLoopReturns BY <1>0, <1>6 DEF RunLoopReturns
<1>7. CASE XServer BY <1>0, <1>7 DEF XServer
<1>8. CASE UNCHANGED vars BY <1>0, <1>8 DEF vars
<1> QED BY <1>1, <1>2, <1>3, <1>4, <1>5, <1>6, <1>7, <1>8 DEF Next

(* No request ever names a destroyed X11 window: an id that outlives its   *)
(* window, in a batch, in a thread that is still showing it or in the      *)
(* guest's hands, is no longer in the table.                               *)
THEOREM RequestsReachLiveWindows == Spec => []NoBadWindow
<1>1. Init => NoBadWindow BY DEF Init, NoBadWindow
<1> QED BY TableInit, TableNext, QuietNext, <1>1, PTL DEF Spec

(* The main thread is in the body of the loop only while a run lasts. *)
Loops == {"test", "poll", "handle"}
Truth ==
  /\ IsRunningTruthful
  /\ depth \in Nat /\ pc \in [Thread -> PC] /\ after \in [Thread -> {"guest", "run"}]
  /\ pc[Main] \in Loops => depth > 0

LEMMA TruthNext ==
  ASSUME Truth, [Next]_vars
  PROVE  Truth'
<1>m. Main \in Thread BY DEF Thread
<1>0. ASSUME UNCHANGED <<running, terminated, depth>>, pc' \in [Thread -> PC],
             after' \in [Thread -> {"guest", "run"}], pc'[Main] \in Loops => pc[Main] \in Loops
      PROVE Truth'
      BY <1>0 DEF Truth, IsRunningTruthful
<1>s. ASSUME NEW t \in Thread, NEW next \in {"guest", "run"}, ns_application_shared(t, next),
             UNCHANGED <<running, terminated, depth>>
      PROVE Truth'
  <2>1. pc' \in [Thread -> PC] /\ after' \in [Thread -> {"guest", "run"}]
        BY <1>s DEF ns_application_shared, Goto, Truth, PC
  <2>2. pc'[Main] \in Loops => pc[Main] \in Loops
        BY <1>m, <1>s DEF ns_application_shared, Goto, Truth, Loops
  <2> QED BY <1>0, <1>s, <2>1, <2>2
<1>g. ASSUME NEW t \in Thread, NEW l \in PC \ Loops, Goto(t, l), UNCHANGED <<running, terminated, depth>>,
             after' \in [Thread -> {"guest", "run"}]
      PROVE Truth'
  <2>1. pc' \in [Thread -> PC] BY <1>g DEF Goto, Truth
  <2>2. pc'[Main] \in Loops => pc[Main] \in Loops BY <1>m, <1>g DEF Goto, Truth
  <2> QED BY <1>0, <1>g, <2>1, <2>2
<1>u. ASSUME UNCHANGED <<running, terminated, depth, pc, after>> PROVE Truth'
      BY <1>0, <1>u DEF Truth
<1>1. ASSUME NEW t \in Thread, GuestCall(t) PROVE Truth'
  <2>1. CASE grafted_swiftui_create_window(t)
        BY <1>g, <1>u, <2>1 DEF grafted_swiftui_create_window, Truth, PC, Loops
  <2>2. CASE ns_window_init(t) BY <1>u, <2>2 DEF ns_window_init
  <2>3. ASSUME NEW id \in WindowID, NSWindowCall(t, id) PROVE Truth'
        BY <1>u, <2>3 DEF NSWindowCall
  <2>4. CASE CallShared(t) BY <1>s, <2>4 DEF CallShared
  <2>5. CASE ns_application_terminate(t)
        BY <2>5 DEF ns_application_terminate, Truth, IsRunningTruthful
  <2> QED BY <1>1, <2>1, <2>2, <2>3, <2>4, <2>5 DEF GuestCall
<1>2. ASSUME NEW t \in Thread, Finish(t) PROVE Truth'
  <2>1. CASE CreateShows(t) BY <1>g, <2>1 DEF CreateShows, PC, Loops, Truth
  <2>2. CASE CreateFlushes(t) BY <1>g, <2>2 DEF CreateFlushes, PC, Loops, Truth
  <2>3. CASE StoreId(t) BY <1>g, <2>3 DEF StoreId, PC, Loops, Truth
  <2>3a. CASE StoreCtx(t) BY <1>g, <2>3a DEF StoreCtx, PC, Loops, Truth
  <2>4. CASE SharedStores(t)
    <3>1. after[t] \in PC \ Loops BY DEF Truth, PC, Loops
    <3>2. after' \in [Thread -> {"guest", "run"}] BY <2>4 DEF SharedStores, Truth
    <3> QED BY <1>g, <2>4, <3>1, <3>2 DEF SharedStores
  <2> QED BY <1>2, <2>1, <2>2, <2>3, <2>3a, <2>4 DEF Finish
<1>3. CASE NSApplicationMain BY <1>m, <1>s, <1>3 DEF NSApplicationMain
<1>4. CASE grafted_swiftui_run_loop BY <1>m, <1>s, <1>u, <1>4 DEF grafted_swiftui_run_loop
<1>5. CASE ns_application_run
  <2>1. running' = TRUE BY <1>5 DEF ns_application_run
  <2>2. depth' = depth + 1 /\ depth \in Nat /\ after' = after BY <1>5 DEF ns_application_run, Truth
  <2>3. depth' \in Nat /\ depth' > 0 BY <2>2
  <2>4. pc' \in [Thread -> PC] BY <1>5 DEF ns_application_run, Goto, Truth, PC
  <2>5. IsRunningTruthful' BY <2>1, <2>3 DEF IsRunningTruthful
  <2> QED BY <2>2, <2>3, <2>4, <2>5 DEF Truth
<1>6. CASE TestTerminated
  <2>0. pc[Main] = "test" /\ depth > 0 BY <1>6 DEF TestTerminated, Truth, Loops
  <2>1. CASE terminated
    <3>1. pc' \in [Thread -> PC] /\ pc'[Main] = "guest"
          BY <1>m, <1>6, <2>1 DEF TestTerminated, Goto, Truth, PC
    <3> QED BY <1>6, <2>0, <2>1, <3>1 DEF TestTerminated, Truth, IsRunningTruthful, Loops
  <2>2. CASE ~terminated
    <3>1. pc' \in [Thread -> PC] BY <1>6, <2>2 DEF TestTerminated, Goto, Truth, PC
    <3> QED BY <1>0, <1>6, <2>0, <2>2, <3>1 DEF TestTerminated, Truth, Loops
  <2> QED BY <2>1, <2>2
<1>7. CASE HandleEvent
  <2>1. UNCHANGED <<running, depth, pc, after>> /\ (terminated => terminated') BY <1>7 DEF HandleEvent
  <2> QED BY <2>1 DEF Truth, IsRunningTruthful
<1>8. CASE Poll
  <2>1. pc' \in [Thread -> PC] BY <1>8 DEF Poll, Goto, Truth, PC
  <2> QED BY <1>0, <1>8, <2>1 DEF Poll, Truth, Loops
<1>9. CASE BatchDone BY <1>m, <1>g, <1>9 DEF BatchDone, PC, Loops, Truth
<1>10. CASE RunLoopReturns
      BY <1>m, <1>10 DEF RunLoopReturns, Goto, Truth, IsRunningTruthful, PC
<1>11. CASE XServer BY <1>u, <1>11 DEF XServer
<1>12. CASE UNCHANGED vars BY <1>u, <1>12 DEF vars
<1> QED BY <1>1, <1>2, <1>3, <1>4, <1>5, <1>6, <1>7, <1>8, <1>9, <1>10, <1>11, <1>12
        DEF Next, MainLoop

(* APP_RUNNING is up only inside a loop, and down inside one only when the *)
(* application was told to terminate, for any nesting of runs.             *)
THEOREM IsRunningTellsTheTruth == Spec => []IsRunningTruthful
<1>1. Init => Truth BY DEF Init, Truth, IsRunningTruthful, PC, Loops, Thread
<1>2. Truth => IsRunningTruthful BY DEF Truth
<1> QED BY <1>1, <1>2, TruthNext, PTL DEF Spec

-----------------------------------------------------------------------------
(* The wish to close a window.  Ids are not used again, so a new window is *)
(* none that was asked for; and a batch is handled to its end before the   *)
(* next one is fetched, so that a poll overwrites nothing.                 *)
Fetched == [type : {"Expose", "WindowClose", "Escape", "Other"}, window : Nat]
Wishes ==
  /\ CloseNotLost
  /\ \A id \in asked : id \in Nat /\ id < next_id
  /\ queue \in Seq(XEvent) /\ batch \in Seq(Fetched)
  /\ pc \in [Thread -> PC] /\ after \in [Thread -> {"guest", "run"}]
  /\ pc[Main] # "handle" => batch = <<>>

(* A step that touches neither events nor wishes and at most closes        *)
(* windows.                                                                *)
LEMMA WishesStay ==
  ASSUME Table, Wishes, UNCHANGED <<queue, batch, asked>>, terminated => terminated',
         next_id' \in Nat, next_id <= next_id',
         \A id \in DOMAIN windows' :
           id < next_id => id \in DOMAIN windows /\ windows'[id] = windows[id],
         pc' \in [Thread -> PC], after' \in [Thread -> {"guest", "run"}],
         pc'[Main] # "handle" => pc[Main] # "handle" \/ batch = <<>>
  PROVE  Wishes'
<1>1. \A id \in asked' : id \in Nat /\ id < next_id' BY DEF Wishes, Table
<1>2. CloseNotLost'
  <2> SUFFICES ASSUME NEW id \in asked, ~terminated', id \in DOMAIN windows'
               PROVE  \/ \E i \in DOMAIN queue' : queue'[i] = [type |-> "CLOSE", xwin |-> windows'[id]]
                      \/ \E i \in DOMAIN batch' : batch'[i] = [type |-> "WindowClose", window |-> id]
      BY DEF CloseNotLost
  <2>1. id < next_id BY DEF Wishes
  <2>2. id \in DOMAIN windows /\ windows'[id] = windows[id] BY <2>1
  <2> QED BY <2>2 DEF Wishes, CloseNotLost
<1> QED BY <1>1, <1>2 DEF Wishes

LEMMA WishesInit == Init => Wishes
BY DEF Init, Wishes, CloseNotLost, PC, Thread

(* The user asks to close a window: the event is on the connection. *)
LEMMA WishArrives == ASSUME Table, Wishes, XServer PROVE Wishes'
<1>1. PICK e \in XEvent :
        /\ queue' = Append(queue, e)
        /\ asked' = IF e.type = "CLOSE"
                    THEN asked \cup {id \in DOMAIN windows : windows[id] = e.xwin} ELSE asked
      BY DEF XServer
<1>2. UNCHANGED <<windows, next_id, batch, terminated, pc, after>> BY DEF XServer, win
<1>3. /\ queue' \in Seq(XEvent) /\ Len(queue') = Len(queue) + 1 /\ DOMAIN queue' = 1 .. Len(queue) + 1
      /\ queue'[Len(queue) + 1] = e /\ \A i \in DOMAIN queue : i \in DOMAIN queue' /\ queue'[i] = queue[i]
  <2>1. queue \in Seq(XEvent) /\ Len(queue) \in Nat /\ DOMAIN queue = 1 .. Len(queue) BY DEF Wishes
  <2> QED BY <1>1, <2>1
<1>4. CloseNotLost'
  <2> SUFFICES ASSUME NEW id \in asked', ~terminated', id \in DOMAIN windows'
               PROVE  \/ \E i \in DOMAIN queue' : queue'[i] = [type |-> "CLOSE", xwin |-> windows'[id]]
                      \/ \E i \in DOMAIN batch' : batch'[i] = [type |-> "WindowClose", window |-> id]
      BY DEF CloseNotLost
  <2>1. CASE id \in asked
    <3>1. \/ \E i \in DOMAIN queue : queue[i] = [type |-> "CLOSE", xwin |-> windows[id]]
          \/ \E i \in DOMAIN batch : batch[i] = [type |-> "WindowClose", window |-> id]
          BY <1>2, <2>1 DEF Wishes, CloseNotLost
    <3> QED BY <1>2, <1>3, <3>1
  <2>2. CASE id \notin asked
    <3>1. e.type = "CLOSE" /\ windows[id] = e.xwin BY <1>1, <2>2
    <3>2. e = [type |-> "CLOSE", xwin |-> windows[id]] BY <3>1 DEF XEvent
    <3>3. Len(queue) + 1 \in DOMAIN queue' BY <1>3 DEF Wishes
    <3> QED BY <1>2, <1>3, <3>2, <3>3
  <2> QED BY <2>1, <2>2
<1>5. \A id \in asked' : id \in Nat /\ id < next_id' BY <1>1, <1>2 DEF Wishes, Table
<1> QED BY <1>2, <1>3, <1>4, <1>5 DEF Wishes

(* The poll moves it into the batch: the window's id is in the reverse     *)
(* map.                                                                    *)
LEMMA WishFetched == ASSUME Table, Wishes, Poll PROVE Wishes'
<1>m. Main \in Thread BY DEF Thread
<1>0. UNCHANGED <<windows, next_id, x11_to_id, asked, terminated, after>> BY DEF Poll, win
<1>1. pc' \in [Thread -> PC] /\ pc'[Main] = "handle" BY <1>m DEF Poll, Goto, Wishes, PC
<1>2. CASE ~display
  <2>1. UNCHANGED <<batch, queue>> BY <1>2 DEF Poll
  <2>2. next_id \in Nat /\ after' \in [Thread -> {"guest", "run"}] BY <1>0 DEF Table, Wishes
  <2> QED BY <1>0, <1>1, <2>1, <2>2, WishesStay
<1>3. CASE display
  <2>1. batch' = [i \in DOMAIN queue |-> Translate(queue[i])] /\ queue' = <<>> /\ batch = <<>>
        BY <1>3 DEF Poll, poll_events, Wishes
  <2>2. queue \in Seq(XEvent) /\ Len(queue) \in Nat /\ DOMAIN queue = 1 .. Len(queue) BY DEF Wishes
  <2>3. \A e \in XEvent : Translate(e) \in Fetched
    <3>1. \A x \in DOMAIN x11_to_id : x11_to_id[x] \in Nat BY DEF Table, MapsInverse
    <3> QED BY <3>1 DEF Translate, Fetched, Dropped
  <2>4. batch' \in Seq(Fetched)
    <3>1. \A i \in 1 .. Len(queue) : Translate(queue[i]) \in Fetched BY <2>2, <2>3
    <3> QED BY <2>1, <2>2, <3>1
  <2>5. CloseNotLost'
    <3> SUFFICES ASSUME NEW id \in asked, ~terminated, id \in DOMAIN windows
                 PROVE  \E i \in DOMAIN batch' : batch'[i] = [type |-> "WindowClose", window |-> id]
        BY <1>0 DEF CloseNotLost
    <3>1. PICK i \in DOMAIN queue : queue[i] = [type |-> "CLOSE", xwin |-> windows[id]]
      <4>1. DOMAIN batch = {} BY <2>1
      <4> QED BY <4>1 DEF Wishes, CloseNotLost
    <3>2. windows[id] \in DOMAIN x11_to_id /\ x11_to_id[windows[id]] = id BY DEF Table, MapsInverse
    <3>3. Translate(queue[i]) = [type |-> "WindowClose", window |-> id] BY <3>1, <3>2 DEF Translate
    <3> QED BY <2>1, <3>3
  <2>6. \A id \in asked' : id \in Nat /\ id < next_id' BY <1>0 DEF Wishes
  <2>7. queue' \in Seq(XEvent) /\ after' \in [Thread -> {"guest", "run"}] BY <1>0, <2>1 DEF Wishes
  <2> QED BY <1>1, <2>4, <2>5, <2>6, <2>7 DEF Wishes
<1> QED BY <1>2, <1>3

(* An event that asks to close a window ends the application; the others   *)
(* of the batch stay in it.                                                *)
LEMMA WishHandled == ASSUME Table, Wishes, HandleEvent PROVE Wishes'
<1>1. /\ batch # <<>> /\ batch' = Tail(batch) /\ terminated' = (terminated \/ Terminates(Head(batch)))
      /\ UNCHANGED <<windows, next_id, queue, asked, pc, after>> /\ pc[Main] = "handle"
      BY DEF HandleEvent, flush_window, win
<1>2. batch \in Seq(Fetched) BY DEF Wishes
<1>3. /\ Len(batch) \in Nat /\ DOMAIN batch = 1 .. Len(batch) /\ Head(batch) = batch[1]
      /\ batch' \in Seq(Fetched) /\ DOMAIN batch' = 1 .. Len(batch) - 1
      /\ \A i \in 1 .. Len(batch) - 1 : batch'[i] = batch[i + 1]
      BY <1>1, <1>2
<1>4. CloseNotLost'
  <2> SUFFICES ASSUME NEW id \in asked, ~terminated', id \in DOMAIN windows,
                      ~\E i \in DOMAIN queue : queue[i] = [type |-> "CLOSE", xwin |-> windows[id]]
               PROVE  \E i \in DOMAIN batch' : batch'[i] = [type |-> "WindowClose", window |-> id]
      BY <1>1 DEF CloseNotLost
  <2>1. ~terminated /\ ~Terminates(Head(batch)) BY <1>1
  <2>2. PICK i \in DOMAIN batch : batch[i] = [type |-> "WindowClose", window |-> id]
        BY <2>1 DEF Wishes, CloseNotLost
  <2>3. i # 1
    <3>1. Head(batch).type # "WindowClose" BY <2>1 DEF Terminates
    <3> QED BY <1>3, <2>2, <3>1
  <2>4. i - 1 \in DOMAIN batch' /\ batch'[i - 1] = batch[i] BY <1>3, <2>3
  <2> QED BY <2>2, <2>4
<1> QED BY <1>1, <1>3, <1>4 DEF Wishes

LEMMA WishesNext ==
  ASSUME Table, Wishes, [Next]_vars
  PROVE  Wishes'
<1>m. Main \in Thread BY DEF Thread
<1>n. next_id \in Nat BY DEF Table
<1>0. ASSUME UNCHANGED <<queue, batch, asked, windows, next_id>>, terminated => terminated',
             pc' \in [Thread -> PC], after' \in [Thread -> {"guest", "run"}],
             pc'[Main] # "handle" => pc[Main] # "handle" \/ batch = <<>>
      PROVE  Wishes'
      BY <1>0, <1>n, WishesStay
<1>u. ASSUME UNCHANGED <<queue, batch, asked, windows, next_id, pc, after>>, terminated => terminated'
      PROVE  Wishes'
      BY <1>0, <1>u DEF Wishes
<1>g. ASSUME UNCHANGED <<queue, batch, asked, windows, next_id, terminated>>, NEW t \in Thread, NEW l \in PC,
             Goto(t, l), after' \in [Thread -> {"guest", "run"}],
             t = Main => pc[Main] # "handle" \/ batch = <<>>
      PROVE  Wishes'
  <2>1. pc' \in [Thread -> PC] BY <1>g DEF Goto, Wishes
  <2>2. pc'[Main] # "handle" => pc[Main] # "handle" \/ batch = <<>>
        BY <1>m, <1>g DEF Goto, Wishes
  <2> QED BY <1>0, <1>g, <2>1, <2>2
<1>s. ASSUME NEW t \in Thread, NEW next \in {"guest", "run"}, ns_application_shared(t, next), pc[t] = "guest",
             UNCHANGED <<queue, batch, asked, windows, next_id, terminated>>
      PROVE  Wishes'
  <2>1. after' \in [Thread -> {"guest", "run"}] BY <1>s DEF ns_application_shared, Wishes
  <2>2. PICK l \in PC : Goto(t, l) BY <1>s DEF ns_application_shared, PC
  <2> QED BY <1>g, <1>s, <2>1, <2>2
<1>c. ASSUME NEW x, create_window(next_id, x), UNCHANGED <<queue, batch, asked, terminated, after>>,
             NEW t \in Thread, pc[t] = "guest", pc' = pc \/ Goto(t, "show") \/ Goto(t, "no_ctx")
      PROVE  Wishes'
  <2>1. next_id' = next_id + 1 /\ next_id' \in Nat /\ next_id <= next_id' BY <1>c, <1>n DEF create_window
  <2>2. windows' = With(windows, next_id, x) BY <1>c DEF create_window
  <2>3. \A id \in DOMAIN windows' :
          id < next_id => id \in DOMAIN windows /\ windows'[id] = windows[id]
        BY <1>n, <2>2 DEF With
  <2>4. pc' \in [Thread -> PC] BY <1>c DEF Goto, Wishes, PC
  <2>5. pc'[Main] # "handle" => pc[Main] # "handle" \/ batch = <<>>
        BY <1>m, <1>c DEF Goto, Wishes
  <2>6. after' \in [Thread -> {"guest", "run"}] BY <1>c DEF Wishes
  <2> QED BY <1>c, <2>1, <2>3, <2>4, <2>5, <2>6, WishesStay
<1>1. ASSUME NEW t \in Thread, GuestCall(t) PROVE Wishes'
  <2>1. CASE grafted_swiftui_create_window(t)
    <3>1. CASE display'
      <4>1. create_window(next_id, NewXid) /\ (Goto(t, "show") \/ Goto(t, "no_ctx"))
            BY <2>1, <3>1 DEF grafted_swiftui_create_window
      <4>2. UNCHANGED <<queue, batch, asked, terminated, after>> /\ pc[t] = "guest"
            BY <2>1 DEF grafted_swiftui_create_window
      <4> QED BY <1>c, <4>1, <4>2
    <3>2. CASE ~display'
      <4>1. UNCHANGED <<queue, batch, asked, windows, next_id, pc, after, terminated>>
            BY <2>1, <3>2 DEF grafted_swiftui_create_window, win
      <4> QED BY <1>u, <4>1
    <3> QED BY <3>1, <3>2
  <2>2. CASE ns_window_init(t) BY <1>c, <2>2 DEF ns_window_init
  <2>3. ASSUME NEW id \in WindowID, NSWindowCall(t, id) PROVE Wishes'
    <3>1. CASE show_window(id) \/ flush_window(id)
          BY <1>u, <2>3, <3>1 DEF NSWindowCall, show_window, flush_window, win
    <3>2. CASE destroy_window(id)
      <4>1. UNCHANGED <<queue, batch, asked, pc, after, terminated, next_id>>
            BY <2>3, <3>2 DEF NSWindowCall, destroy_window
      <4>2. \A i \in DOMAIN windows' : i \in DOMAIN windows /\ windows'[i] = windows[i]
            BY <3>2 DEF destroy_window, Without
      <4>3. pc' \in [Thread -> PC] /\ after' \in [Thread -> {"guest", "run"}]
            BY <4>1 DEF Wishes
      <4>4. pc'[Main] # "handle" => pc[Main] # "handle" \/ batch = <<>> BY <4>1
      <4> QED BY <1>n, <4>1, <4>2, <4>3, <4>4, WishesStay
    <3> QED BY <2>3, <3>1, <3>2 DEF NSWindowCall
  <2>4. CASE CallShared(t) BY <1>s, <2>4 DEF CallShared, win
  <2>5. CASE ns_application_terminate(t) BY <1>u, <2>5 DEF ns_application_terminate, win
  <2> QED BY <1>1, <2>1, <2>2, <2>3, <2>4, <2>5 DEF GuestCall
<1>2. ASSUME NEW t \in Thread, Finish(t) PROVE Wishes'
  <2> USE DEF win
  <2>0. {"flush", "store", "ctx", "null_ctx", "guest"} \subseteq PC BY DEF PC
  <2>1. CASE CreateShows(t) BY <1>g, <2>0, <2>1 DEF CreateShows, show_window, Wishes
  <2>2. CASE CreateFlushes(t) BY <1>g, <2>0, <2>2 DEF CreateFlushes, flush_window, Wishes
  <2>3. CASE StoreId(t) BY <1>g, <2>0, <2>3 DEF StoreId, Wishes
  <2>3a. CASE StoreCtx(t) BY <1>g, <2>0, <2>3a DEF StoreCtx, Wishes
  <2>4. CASE SharedStores(t)
    <3>1. after[t] \in PC BY DEF Wishes, PC
    <3>2. after' \in [Thread -> {"guest", "run"}] BY <2>4 DEF SharedStores, Wishes
    <3> QED BY <1>g, <2>4, <3>1, <3>2 DEF SharedStores
  <2> QED BY <1>2, <2>1, <2>2, <2>3, <2>3a, <2>4 DEF Finish
<1>3. CASE NSApplicationMain BY <1>m, <1>s, <1>3 DEF NSApplicationMain, win
<1>4. CASE grafted_swiftui_run_loop
  <2>1. UNCHANGED <<queue, batch, asked, windows, next_id, terminated>>
        BY <1>4 DEF grafted_swiftui_run_loop, flush_window, win
  <2> QED BY <1>m, <1>s, <1>u, <1>4, <2>1 DEF grafted_swiftui_run_loop
<1>5. CASE ns_application_run
  <2>1. "test" \in PC BY DEF PC
  <2> QED BY <1>m, <1>g, <1>5, <2>1 DEF ns_application_run, win, Wishes
<1>6. CASE TestTerminated
  <2>1. PICK l \in PC : Goto(Main, l) BY <1>6 DEF TestTerminated, PC
  <2> QED BY <1>m, <1>g, <1>6, <2>1 DEF TestTerminated, win, Wishes
<1>9. CASE BatchDone
  <2>1. "guest" \in PC BY DEF PC
  <2> QED BY <1>m, <1>g, <1>9, <2>1 DEF BatchDone, win, Wishes
<1>10. CASE RunLoopReturns
  <2>1. "test" \in PC BY DEF PC
  <2> QED BY <1>m, <1>g, <1>10, <2>1 DEF RunLoopReturns, win, Wishes
<1>12. CASE UNCHANGED vars BY <1>u, <1>12 DEF vars
<1> QED BY <1>1, <1>2, <1>3, <1>4, <1>5, <1>6, <1>9, <1>10, <1>12, WishArrives, WishFetched, WishHandled
        DEF Next, MainLoop

(* From the moment the user asks to close a window until the application   *)
(* is told to terminate, the event is on the connection or in the batch,   *)
(* whichever threads create and close windows and however runs nest.       *)
THEOREM CloseIsNotLost == Spec => []CloseNotLost
<1>1. Wishes => CloseNotLost BY DEF Wishes
<1> QED BY <1>1, TableInit, TableNext, WishesInit, WishesNext, PTL DEF Spec
=============================================================================
