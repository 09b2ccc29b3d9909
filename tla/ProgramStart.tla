---------------------------- MODULE ProgramStart ----------------------------
(***************************************************************************)
(* What starting a program promises, whatever is loaded and in whatever    *)
(* order.  No code of the program or its libraries runs, and nothing of    *)
(* them is registered, before every pointer the program wants bound is     *)
(* bound; from then on the loader leaves the pointers alone.  An image's   *)
(* classes are registered before its initialisers run, and those run at    *)
(* most once, the program's last.  The Swift runtime is told of the        *)
(* program's class records only when they have its layout, and the         *)
(* Objective-C runtime reads them only before.  The launch may fail until  *)
(* registration begins, and again once all initialisers have run, but not  *)
(* in between.  A file that is not an executable is started as it is.      *)
(***************************************************************************)
CONSTANTS
  Slot,    \* the pointers of the program
  Image,   \* names of images, the program's own among them
  Program,
  Value    \* what a pointer can hold

VARIABLES
  stage,     \* "loading", "linking", "initialising", "ready", "running" or "ended"
  plain,     \* is the file something other than an executable?
  open,      \* the pointers still to be bound
  ptr,       \* the pointers
  known,     \* the images whose classes are registered
  done,      \* the images whose initialisers have run
  layout,    \* the program's class records: "darwin" or "linux"
  announced  \* has the Swift runtime been told of them?

vars == <<stage, plain, open, ptr, known, done, layout, announced>>

Init ==
  /\ stage = "loading" /\ plain \in BOOLEAN
  /\ open \subseteq Slot /\ ptr \in [Slot -> Value]
  /\ known = {} /\ done = {}
  /\ layout = "darwin" /\ announced = FALSE

Link ==
  /\ stage = "loading" /\ ~plain
  /\ stage' = "linking"
  /\ UNCHANGED <<plain, open, ptr, known, done, layout, announced>>

(* Some pointers are written, and are bound from then on; a pointer may be *)
(* written again while linking lasts.                                      *)
Bind ==
  /\ stage = "linking"
  /\ ptr' \in [Slot -> Value]
  /\ open' \subseteq open
  /\ UNCHANGED <<stage, plain, known, done, layout, announced>>

StartInit ==
  /\ stage = "linking" /\ open = {}
  /\ stage' = "initialising"
  /\ UNCHANGED <<plain, open, ptr, known, done, layout, announced>>

Register(i) ==
  /\ stage = "initialising" /\ i \notin known /\ done = {} /\ layout = "darwin"
  /\ known' = known \cup {i}
  /\ UNCHANGED <<stage, plain, open, ptr, done, layout, announced>>

Initialise(i) ==
  /\ stage = "initialising" /\ {i, Program} \subseteq known
  /\ i \notin done /\ Program \notin done
  /\ done' = done \cup {i}
  /\ stage' = IF i = Program THEN "ready" ELSE stage
  /\ UNCHANGED <<plain, open, ptr, known, layout, announced>>

Translate ==
  /\ stage = "ready" /\ ~announced
  /\ layout' = "linux"
  /\ UNCHANGED <<stage, plain, open, ptr, known, done, announced>>

Announce ==
  /\ stage = "ready" /\ layout = "linux"
  /\ announced' = TRUE
  /\ UNCHANGED <<stage, plain, open, ptr, known, done, layout>>

Start ==
  /\ (stage = "ready" /\ layout = "linux") \/ (stage = "loading" /\ plain)
  /\ stage' = "running"
  /\ UNCHANGED <<plain, open, ptr, known, done, layout, announced>>

(* The launch fails, or was only an inspection. *)
End ==
  /\ stage \in {"loading", "linking", "ready"}
  /\ stage' = "ended"
  /\ UNCHANGED <<plain, open, ptr, known, done, layout, announced>>

Next ==
  \/ Link \/ Bind \/ StartInit
  \/ \E i \in Image : Register(i) \/ Initialise(i)
  \/ Translate \/ Announce \/ Start \/ End

Spec == Init /\ [][Next]_vars
=============================================================================
