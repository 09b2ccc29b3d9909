---------------------------- MODULE Launch_proofs ----------------------------
(***************************************************************************)
(* Proofs about Launch, for every set of files, symbols and slots: types,  *)
(* that pointers hold what the tables ask for, that dependencies are       *)
(* settled, and that the launch implements ProgramStart.                   *)
(***************************************************************************)
EXTENDS Launch, SequenceTheorems, TLAPS

(* A value that a look-up can give. *)
Bound(v) == v \in Value /\ v.kind # "raw"

Request == [name : Name, loader : Path, rpaths : {Image[p].rpaths : p \in Path}]

(* Types, and what is known of the bindings whatever main does next. *)
Types ==
  /\ TypeOK
  /\ at >= 1
  /\ \A i \in DOMAIN resolved : Bound(resolved[i])

LEMMA BaseIsAddress ==
  ASSUME NEW p \in Path
  PROVE  Image[p].base \in Address \cup {0}
BY LaunchAssumption DEF Address, Bases

LEMMA ValIsValue ==
  ASSUME NEW k \in Kinds, NEW a \in Address \cup {0}
  PROVE  Val(k, a) \in Value /\ Val(k, a).kind = k /\ Val(k, a).at = a
BY DEF Val, Value

Stubs == {"trap", "soft", "zero"}

LEMMA RawIsValue == Raw \in Value /\ Raw.kind = "raw" /\ Raw.at = 0
BY DEF Raw, Val, Value, Kinds

LEMMA AnswersBound ==
  ASSUME TypeOK, NEW d, NEW sym, NEW stub \in Stubs, NEW v, Answers(v, d, sym, stub)
  PROVE  Bound(v)
<1>1. \A k \in Kinds \ {"raw"} : Bound(Val(k, 0)) BY ValIsValue DEF Bound
<1>2. \A n \in DOMAIN libs : Bound(Val("image", Image[libs[n].path].base))
  <2> SUFFICES ASSUME NEW n \in DOMAIN libs PROVE Bound(Val("image", Image[libs[n].path].base))
      OBVIOUS
  <2>1. Image[libs[n].path].base \in Address \cup {0} BY BaseIsAddress DEF TypeOK
  <2> QED BY <2>1, ValIsValue DEF Bound, Kinds
<1> QED BY <1>1, <1>2 DEF Answers, Exporters, Kinds, Stubs

(* The sources are asked in their order. *)
LEMMA FirstFoundIsFirst ==
  ASSUME NEW s, DOMAIN s = 1 .. 6
  PROVE  /\ \A u \in FirstFound(s) : \E i \in 1 .. 6 : u \in s[i] /\ \A j \in 1 .. 6 : j < i => s[j] = {}
         /\ FirstFound(s) = {} => \A i \in 1 .. 6 : s[i] = {}
<1> DEFINE hits == {i \in DOMAIN s : s[i] # {}}
           c == CHOOSE i \in hits : \A j \in hits : i <= j
<1>1. CASE hits = {} BY <1>1 DEF FirstFound
<1>2. CASE hits # {}
  <2>1. \E i \in hits : \A j \in hits : i <= j
    <3>1. PICK i \in hits : TRUE BY <1>2
    <3>2. hits \subseteq 1 .. 6 OBVIOUS
    <3> QED BY <1>2, <3>1, <3>2
  <2>2. c \in hits /\ \A j \in hits : c <= j BY <2>1
  <2>3. FirstFound(s) = s[c] BY <1>2 DEF FirstFound
  <2>4. c \in 1 .. 6 /\ s[c] # {} BY <2>2
  <2>5. \A j \in 1 .. 6 : j < c => s[j] = {} BY <2>2, <2>4
  <2> QED BY <2>3, <2>4, <2>5
<1> QED BY <1>1, <1>2

(* What a look-up gives is right for the symbol, and never the raw value. *)
LEMMA LookUp ==
  ASSUME TypeOK, NEW d, NEW sym, NEW w, NEW stub \in {"trap", "soft"},
         NEW v \in OrElse(resolve_symbol(d, sym, w), stub)
  PROVE  Bound(v) /\ Answers(v, d, sym, IF w THEN "zero" ELSE stub)
<1> DEFINE s == <<
    If(\E r \in DOMAIN Registry : (r = d \/ <<r, d>> \in EndsWith) /\ sym \in Registry[r],
       Val("shim", 0)),
    UNION {find_symbol_in_binary(n, sym) : n \in DOMAIN libs \cap {d}},
    UNION {find_symbol_in_binary(n, sym) : n \in DOMAIN libs},
    If(sym \in ClassSyms, Val("class", 0)),
    If(sym \in HostSyms, Val("host", 0)),
    If(w, Val("zero", 0)) >>
           last == IF w THEN "zero" ELSE stub
<1>1. resolve_symbol(d, sym, w) = FirstFound(s) BY DEF resolve_symbol
<1>2. DOMAIN s = 1 .. 6 OBVIOUS
<1>3. s[1] = IF Replaced(d, sym) THEN {Val("shim", 0)} ELSE {} BY DEF If, Replaced
<1>a. \A n \in DOMAIN libs : find_symbol_in_binary(n, sym)
         = IF n \in Exporters(sym) THEN {Val("image", Image[libs[n].path].base)} ELSE {}
      BY DEF find_symbol_in_binary, If, Exporters
<1>b. Exporters(sym) \subseteq DOMAIN libs BY DEF Exporters
<1>4. /\ \A u \in s[2] : d \in Exporters(sym) /\ u = Val("image", Image[libs[d].path].base)
      /\ s[2] = {} => d \notin Exporters(sym)
      BY <1>a, <1>b
<1>5. /\ \A u \in s[3] : \E n \in Exporters(sym) : u = Val("image", Image[libs[n].path].base)
      /\ s[3] = {} => Exporters(sym) = {}
      BY <1>a, <1>b
<1>6. s[4] = IF sym \in ClassSyms THEN {Val("class", 0)} ELSE {} BY DEF If
<1>7. s[5] = IF sym \in HostSyms THEN {Val("host", 0)} ELSE {} BY DEF If
<1>8. s[6] = IF w THEN {Val("zero", 0)} ELSE {} BY DEF If
<1> HIDE DEF s
<1>9. \A u \in resolve_symbol(d, sym, w) : Answers(u, d, sym, last)
  <2> SUFFICES ASSUME NEW u \in resolve_symbol(d, sym, w) PROVE Answers(u, d, sym, last) OBVIOUS
  <2>1. PICK i \in 1 .. 6 : u \in s[i] /\ \A j \in 1 .. 6 : j < i => s[j] = {}
        BY <1>1, <1>2, FirstFoundIsFirst
  <2>2. i = 1 \/ i = 2 \/ i = 3 \/ i = 4 \/ i = 5 \/ i = 6 OBVIOUS
  <2>3. /\ i > 1 => s[1] = {} /\ ~Replaced(d, sym)
        /\ i > 2 => s[2] = {} /\ d \notin Exporters(sym)
        /\ i > 3 => s[3] = {} /\ Exporters(sym) = {}
        /\ i > 4 => s[4] = {} /\ sym \notin ClassSyms
        /\ i > 5 => s[5] = {} /\ sym \notin HostSyms
        BY <1>3, <1>4, <1>5, <1>6, <1>7, <2>1
  <2>4. CASE i = 1 BY <1>3, <2>1, <2>4 DEF Answers
  <2>5. CASE i = 2 BY <1>4, <2>1, <2>3, <2>5 DEF Answers
  <2>6. CASE i = 3 BY <1>5, <2>1, <2>3, <2>6 DEF Answers
  <2>7. CASE i = 4 BY <1>6, <2>1, <2>3, <2>7 DEF Answers
  <2>8. CASE i = 5 BY <1>7, <2>1, <2>3, <2>8 DEF Answers
  <2>9. CASE i = 6 BY <1>8, <2>1, <2>3, <2>9 DEF Answers
  <2> QED BY <2>2, <2>4, <2>5, <2>6, <2>7, <2>8, <2>9
<1>10. resolve_symbol(d, sym, w) = {} => Answers(Val(stub, 0), d, sym, last)
  <2> SUFFICES ASSUME resolve_symbol(d, sym, w) = {} PROVE Answers(Val(stub, 0), d, sym, last) OBVIOUS
  <2>1. \A i \in 1 .. 6 : s[i] = {} BY <1>1, <1>2, FirstFoundIsFirst
  <2>2. ~Replaced(d, sym) BY <1>3, <2>1
  <2>3. Exporters(sym) = {} BY <1>5, <2>1
  <2>4. sym \notin ClassSyms /\ sym \notin HostSyms BY <1>6, <1>7, <2>1
  <2>5. last = stub BY <1>8, <2>1
  <2> QED BY <2>2, <2>3, <2>4, <2>5 DEF Answers
<1>11. Answers(v, d, sym, last) BY <1>9, <1>10 DEF OrElse
<1>12. last \in Stubs BY DEF Stubs
<1> QED BY <1>11, <1>12, AnswersBound

LEMMA RequestsTyped ==
  ASSUME NEW p \in Path
  PROVE  Requests(p) \in Seq(Request)
<1> DEFINE d == Image[p].deps
           n == Len(d)
<1>1. n \in Nat /\ DOMAIN d = 1 .. n BY LaunchAssumption DEF IsSeq
<1>2. \A i \in 1 .. n : n + 1 - i \in 1 .. n BY <1>1
<1>3. \A i \in 1 .. n : d[n + 1 - i] \in Name BY <1>1, <1>2 DEF Name, Deps
<1>4. Requests(p) \in [1 .. n -> Request] BY <1>1, <1>3 DEF Requests, Request
<1> QED BY <1>1, <1>4, SeqDef

LEMMA TypesInit == Init => Types
BY RawIsValue DEF Init, Types, TypeOK, world

LEMMA TypesLoad ==
  ASSUME Types, load_dependencies
  PROVE  Types'
<1> DEFINE h == Head(todo)
<1>a. todo \in Seq(Request) /\ todo # <<>> BY DEF Types, TypeOK, load_dependencies, Request
<1>0. h \in Request /\ Tail(todo) \in Seq(Request) BY <1>a, HeadTailProperties
<1> USE DEF Types, TypeOK, load_dependencies, world, binding, starting
<1>1. CASE Skip BY <1>0, <1>1 DEF Skip, Request
<1>2. CASE Miss BY <1>0, <1>2 DEF Miss, Request
<1>3. CASE LoadLib
  <2>1. PICK p \in Found(h), a \in Address :
          /\ map_binary(p, a)
          /\ libs' = [n \in DOMAIN libs \cup {h.name} |->
                        IF n = h.name THEN [path |-> p, at |-> a] ELSE libs[n]]
          /\ todo' = Requests(p) \o Tail(todo)
        BY <1>3 DEF LoadLib
  <2>2. p \in Path BY DEF Found
  <2>3. loaded' = loaded \cup {h.name} BY <1>3 DEF LoadLib
  <2>4. mem' \in [Address -> Path \cup {None}] BY <2>1, <2>2 DEF map_binary
  <2>5. todo' \in Seq(Request) BY <1>0, <2>1, <2>2, RequestsTyped
  <2>6. DOMAIN libs' = DOMAIN libs \cup {h.name} BY <2>1
  <2>7. \A n \in DOMAIN libs' : libs'[n] \in [path : Path, at : Address] BY <2>1, <2>2
  <2>8. loaded' \subseteq Name /\ DOMAIN libs' \subseteq loaded' BY <1>0, <2>3, <2>6 DEF Request
  <2> QED BY <2>4, <2>5, <2>6, <2>7, <2>8 DEF Request
<1> QED BY <1>1, <1>2, <1>3

LEMMA FixupIsValue ==
  ASSUME Types, NEW s \in Slot
  PROVE  Fixup(s) \in Value /\ (Slots[s].supported => Bound(Fixup(s)))
<1>1. Bound(Val("self", Image[Executable].base))
      BY BaseIsAddress, ValIsValue, LaunchAssumption DEF Bound, Kinds
<1>2. Bound(Val("zero", 0)) BY ValIsValue DEF Bound, Kinds
<1>3. ptr[s] \in Value BY DEF Types, TypeOK
<1> QED BY <1>1, <1>2, <1>3 DEF Fixup, Bound, Types

LEMMA TypesNext ==
  ASSUME Types, [Next]_vars
  PROVE  Types'
<1> USE DEF world, loading, binding, starting
<1>1. CASE Parse BY <1>1 DEF Types, TypeOK, Parse, Fail
<1>2. CASE print_info BY <1>2 DEF Types, TypeOK, print_info
<1>3. CASE MapMain
  <2>1. Requests(Executable) \in Seq(Request) BY RequestsTyped, LaunchAssumption
  <2>2. mem' \in [Address -> Path \cup {None}]
        BY <1>3, LaunchAssumption DEF MapMain, map_binary, Types, TypeOK
  <2> QED BY <1>3, <2>1, <2>2 DEF Types, TypeOK, MapMain, Request
<1>4. CASE MapFails BY <1>4 DEF Types, TypeOK, MapFails, Fail
<1>5. CASE load_dependencies BY <1>5, TypesLoad
<1>6. CASE LoadDone BY <1>6 DEF Types, TypeOK, LoadDone
<1>7. CASE bind
  <2>1. PICK v \in OrElse(resolve_symbol(Imports[at].dylib, Imports[at].symbol, Imports[at].weak), "trap") :
          ptr' = [s \in Slot |-> IF Slots[s].import = at THEN v ELSE ptr[s]]
        BY <1>7 DEF bind
  <2>2. Bound(v) BY <2>1, LookUp DEF Types
  <2>3. ptr' \in [Slot -> Value] BY <2>1, <2>2 DEF Types, TypeOK, Bound
  <2> QED BY <1>7, <2>3 DEF Types, TypeOK, bind
<1>8. CASE BindFails BY <1>8 DEF Types, TypeOK, BindFails, Fail
<1>9. CASE BindDone BY <1>9 DEF Types, TypeOK, BindDone
<1>10. CASE resolve_external
  <2>1. CASE at \in DOMAIN Imports
    <3>1. PICK v \in OrElse(resolve_symbol(Imports[at].dylib, Imports[at].symbol, FALSE), "soft") :
            resolved' = Append(resolved, v)
          BY <1>10, <2>1 DEF resolve_external
    <3>2. Bound(v) BY <3>1, LookUp DEF Types
    <3>3. resolved' \in Seq(Value) BY <3>1, <3>2 DEF Types, TypeOK, Bound
    <3>4. \A i \in DOMAIN resolved' : Bound(resolved'[i])
          BY <3>1, <3>2 DEF Types, TypeOK
    <3> QED BY <1>10, <2>1, <3>3, <3>4 DEF Types, TypeOK, resolve_external
  <2>2. CASE at \notin DOMAIN Imports BY <1>10, <2>2 DEF Types, TypeOK, resolve_external
  <2> QED BY <2>1, <2>2
<1>11. CASE apply_fixups
  <2>1. Fixup(at) \in Value BY <1>11, FixupIsValue DEF apply_fixups
  <2> QED BY <1>11, <2>1 DEF Types, TypeOK, apply_fixups
<1>12. CASE bind_nl_symbol_ptrs
  <2>1. ptr' \in [Slot -> Value]
    <3>1. CASE UNCHANGED ptr BY <3>1 DEF Types, TypeOK
    <3>2. CASE \E v \in OrElse(resolve_symbol(LibSystem, Indirect[at], FALSE), "trap") :
                 ptr' = [ptr EXCEPT ![NLSlots[at]] = v]
      <4>1. PICK v \in OrElse(resolve_symbol(LibSystem, Indirect[at], FALSE), "trap") :
              ptr' = [ptr EXCEPT ![NLSlots[at]] = v]
            BY <3>2
      <4>2. Bound(v) BY <4>1, LookUp DEF Types
      <4> QED BY <4>1, <4>2 DEF Types, TypeOK, Bound
    <3> QED BY <1>12, <3>1, <3>2 DEF bind_nl_symbol_ptrs
  <2> QED BY <1>12, <2>1 DEF Types, TypeOK, bind_nl_symbol_ptrs
<1>13. CASE FixupsDone BY <1>13 DEF Types, TypeOK, FixupsDone, Unslid
<1>14. CASE register_objc_metadata BY <1>14 DEF Types, TypeOK, register_objc_metadata
<1>15. CASE register_objc_class_names BY <1>15 DEF Types, TypeOK, register_objc_class_names, Unslid
<1>16. CASE run_initializers BY <1>16 DEF Types, TypeOK, run_initializers
<1>17. CASE translate_swift_metadata BY <1>17 DEF Types, TypeOK, translate_swift_metadata
<1>18. CASE register_swift_sections BY <1>18 DEF Types, TypeOK, register_swift_sections
<1>19. CASE execute BY <1>19 DEF Types, TypeOK, execute
<1>20. CASE UNCHANGED vars BY <1>20 DEF Types, TypeOK, vars
<1> QED BY <1>1, <1>2, <1>3, <1>4, <1>5, <1>6, <1>7, <1>8, <1>9, <1>10, <1>11, <1>12, <1>13,
           <1>14, <1>15, <1>16, <1>17, <1>18, <1>19, <1>20 DEF Next

(* The launch keeps its types: requests name dependencies of files, every  *)
(* loaded library is one that was dealt with, and a pointer of the program *)
(* always holds an address of an image or none.                            *)
THEOREM TypeCorrect == Spec => []TypeOK
<1>1. Types => TypeOK BY DEF Types
<1> QED BY TypesInit, TypesNext, <1>1, PTL DEF Spec

-----------------------------------------------------------------------------
(* What main has reached, for the refinement of ProgramStart. *)

Linking == {"bind", "imports", "chain", "nl"}
Loading == {"parse", "parsed", "load"}

Progress ==
  /\ format \in {"chained", "opcodes", "indirect"}
  /\ pc \in {"imports", "chain"} => format = "chained"
  /\ pc = "nl" => format # "chained"
  /\ pc \in Loading => at = 1

Phases ==
  /\ pc \in Linking \cup {"objc", "init", "translate", "sections"} => ftype = "execute"
  /\ pc \in Loading \cup Linking => classes = {}
  /\ pc \in Loading \cup Linking \cup {"objc"} => inits = {}
  /\ pc \in Loading \cup Linking \cup {"objc", "init", "translate"} => layout = "darwin"
  /\ pc = "sections" \/ (pc = "execute" /\ ftype = "execute") => layout = "linux"
  /\ pc = "objc" => /\ left \cap classes = {} /\ Executable \notin classes
                    /\ Unslid \subseteq classes \cup left
  /\ pc = "init" => /\ left \cup {Executable} \subseteq classes
                    /\ left \cap inits = {} /\ Executable \notin inits

Unannounced == pc \in {"translate", "sections"} \/ pc \in Loading \cup Linking \cup {"objc", "init"}
               => announced = FALSE

LEMMA ProgressInit == Init => Progress
BY DEF Init, Progress, Loading

LEMMA ProgressNext ==
  ASSUME Progress, [Next]_vars
  PROVE  Progress'
BY DEF Progress, Loading, world, loading, binding, starting, Goto, Fail, Next, vars,
       Parse, print_info, MapMain, MapFails, load_dependencies, LoadDone, bind, BindFails, BindDone,
       resolve_external, apply_fixups, bind_nl_symbol_ptrs, FixupsDone, register_objc_metadata,
       register_objc_class_names, run_initializers, translate_swift_metadata,
       register_swift_sections, execute

LEMMA PhasesInit == Init => Phases /\ Unannounced
<1>1. Init => Phases BY DEF Init, Phases, Loading, Linking
<1>2. Init => Unannounced BY DEF Init, Unannounced
<1> QED BY <1>1, <1>2

LEMMA UnannouncedNext ==
  ASSUME Unannounced, [Next]_vars
  PROVE  Unannounced'
BY DEF Unannounced, Loading, Linking, world, loading, binding, starting, Goto, Fail, Next, vars,
       Parse, print_info, MapMain, MapFails, load_dependencies, LoadDone, bind, BindFails, BindDone,
       resolve_external, apply_fixups, bind_nl_symbol_ptrs, FixupsDone, register_objc_metadata,
       register_objc_class_names, run_initializers, translate_swift_metadata,
       register_swift_sections, execute

LEMMA PhasesNext ==
  ASSUME Types, Phases, [Next]_vars
  PROVE  Phases'
<1> USE DEF world, loading, binding, starting, Goto, Phases, Loading, Linking
<1>0. Executable \notin Unslid /\ Executable \notin left
      BY LaunchAssumption DEF Types, TypeOK, Unslid
<1>1. CASE Parse BY <1>1 DEF Parse, Fail
<1>2. CASE print_info BY <1>2 DEF print_info
<1>3. CASE MapMain BY <1>3 DEF MapMain
<1>4. CASE MapFails BY <1>4 DEF MapFails, Fail
<1>5. CASE load_dependencies BY <1>5 DEF load_dependencies
<1>6. CASE LoadDone BY <1>6 DEF LoadDone
<1>7. CASE bind BY <1>7 DEF bind
<1>8. CASE BindFails BY <1>8 DEF BindFails, Fail
<1>9. CASE BindDone BY <1>9 DEF BindDone
<1>10. CASE resolve_external BY <1>10 DEF resolve_external
<1>11. CASE apply_fixups BY <1>11 DEF apply_fixups
<1>12. CASE bind_nl_symbol_ptrs BY <1>12 DEF bind_nl_symbol_ptrs
<1>13. CASE FixupsDone BY <1>13 DEF FixupsDone, Unslid
<1>14. CASE register_objc_metadata BY <1>0, <1>14 DEF register_objc_metadata, Unslid
<1>15. CASE register_objc_class_names BY <1>0, <1>15 DEF register_objc_class_names, Unslid
<1>16. CASE run_initializers BY <1>0, <1>16 DEF run_initializers
<1>17. CASE translate_swift_metadata BY <1>17 DEF translate_swift_metadata
<1>18. CASE register_swift_sections BY <1>18 DEF register_swift_sections
<1>19. CASE execute BY <1>19 DEF execute
<1>20. CASE UNCHANGED vars BY <1>20 DEF vars, Unslid
<1> QED BY <1>1, <1>2, <1>3, <1>4, <1>5, <1>6, <1>7, <1>8, <1>9, <1>10, <1>11, <1>12, <1>13,
           <1>14, <1>15, <1>16, <1>17, <1>18, <1>19, <1>20 DEF Next

-----------------------------------------------------------------------------
(* Pointers *)

Linked == ftype = "execute" /\ pc \in {"objc", "init", "translate", "sections", "execute", "running"}

(* What a slot holds when linking is over ... *)
Final(v, s) ==
  IF format = "chained" THEN FixedUp(v, s) ELSE IF Listed(s) THEN Indirected(v, s) ELSE Opcoded(v, s)

(* ... and at each place on the way there. *)
SoFar(v, s) ==
  /\ pc \in Loading \cup {"imports"} => v = Raw
  /\ pc = "bind" => IF Slots[s].import < at THEN Opcoded(v, s) ELSE v = Raw
  /\ pc = "chain" => IF s < at THEN FixedUp(v, s) ELSE v = Raw
  /\ pc = "nl" => IF \E k \in NLEntries : k < at /\ NLSlots[k] = s THEN Indirected(v, s) ELSE Opcoded(v, s)
  /\ Linked => Final(v, s)

(* The table of answers has the place of each import. *)
Table ==
  /\ pc \in Loading \cup {"bind"} => resolved = <<>>
  /\ pc = "imports" => Len(resolved) = at - 1
  /\ pc = "chain" => DOMAIN Imports \subseteq DOMAIN resolved
  /\ DOMAIN resolved \subseteq DOMAIN Imports
  /\ \A i \in DOMAIN resolved : ImportAnswered(resolved[i], i, "soft")

Pointers == Table /\ \A s \in Slot : SoFar(ptr[s], s)

(* Answers depend on the loaded libraries only. *)
LEMMA AnswersKept ==
  ASSUME UNCHANGED <<libs, format>>
  PROVE  /\ \A v, i, stub : ImportAnswered(v, i, stub) => ImportAnswered(v, i, stub)'
         /\ \A v, s : FixedUp(v, s) => FixedUp(v, s)'
         /\ \A v, s : Opcoded(v, s) => Opcoded(v, s)'
         /\ \A v, s : Indirected(v, s) => Indirected(v, s)'
<1>1. \A v, d, sym, stub : Answers(v, d, sym, stub) => Answers(v, d, sym, stub)'
  <2>1. \A sym : Exporters(sym)' = Exporters(sym) BY DEF Exporters
  <2> QED BY <2>1 DEF Answers
<1>2. \A v, i, stub : ImportAnswered(v, i, stub) => ImportAnswered(v, i, stub)' BY <1>1 DEF ImportAnswered
<1>3. \A v, s : FixedUp(v, s) => FixedUp(v, s)' BY <1>2 DEF FixedUp
<1>4. \A v, s : Opcoded(v, s) => Opcoded(v, s)' BY <1>2 DEF Opcoded
<1>5. \A v, s : Indirected(v, s) => Indirected(v, s)' BY <1>1 DEF Indirected
<1> QED BY <1>2, <1>3, <1>4, <1>5

LEMMA FinalKept ==
  ASSUME UNCHANGED <<libs, format>>, NEW v, NEW s, Final(v, s)
  PROVE  Final(v, s)'
BY AnswersKept DEF Final

LEMMA Counted ==
  /\ \A s \in Slot : s \in Nat /\ s >= 1 /\ Slots[s].import \in Nat
  /\ Len(Imports) \in Nat /\ DOMAIN Imports = 1 .. Len(Imports)
  /\ Len(Slots) \in Nat /\ Slot = 1 .. Len(Slots)
BY LaunchAssumption DEF IsSeq, Slot

LEMMA EntriesAreSlots ==
  /\ \A k \in NLEntries : k \in Nat /\ k >= 1 /\ NLSlots[k] \in Slot
  /\ \E n \in Nat : DOMAIN NLSlots \cap DOMAIN Indirect = 1 .. n
<1>1. /\ \A k \in DOMAIN NLSlots : NLSlots[k] \in Slot
      /\ \E m \in Nat : DOMAIN NLSlots = 1 .. m
  <2>1. CASE Len(NLSections) = 0
    <3>1. NLSlots = <<>> BY <2>1 DEF NLSlots
    <3> QED BY <3>1
  <2>2. CASE Len(NLSections) # 0
    <3> DEFINE l == Len(NLSections)
    <3>1. l \in Nat /\ DOMAIN NLSections = 1 .. l BY LaunchAssumption DEF IsSeq
    <3>2. l \in DOMAIN NLSections BY <2>2, <3>1
    <3>3. IsSeq(NLSections[l]) /\ \A k \in DOMAIN NLSections[l] : NLSections[l][k] \in Slot
          BY <3>2, LaunchAssumption
    <3>4. NLSlots = NLSections[l] BY <2>2 DEF NLSlots
    <3> QED BY <3>3, <3>4 DEF IsSeq
  <2> QED BY <2>1, <2>2
<1>2. PICK m \in Nat : DOMAIN NLSlots = 1 .. m BY <1>1
<1>3. PICK i \in Nat : DOMAIN Indirect = 1 .. i BY LaunchAssumption DEF IsSeq
<1>4. PICK n \in Nat : n <= m /\ n <= i /\ (n = m \/ n = i) BY <1>2, <1>3
<1>5. DOMAIN NLSlots \cap DOMAIN Indirect = 1 .. n BY <1>2, <1>3, <1>4
<1> QED BY <1>1, <1>5 DEF NLEntries

LEMMA PointersInit == Init => Pointers
<1> SUFFICES ASSUME Init PROVE Pointers OBVIOUS
<1>1. pc = "parse" /\ resolved = <<>> /\ \A s \in Slot : ptr[s] = Raw BY DEF Init
<1> QED BY <1>1 DEF Pointers, Table, SoFar, Loading, Linked

(* When the last pass is over, it has been everywhere. *)
LEMMA PassesReachAll ==
  ASSUME Types, Progress, Pointers, FixupsDone
  PROVE  \A s \in Slot : Final(ptr[s], s)
<1>a. at \in Nat /\ at >= 1 BY DEF Types, TypeOK
<1>1. CASE pc = "chain" /\ at \notin Slot
  <2>1. format = "chained" BY <1>1 DEF Progress
  <2>2. \A s \in Slot : s < at BY <1>a, <1>1, Counted
  <2>3. \A s \in Slot : FixedUp(ptr[s], s) BY <1>1, <2>2 DEF Pointers, SoFar
  <2> QED BY <2>1, <2>3 DEF Final
<1>2. CASE pc = "nl" /\ at \notin DOMAIN NLSlots \cap DOMAIN Indirect
  <2>1. format # "chained" BY <1>2 DEF Progress
  <2>2. PICK n \in Nat : DOMAIN NLSlots \cap DOMAIN Indirect = 1 .. n BY EntriesAreSlots
  <2>3. \A k \in NLEntries : k \in 1 .. n BY <2>2 DEF NLEntries
  <2>4. \A k \in 1 .. n : k < at BY <1>a, <1>2, <2>2
  <2>5. \A s \in Slot : Listed(s) <=> \E k \in NLEntries : k < at /\ NLSlots[k] = s
        BY <2>3, <2>4 DEF Listed
  <2> QED BY <1>2, <2>1, <2>5 DEF Pointers, SoFar, Final
<1> QED BY <1>1, <1>2 DEF FixupsDone

(* A pointer that a table describes is bound when linking is over. *)
LEMMA FinalIsBound ==
  ASSUME Types, NEW s \in Slot, NEW v, Final(v, s), Described(s)
  PROVE  v.kind # "raw"
<1>0. TypeOK BY DEF Types
<1>1. CASE format = "chained"
  <2>1. FixedUp(v, s) /\ Slots[s].supported BY <1>1 DEF Final, Described
  <2>2. CASE v = Val("self", Image[Executable].base) BY <2>2 DEF Val
  <2>3. CASE ImportAnswered(v, Slots[s].import, "soft")
        BY <1>0, <2>3, AnswersBound DEF ImportAnswered, Stubs, Bound
  <2>4. CASE v = Val("zero", 0) BY <2>4 DEF Val
  <2> QED BY <2>1, <2>2, <2>3, <2>4 DEF FixedUp
<1>2. CASE format # "chained" /\ Listed(s)
  <2>1. PICK k \in NLEntries : Answers(v, LibSystem, Indirect[k], "trap") BY <1>2 DEF Final, Indirected
  <2> QED BY <1>0, <2>1, AnswersBound DEF Stubs, Bound
<1>3. CASE format # "chained" /\ ~Listed(s)
  <2> DEFINE i == Slots[s].import
             stub == IF Imports[i].weak THEN "zero" ELSE "trap"
  <2>1. ImportAnswered(v, i, stub) BY <1>3 DEF Final, Described, Opcoded
  <2>2. stub \in Stubs BY DEF Stubs
  <2> QED BY <1>0, <2>1, <2>2, AnswersBound DEF ImportAnswered, Bound
<1> QED BY <1>1, <1>2, <1>3

LEMMA PointersNext ==
  ASSUME Types, Progress, Phases, Pointers, [Next]_vars
  PROVE  Pointers'
<1> USE DEF world, loading, binding, starting, Goto
<1>a. at \in Nat /\ at >= 1 /\ resolved \in Seq(Value) /\ ptr \in [Slot -> Value] BY DEF Types, TypeOK
(* Steps before linking, and steps to an end. *)
<1>b. ASSUME UNCHANGED <<ptr, resolved>>, pc \in Loading, pc' \in Loading PROVE Pointers'
  <2>1. resolved' = <<>> /\ \A s \in Slot : ptr'[s] = Raw BY <1>b DEF Pointers, Table, SoFar
  <2> QED BY <1>b, <2>1 DEF Pointers, Table, SoFar, Loading, Linked
<1>c. ASSUME UNCHANGED <<ptr, resolved, libs, format>>, pc' \notin Loading \cup Linking, ~Linked'
      PROVE Pointers'
  <2>1. Table' BY <1>c, AnswersKept DEF Pointers, Table, Linking
  <2>2. \A s \in Slot : SoFar(ptr[s], s)' BY <1>c DEF SoFar, Linking
  <2> QED BY <2>1, <2>2 DEF Pointers
(* Steps after linking. *)
<1>d. ASSUME UNCHANGED <<ptr, resolved, libs, format>>, Linked, Linked' PROVE Pointers'
  <2>1. Table' BY <1>d, AnswersKept DEF Pointers, Table, Linked, Loading
  <2>2. \A s \in Slot : SoFar(ptr[s], s)' BY <1>d, FinalKept DEF Pointers, SoFar, Linked, Loading
  <2> QED BY <2>1, <2>2 DEF Pointers
<1>1. CASE Parse BY <1>b, <1>c, <1>1 DEF Parse, Fail, Loading, Linking, Linked
<1>2. CASE print_info BY <1>c, <1>2 DEF print_info, Loading, Linking, Linked
<1>3. CASE MapMain BY <1>b, <1>3 DEF MapMain, Loading
<1>4. CASE MapFails BY <1>c, <1>4 DEF MapFails, Fail, Loading, Linking, Linked
<1>5. CASE load_dependencies BY <1>b, <1>5 DEF load_dependencies, Loading
<1>6. CASE LoadDone
  <2>1. CASE ftype # "execute" BY <1>c, <1>6, <2>1 DEF LoadDone, Loading, Linking, Linked
  <2>2. CASE ftype = "execute"
    <3>1. /\ pc = "load" /\ pc' = "bind" /\ at' = 1 /\ format' = format
          /\ resolved' = <<>> /\ \A s \in Slot : ptr'[s] = Raw
          BY <1>6, <2>2 DEF LoadDone, Progress, Pointers, Table, SoFar, Loading
    <3>2. \A s \in Slot : Slots[s].import < 1 => ~(Slots[s].import \in DOMAIN Imports) BY Counted
    <3>3. \A s \in Slot : SoFar(ptr[s], s)'
          BY <3>1, <3>2 DEF SoFar, Opcoded, Loading, Linked
    <3> QED BY <3>1, <3>3 DEF Pointers, Table, Loading
  <2> QED BY <2>1, <2>2
<1>7. CASE bind
  <2>1. PICK v \in OrElse(resolve_symbol(Imports[at].dylib, Imports[at].symbol, Imports[at].weak), "trap") :
          ptr' = [s \in Slot |-> IF Slots[s].import = at THEN v ELSE ptr[s]]
        BY <1>7 DEF bind
  <2>2. ImportAnswered(v, at, IF Imports[at].weak THEN "zero" ELSE "trap")
        BY <2>1, LookUp DEF Types, ImportAnswered
  <2>3. /\ pc = "bind" /\ pc' = "bind" /\ at' = at + 1 /\ format = "opcodes" /\ at \in DOMAIN Imports
        /\ UNCHANGED <<libs, format, resolved>>
        BY <1>7 DEF bind
  <2>4. ASSUME NEW s \in Slot PROVE SoFar(ptr[s], s)'
    <3> DEFINE i == Slots[s].import
    <3>1. CASE i = at
      <4>1. Opcoded(v, s) BY <2>2, <2>3, <3>1 DEF Opcoded
      <4>2. Opcoded(v, s)' BY <2>3, <4>1, AnswersKept
      <4>3. ptr'[s] = v /\ i < at + 1 BY <1>a, <2>1, <3>1
      <4> QED BY <2>3, <4>2, <4>3 DEF SoFar, Loading, Linked
    <3>2. CASE i # at
      <4>1. ptr'[s] = ptr[s] /\ (i < at + 1 <=> i < at) BY <1>a, <2>1, <3>2, Counted
      <4>2. IF i < at THEN Opcoded(ptr[s], s) ELSE ptr[s] = Raw BY <2>3 DEF Pointers, SoFar
      <4>3. PICK u : u = ptr[s] OBVIOUS
      <4>4. IF i < at THEN Opcoded(u, s)' ELSE u = Raw BY <2>3, <4>2, <4>3, AnswersKept
      <4> QED BY <2>3, <4>1, <4>3, <4>4 DEF SoFar, Loading, Linked
    <3> QED BY <3>1, <3>2
  <2>5. Table' BY <2>3 DEF Pointers, Table, Loading
  <2> QED BY <2>4, <2>5 DEF Pointers
<1>8. CASE BindFails BY <1>c, <1>8 DEF BindFails, Fail, Loading, Linking, Linked
<1>9. CASE BindDone
  <2>1. /\ pc = "bind" /\ pc' \in {"imports", "nl"} /\ at' = 1 /\ UNCHANGED <<ptr, resolved, libs, format>>
        BY <1>9 DEF BindDone
  <2>2. resolved = <<>> /\ Len(<<>>) = 0 BY <2>1 DEF Pointers, Table
  <2>3. Table' BY <2>1, <2>2 DEF Table, Loading
  <2>4. ASSUME NEW s \in Slot PROVE SoFar(ptr[s], s)'
    <3> DEFINE i == Slots[s].import
    <3>1. IF i < at THEN Opcoded(ptr[s], s) ELSE ptr[s] = Raw BY <2>1 DEF Pointers, SoFar
    <3>2. CASE format = "chained"
      <4>1. pc' = "imports" BY <1>9, <3>2 DEF BindDone
      <4>2. ptr[s] = Raw BY <3>1, <3>2 DEF Opcoded
      <4> QED BY <2>1, <4>1, <4>2 DEF SoFar, Loading, Linked
    <3>3. CASE format # "chained"
      <4>1. pc' = "nl" BY <1>9, <3>3 DEF BindDone
      <4>2. Opcoded(ptr[s], s)
        <5>1. CASE i < at BY <3>1, <5>1
        <5>2. CASE ~(i < at)
          <6>1. ptr[s] = Raw BY <3>1, <5>2
          <6>2. ~(format = "opcodes" /\ i \in DOMAIN Imports)
            <7>1. format = "opcodes" => at \notin DOMAIN Imports BY <1>9 DEF BindDone
            <7>2. at \notin DOMAIN Imports => i \notin DOMAIN Imports BY <1>a, <5>2, Counted
            <7> QED BY <7>1, <7>2
          <6> QED BY <6>1, <6>2 DEF Opcoded
        <5> QED BY <5>1, <5>2
      <4>3. PICK u : u = ptr[s] OBVIOUS
      <4>4. Opcoded(u, s)' BY <2>1, <4>2, <4>3, AnswersKept
      <4>5. ~\E k \in NLEntries : k < 1 BY EntriesAreSlots
      <4> QED BY <2>1, <4>1, <4>3, <4>4, <4>5 DEF SoFar, Loading, Linked
    <3> QED BY <3>2, <3>3
  <2> QED BY <2>3, <2>4 DEF Pointers
<1>10. CASE resolve_external
  <2>0. pc = "imports" /\ UNCHANGED <<libs, format, ptr>> BY <1>10 DEF resolve_external
  <2>a. \A s \in Slot : ptr'[s] = Raw BY <2>0 DEF Pointers, SoFar
  <2>1. CASE at \in DOMAIN Imports
    <3>1. PICK v \in OrElse(resolve_symbol(Imports[at].dylib, Imports[at].symbol, FALSE), "soft") :
            resolved' = Append(resolved, v)
          BY <1>10, <2>1 DEF resolve_external
    <3>2. ImportAnswered(v, at, "soft") BY <3>1, LookUp DEF Types, ImportAnswered
    <3>3. pc' = "imports" /\ at' = at + 1 BY <1>10, <2>0, <2>1 DEF resolve_external
    <3>4. Len(resolved) = at - 1 BY <2>0 DEF Pointers, Table
    <3>5. /\ Len(resolved') = at /\ DOMAIN resolved' = 1 .. at /\ DOMAIN resolved = 1 .. at - 1
          /\ resolved'[at] = v /\ \A i \in 1 .. at - 1 : resolved'[i] = resolved[i]
          BY <1>a, <3>1, <3>4
    <3>6. \A i \in DOMAIN resolved' : ImportAnswered(resolved'[i], i, "soft")
          BY <1>a, <3>2, <3>5 DEF Pointers, Table
    <3>7. \A i \in DOMAIN resolved' : ImportAnswered(resolved[i], i, "soft")' BY <2>0, <3>6, AnswersKept
    <3>8. DOMAIN resolved' \subseteq DOMAIN Imports BY <1>a, <2>1, <3>5, Counted
    <3>9. Table' BY <1>a, <3>3, <3>5, <3>7, <3>8 DEF Table, Loading
    <3> QED BY <2>a, <3>3, <3>9 DEF Pointers, SoFar, Loading, Linked
  <2>2. CASE at \notin DOMAIN Imports
    <3>1. pc' = "chain" /\ at' = 1 /\ UNCHANGED resolved BY <1>10, <2>2 DEF resolve_external
    <3>2. Len(resolved) = at - 1 BY <2>0 DEF Pointers, Table
    <3>3. DOMAIN Imports \subseteq DOMAIN resolved BY <1>a, <2>2, <3>2, Counted
    <3>4. Table' BY <2>0, <3>1, <3>3, AnswersKept DEF Pointers, Table, Loading
    <3>5. \A s \in Slot : ~(s < 1) BY Counted
    <3> QED BY <2>a, <3>1, <3>4, <3>5 DEF Pointers, SoFar, Loading, Linked
  <2> QED BY <2>1, <2>2
<1>11. CASE apply_fixups
  <2>1. /\ pc = "chain" /\ pc' = "chain" /\ at \in Slot /\ at' = at + 1
        /\ UNCHANGED <<libs, format, resolved>> /\ ptr' = [ptr EXCEPT ![at] = Fixup(at)]
        BY <1>11 DEF apply_fixups
  <2>2. FixedUp(Fixup(at), at)
    <3> DEFINE i == Slots[at].import
    <3>a. DOMAIN resolved = DOMAIN Imports /\ 0 \notin DOMAIN Imports
      <4>1. DOMAIN Imports \subseteq DOMAIN resolved /\ DOMAIN resolved \subseteq DOMAIN Imports
            BY <2>1 DEF Pointers, Table
      <4>2. 0 \notin DOMAIN Imports BY Counted
      <4> QED BY <4>1, <4>2
    <3>1. CASE ~Slots[at].supported
      <4>1. ptr[at] = Raw BY <1>a, <2>1 DEF Pointers, SoFar
      <4> QED BY <3>1, <4>1 DEF Fixup, FixedUp
    <3>2. CASE Slots[at].supported /\ i = 0
      <4>1. Fixup(at) = Val("self", Image[Executable].base) BY <3>a, <3>2 DEF Fixup
      <4> QED BY <3>2, <4>1 DEF FixedUp
    <3>3. CASE Slots[at].supported /\ i # 0 /\ i \in DOMAIN resolved
      <4>1. Fixup(at) = resolved[i] BY <3>3 DEF Fixup
      <4>2. ImportAnswered(resolved[i], i, "soft") BY <3>3 DEF Pointers, Table
      <4> QED BY <3>a, <3>3, <4>1, <4>2 DEF FixedUp
    <3>4. CASE Slots[at].supported /\ i # 0 /\ i \notin DOMAIN resolved
      <4>1. Fixup(at) = Val("zero", 0) BY <3>4 DEF Fixup
      <4> QED BY <3>a, <3>4, <4>1 DEF FixedUp
    <3> QED BY <3>1, <3>2, <3>3, <3>4
  <2>3. ASSUME NEW s \in Slot PROVE SoFar(ptr[s], s)'
    <3>1. CASE s = at
      <4>1. PICK u : u = Fixup(at) OBVIOUS
      <4>2. FixedUp(u, s)' BY <2>1, <2>2, <3>1, <4>1, AnswersKept
      <4>3. ptr'[s] = u /\ s < at + 1 BY <1>a, <2>1, <3>1, <4>1
      <4> QED BY <2>1, <4>2, <4>3 DEF SoFar, Loading, Linked
    <3>2. CASE s # at
      <4>1. ptr'[s] = ptr[s] /\ (s < at + 1 <=> s < at) BY <1>a, <2>1, <3>2, Counted
      <4>2. IF s < at THEN FixedUp(ptr[s], s) ELSE ptr[s] = Raw BY <2>1 DEF Pointers, SoFar
      <4>3. PICK u : u = ptr[s] OBVIOUS
      <4>4. IF s < at THEN FixedUp(u, s)' ELSE u = Raw BY <2>1, <4>2, <4>3, AnswersKept
      <4> QED BY <2>1, <4>1, <4>3, <4>4 DEF SoFar, Loading, Linked
    <3> QED BY <3>1, <3>2
  <2>4. Table' BY <2>1, AnswersKept DEF Pointers, Table, Loading
  <2> QED BY <2>3, <2>4 DEF Pointers
<1>12. CASE bind_nl_symbol_ptrs
  <2>1. pc = "nl" /\ pc' = "nl" /\ at' = at + 1 /\ UNCHANGED <<libs, format, resolved>>
        BY <1>12 DEF bind_nl_symbol_ptrs
  <2>2. Table' BY <2>1, AnswersKept DEF Pointers, Table, Loading
  <2>3. ASSUME NEW s \in Slot, at \in NLEntries => s # NLSlots[at], ptr'[s] = ptr[s]
        PROVE  SoFar(ptr[s], s)'
    <3> DEFINE Been(n) == \E k \in NLEntries : k < n /\ NLSlots[k] = s
    <3>1. Been(at + 1) <=> Been(at) BY <1>a, <2>3, EntriesAreSlots
    <3>2. IF Been(at) THEN Indirected(ptr[s], s) ELSE Opcoded(ptr[s], s) BY <2>1 DEF Pointers, SoFar
    <3>3. PICK u : u = ptr[s] OBVIOUS
    <3>4. IF Been(at) THEN Indirected(u, s)' ELSE Opcoded(u, s)' BY <2>1, <3>2, <3>3, AnswersKept
    <3> QED BY <2>1, <2>3, <3>1, <3>3, <3>4 DEF SoFar, Loading, Linked
  <2>4. CASE at \notin NLEntries
    <3>1. ptr' = ptr BY <1>12, <2>4 DEF bind_nl_symbol_ptrs
    <3> QED BY <2>2, <2>3, <2>4, <3>1 DEF Pointers
  <2>5. CASE at \in NLEntries
    <3>1. PICK v \in OrElse(resolve_symbol(LibSystem, Indirect[at], FALSE), "trap") :
            ptr' = [ptr EXCEPT ![NLSlots[at]] = v]
          BY <1>12, <2>5 DEF bind_nl_symbol_ptrs
    <3>2. Answers(v, LibSystem, Indirect[at], "trap") BY <3>1, LookUp DEF Types
    <3>3. PICK t \in Slot : t = NLSlots[at] BY <2>5, EntriesAreSlots
    <3>4. ptr'[t] = v /\ \A s \in Slot \ {t} : ptr'[s] = ptr[s] BY <1>a, <3>1, <3>3
    <3>5. Indirected(v, t) BY <2>5, <3>2, <3>3 DEF Indirected
    <3>6. Indirected(v, t)' BY <2>1, <3>5, AnswersKept
    <3>7. \E k \in NLEntries : k < at + 1 /\ NLSlots[k] = t BY <1>a, <2>5, <3>3
    <3>8. SoFar(ptr[t], t)' BY <2>1, <3>4, <3>6, <3>7 DEF SoFar, Loading, Linked
    <3>9. \A s \in Slot \ {t} : SoFar(ptr[s], s)' BY <2>3, <3>3, <3>4
    <3> QED BY <2>2, <3>8, <3>9 DEF Pointers
  <2> QED BY <2>4, <2>5
<1>13. CASE FixupsDone
  <2>1. pc \in {"chain", "nl"} /\ pc' = "objc" /\ UNCHANGED <<ptr, resolved, libs, format>>
        BY <1>13 DEF FixupsDone
  <2>2. \A s \in Slot : Final(ptr[s], s)' BY <1>13, <2>1, PassesReachAll, FinalKept
  <2>3. Table' BY <2>1, AnswersKept DEF Pointers, Table, Loading
  <2> QED BY <2>1, <2>2, <2>3 DEF Pointers, SoFar, Loading, Linked
<1>14. CASE register_objc_metadata BY <1>d, <1>14 DEF register_objc_metadata, Linked, Phases
<1>15. CASE register_objc_class_names BY <1>d, <1>15 DEF register_objc_class_names, Linked, Phases
<1>16. CASE run_initializers BY <1>d, <1>16 DEF run_initializers, Linked, Phases
<1>17. CASE translate_swift_metadata BY <1>d, <1>17 DEF translate_swift_metadata, Linked, Phases
<1>18. CASE register_swift_sections BY <1>d, <1>18 DEF register_swift_sections, Linked, Phases
<1>19. CASE execute
  <2>1. CASE ftype = "execute" /\ pc' = "running" BY <1>d, <1>19, <2>1 DEF execute, Linked
  <2>2. CASE ~(ftype = "execute" /\ pc' = "running")
        BY <1>c, <1>19, <2>2 DEF execute, Loading, Linking, Linked
  <2> QED BY <2>1, <2>2
<1>20. CASE UNCHANGED vars
  <2>1. UNCHANGED <<pc, at, ftype, format, libs, ptr, resolved>> BY <1>20 DEF vars
  <2>2. Table' BY <2>1, AnswersKept DEF Pointers, Table
  <2>3. \A s \in Slot : SoFar(ptr[s], s)' BY <2>1, AnswersKept, FinalKept DEF Pointers, SoFar, Linked
  <2> QED BY <2>2, <2>3 DEF Pointers
<1> QED BY <1>1, <1>2, <1>3, <1>4, <1>5, <1>6, <1>7, <1>8, <1>9, <1>10, <1>11, <1>12, <1>13,
           <1>14, <1>15, <1>16, <1>17, <1>18, <1>19, <1>20 DEF Next

-----------------------------------------------------------------------------
(* Steps of the launch as steps of ProgramStart. *)

Abstract == PS!Next \/ UNCHANGED PS!vars

(* What a step that binds nothing leaves alone. *)
LEMMA OpenKept ==
  ASSUME UNCHANGED <<format, ptr>>
  PROVE  Open' = Open
BY DEF Open, Described

LEMMA PlainKept ==
  ASSUME UNCHANGED ftype
  PROVE  UNCHANGED (ftype # "execute")
OBVIOUS

(* A step that only moves main within a stage, or to the end. *)
LEMMA MovesOn ==
  ASSUME UNCHANGED <<ftype, format, ptr, classes, inits, layout, announced>>,
         Stage' = Stage \/ (Stage \in {"loading", "linking", "ready"} /\ Stage' = "ended")
  PROVE  Abstract
<1>1. Open' = Open BY OpenKept
<1>2. UNCHANGED (ftype # "execute") BY PlainKept
<1>3. CASE Stage' = Stage BY <1>1, <1>2, <1>3 DEF Abstract, PS!vars
<1>4. CASE Stage \in {"loading", "linking", "ready"} /\ Stage' = "ended"
  <2>1. PS!End BY <1>1, <1>2, <1>4 DEF PS!End
  <2> QED BY <2>1 DEF Abstract, PS!Next
<1> QED BY <1>3, <1>4

(* A step of a linking pass. *)
LEMMA PassBinds ==
  ASSUME Types, Types', pc \in Linking, pc' \in Linking,
         UNCHANGED <<ftype, format, classes, inits, layout, announced>>,
         \A s \in Slot : ptr'[s] = ptr[s] \/ ptr'[s].kind # "raw"
  PROVE  Abstract
<1>1. Open' \subseteq Open BY DEF Open, Described
<1>2. UNCHANGED (ftype # "execute") BY PlainKept
<1>3. Stage = "linking" /\ Stage' = "linking" BY DEF Stage, Linking
<1>4. ptr' \in [Slot -> Value] BY DEF Types, TypeOK
<1>5. PS!Bind BY <1>1, <1>2, <1>3, <1>4 DEF PS!Bind
<1> QED BY <1>5 DEF Abstract, PS!Next

LEMMA StepImplements ==
  ASSUME Types, Types', Progress, Phases, Unannounced, Pointers, [Next]_vars
  PROVE  Abstract
<1> USE DEF world, loading, binding, starting, Goto
<1>1. CASE Parse BY <1>1, MovesOn DEF Parse, Fail, Stage
<1>2. CASE print_info BY <1>2, MovesOn DEF print_info, Stage
<1>3. CASE MapMain BY <1>3, MovesOn DEF MapMain, Stage
<1>4. CASE MapFails BY <1>4, MovesOn DEF MapFails, Fail, Stage
<1>5. CASE load_dependencies BY <1>5, MovesOn DEF load_dependencies, Stage
<1>6. CASE LoadDone
  <2>1. CASE ftype # "execute" BY <1>6, <2>1, MovesOn DEF LoadDone, Stage
  <2>2. CASE ftype = "execute"
    <3>1. Stage = "loading" /\ Stage' = "linking" BY <1>6, <2>2 DEF LoadDone, Stage
    <3>2. Open' = Open /\ UNCHANGED (ftype # "execute")
          BY <1>6, OpenKept, PlainKept DEF LoadDone
    <3>3. PS!Link BY <1>6, <2>2, <3>1, <3>2 DEF LoadDone, PS!Link
    <3> QED BY <3>3 DEF Abstract, PS!Next
  <2> QED BY <2>1, <2>2
<1>7. CASE bind
  <2>1. PICK v \in OrElse(resolve_symbol(Imports[at].dylib, Imports[at].symbol, Imports[at].weak), "trap") :
          ptr' = [s \in Slot |-> IF Slots[s].import = at THEN v ELSE ptr[s]]
        BY <1>7 DEF bind
  <2>2. v.kind # "raw" BY <2>1, LookUp DEF Types, Bound
  <2>3. \A s \in Slot : ptr'[s] = ptr[s] \/ ptr'[s].kind # "raw" BY <2>1, <2>2
  <2> QED BY <1>7, <2>3, PassBinds DEF bind, Linking
<1>8. CASE BindFails BY <1>8, MovesOn DEF BindFails, Fail, Stage
<1>9. CASE BindDone BY <1>9, PassBinds DEF BindDone, Linking
<1>10. CASE resolve_external BY <1>10, PassBinds DEF resolve_external, Linking
<1>11. CASE apply_fixups
  <2>1. Fixup(at) = ptr[at] \/ Fixup(at).kind # "raw"
    <3>1. CASE Slots[at].supported BY <1>11, <3>1, FixupIsValue DEF apply_fixups, Bound
    <3>2. CASE ~Slots[at].supported BY <3>2 DEF Fixup
    <3> QED BY <3>1, <3>2
  <2>2. \A s \in Slot : ptr'[s] = ptr[s] \/ ptr'[s].kind # "raw"
        BY <1>11, <2>1 DEF apply_fixups, Types, TypeOK
  <2> QED BY <1>11, <2>2, PassBinds DEF apply_fixups, Linking
<1>12. CASE bind_nl_symbol_ptrs
  <2>1. \A s \in Slot : ptr'[s] = ptr[s] \/ ptr'[s].kind # "raw"
    <3>1. CASE UNCHANGED ptr BY <3>1
    <3>2. CASE \E v \in OrElse(resolve_symbol(LibSystem, Indirect[at], FALSE), "trap") :
                 ptr' = [ptr EXCEPT ![NLSlots[at]] = v]
      <4>1. PICK v \in OrElse(resolve_symbol(LibSystem, Indirect[at], FALSE), "trap") :
              ptr' = [ptr EXCEPT ![NLSlots[at]] = v]
            BY <3>2
      <4>2. Bound(v) BY <4>1, LookUp DEF Types
      <4> QED BY <4>1, <4>2 DEF Types, TypeOK, Bound
    <3> QED BY <1>12, <3>1, <3>2 DEF bind_nl_symbol_ptrs
  <2> QED BY <1>12, <2>1, PassBinds DEF bind_nl_symbol_ptrs, Linking
<1>13. CASE FixupsDone
  <2>1. Stage = "linking" /\ Stage' = "initialising" BY <1>13 DEF FixupsDone, Stage
  <2>2. Open' = Open /\ UNCHANGED (ftype # "execute")
        BY <1>13, OpenKept, PlainKept DEF FixupsDone
  <2>3. \A s \in Slot : Final(ptr[s], s) BY <1>13, PassesReachAll
  <2>5. Open = {} BY <2>3, FinalIsBound DEF Open
  <2>6. PS!StartInit BY <1>13, <2>1, <2>2, <2>5 DEF FixupsDone, PS!StartInit
  <2> QED BY <2>6 DEF Abstract, PS!Next
<1>14. CASE register_objc_metadata
  <2>1. PICK n \in left : left' = left \ {n} /\ classes' = classes \cup {n}
        BY <1>14 DEF register_objc_metadata
  <2>2. Open' = Open /\ UNCHANGED (ftype # "execute")
        BY <1>14, OpenKept, PlainKept DEF register_objc_metadata
  <2>3. Stage = "initialising" /\ Stage' = "initialising" BY <1>14 DEF register_objc_metadata, Stage
  <2>4. n \in Name \cup {Executable} BY DEF Types, TypeOK
  <2>5. n \notin classes /\ inits = {} /\ layout = "darwin" BY <1>14 DEF register_objc_metadata, Phases
  <2>6. PS!Register(n) BY <1>14, <2>1, <2>2, <2>3, <2>5 DEF register_objc_metadata, PS!Register
  <2> QED BY <2>4, <2>6 DEF Abstract, PS!Next
<1>15. CASE register_objc_class_names
  <2>2. Open' = Open /\ UNCHANGED (ftype # "execute")
        BY <1>15, OpenKept, PlainKept DEF register_objc_class_names
  <2>3. Stage = "initialising" /\ Stage' = "initialising" BY <1>15 DEF register_objc_class_names, Stage
  <2>5. Executable \notin classes /\ inits = {} /\ layout = "darwin"
        BY <1>15 DEF register_objc_class_names, Phases
  <2>6. PS!Register(Executable)
        BY <1>15, <2>2, <2>3, <2>5 DEF register_objc_class_names, PS!Register
  <2> QED BY <2>6 DEF Abstract, PS!Next
<1>16. CASE run_initializers
  <2>2. Open' = Open /\ UNCHANGED (ftype # "execute")
        BY <1>16, OpenKept, PlainKept DEF run_initializers
  <2>3. Stage = "initialising" BY <1>16 DEF run_initializers, Stage
  <2>4. left \cup {Executable} \subseteq classes /\ left \cap inits = {} /\ Executable \notin inits
        BY <1>16 DEF run_initializers, Phases
  <2>5. CASE left = {}
    <3>1. Stage' = "ready" BY <1>16, <2>5 DEF run_initializers, Stage
    <3>2. PS!Initialise(Executable)
          BY <1>16, <2>2, <2>3, <2>4, <2>5, <3>1 DEF run_initializers, PS!Initialise
    <3> QED BY <3>2 DEF Abstract, PS!Next
  <2>6. CASE left # {}
    <3>1. PICK n \in left : left' = left \ {n} /\ inits' = inits \cup {n} /\ pc' = pc
          BY <1>16, <2>6 DEF run_initializers
    <3>2. n \in Name /\ n # Executable BY LaunchAssumption DEF Types, TypeOK
    <3>3. Stage' = Stage BY <1>16, <3>1 DEF run_initializers, Stage
    <3>4. PS!Initialise(n)
          BY <1>16, <2>2, <2>3, <2>4, <3>1, <3>2, <3>3 DEF run_initializers, PS!Initialise
    <3> QED BY <3>2, <3>4 DEF Abstract, PS!Next
  <2> QED BY <2>5, <2>6
<1>17. CASE translate_swift_metadata
  <2>2. Open' = Open /\ UNCHANGED (ftype # "execute")
        BY <1>17, OpenKept, PlainKept DEF translate_swift_metadata
  <2>3. Stage = "ready" /\ Stage' = "ready" BY <1>17 DEF translate_swift_metadata, Stage
  <2>4. ~announced BY <1>17 DEF translate_swift_metadata, Unannounced
  <2>5. PS!Translate BY <1>17, <2>2, <2>3, <2>4 DEF translate_swift_metadata, PS!Translate
  <2> QED BY <2>5 DEF Abstract, PS!Next
<1>18. CASE register_swift_sections
  <2>2. Open' = Open /\ UNCHANGED (ftype # "execute")
        BY <1>18, OpenKept, PlainKept DEF register_swift_sections
  <2>3. Stage = "ready" /\ Stage' = "ready" /\ layout = "linux"
        BY <1>18 DEF register_swift_sections, Stage, Phases
  <2>4. announced = FALSE BY <1>18 DEF register_swift_sections, Unannounced
  <2>5. CASE announced' = TRUE
    <3>1. PS!Announce BY <1>18, <2>2, <2>3, <2>5 DEF register_swift_sections, PS!Announce
    <3> QED BY <3>1 DEF Abstract, PS!Next
  <2>6. CASE announced' = FALSE
    <3>1. UNCHANGED PS!vars BY <1>18, <2>2, <2>3, <2>4, <2>6 DEF register_swift_sections, PS!vars
    <3> QED BY <3>1 DEF Abstract
  <2>7. announced' \in BOOLEAN BY <1>18 DEF register_swift_sections
  <2> QED BY <2>5, <2>6, <2>7
<1>19. CASE execute
  <2>1. CASE pc' = "failed" BY <1>19, <2>1, MovesOn DEF execute, Stage
  <2>2. CASE pc' = "running"
    <3>1. Open' = Open /\ UNCHANGED (ftype # "execute")
          BY <1>19, OpenKept, PlainKept DEF execute
    <3>2. Stage' = "running" BY <2>2 DEF Stage
    <3>3. (Stage = "ready" /\ layout = "linux") \/ (Stage = "loading" /\ ftype # "execute")
          BY <1>19 DEF execute, Stage, Phases
    <3>4. PS!Start BY <1>19, <3>1, <3>2, <3>3 DEF execute, PS!Start
    <3> QED BY <3>4 DEF Abstract, PS!Next
  <2> QED BY <1>19, <2>1, <2>2 DEF execute
<1>20. CASE UNCHANGED vars BY <1>20, MovesOn DEF vars, Stage
<1> QED BY <1>1, <1>2, <1>3, <1>4, <1>5, <1>6, <1>7, <1>8, <1>9, <1>10, <1>11, <1>12, <1>13,
           <1>14, <1>15, <1>16, <1>17, <1>18, <1>19, <1>20 DEF Next

LEMMA InitImplements == Init => PS!Init
<1> SUFFICES ASSUME Init PROVE PS!Init OBVIOUS
<1>1. Stage = "loading" BY DEF Init, Stage
<1>2. Open \subseteq Slot BY DEF Open
<1>3. ptr \in [Slot -> Value] BY TypesInit DEF Types, TypeOK
<1>4. (ftype # "execute") \in BOOLEAN OBVIOUS
<1> QED BY <1>1, <1>2, <1>3, <1>4 DEF Init, PS!Init

(* Whatever files, symbols and slots there are, main implements            *)
(* ProgramStart: nothing of the program or its libraries is registered or  *)
(* run before every pointer the fixups describe is bound, and classes come *)
(* before initialisers, the program's own last.                            *)
THEOREM LaunchRefinesProgramStart == Spec => StartsProperly
<1> DEFINE I == Types /\ Progress /\ Phases /\ Unannounced /\ Pointers
<1>1. Init => I BY TypesInit, ProgressInit, PhasesInit, PointersInit
<1>2. I /\ [Next]_vars => I' BY TypesNext, ProgressNext, PhasesNext, UnannouncedNext, PointersNext
<1>3. I /\ I' /\ [Next]_vars => [PS!Next]_(PS!vars) BY StepImplements DEF Abstract
<1> HIDE DEF I
<1> QED BY InitImplements, <1>1, <1>2, <1>3, PTL DEF Spec, StartsProperly, PS!Spec

-----------------------------------------------------------------------------
(* Mappings *)

Started == pc \notin {"parse", "parsed", "failed", "inspected"}

(* What is mapped where a file that is not slid belongs is a file that     *)
(* belongs there.                                                          *)
Mapped ==
  /\ pc \in {"parse", "parsed"} => DOMAIN libs = {}
  /\ Started => \A p \in Present : Image[p].base # 0 => AtOwnAddress(Image[p].base)

LEMMA MapKeeps ==
  ASSUME Types, NEW p \in Path, NEW a \in Address, map_binary(p, a), Present' = Present \cup {p},
         NEW q \in Present \cup {p}, Image[q].base # 0,
         q \in Present => AtOwnAddress(Image[q].base) \/ q = p
  PROVE  AtOwnAddress(Image[q].base)'
<1>1. mem' = [mem EXCEPT ![a] = p] /\ a \in At(p) BY DEF map_binary
<1>2. mem \in [Address -> Path \cup {None}] BY DEF Types, TypeOK
<1>3. mem'[a] = p /\ \A b \in Address \ {a} : mem'[b] = mem[b] BY <1>1, <1>2
<1>4. Image[p].base = a \/ (Image[p].base = 0 /\ mem[a] = None) BY <1>1 DEF At
<1>5. PICK b : b = Image[q].base OBVIOUS
<1>6. CASE b = a
  <2>1. Image[p].base = a
    <3>1. CASE q = p BY <1>4, <1>5, <1>6, <3>1
    <3>2. CASE q # p
      <4>1. mem[a] \in Present BY <1>5, <1>6, <3>2 DEF AtOwnAddress
      <4>2. Present \subseteq Path BY LaunchAssumption DEF Present, Types, TypeOK
      <4> QED BY <1>4, <4>1, <4>2, LaunchAssumption
    <3> QED BY <3>1, <3>2
  <2>2. mem'[b] \in Present' /\ Image[mem'[b]].base = b BY <1>3, <1>6, <2>1
  <2> QED BY <1>5, <2>2 DEF AtOwnAddress
<1>7. CASE b # a
  <2>1. q # p BY <1>4, <1>5, <1>7
  <2>2. mem[b] \in Present /\ Image[mem[b]].base = b BY <1>5, <2>1 DEF AtOwnAddress
  <2>3. Present \subseteq Path BY LaunchAssumption DEF Present, Types, TypeOK
  <2>4. b \in Address BY <1>5, <2>1, <2>3, BaseIsAddress
  <2>5. mem'[b] \in Present' /\ Image[mem'[b]].base = b BY <1>3, <1>7, <2>2, <2>4
  <2> QED BY <1>5, <2>5 DEF AtOwnAddress
<1> QED BY <1>6, <1>7

LEMMA MappedInit == Init => Mapped
BY DEF Init, Mapped, Started

LEMMA MappedNext ==
  ASSUME Types, Mapped, [Next]_vars
  PROVE  Mapped'
<1> USE DEF world, loading, binding, starting, Goto
<1>0. ASSUME UNCHANGED <<libs, mem>>, Started' => Started,
             pc' \in {"parse", "parsed"} => pc \in {"parse", "parsed"}
      PROVE Mapped'
  <2>1. Present' = Present BY <1>0 DEF Present
  <2>2. \A b : AtOwnAddress(b) => AtOwnAddress(b)' BY <1>0, <2>1 DEF AtOwnAddress
  <2> QED BY <1>0, <2>1, <2>2 DEF Mapped
<1>1. CASE Parse BY <1>0, <1>1 DEF Parse, Fail, Started
<1>2. CASE print_info BY <1>0, <1>2 DEF print_info, Started
<1>3. CASE MapMain
  <2>1. PICK a \in Address : map_binary(Executable, a) BY <1>3 DEF MapMain
  <2>2. pc = "parsed" /\ pc' = "load" /\ UNCHANGED libs BY <1>3 DEF MapMain
  <2>3. Present = {Executable} /\ Present' = Present BY <2>2 DEF Mapped, Present
  <2>4. Executable \in Path BY LaunchAssumption
  <2>5. Image[Executable].base # 0 => AtOwnAddress(Image[Executable].base)'
        BY <2>1, <2>3, <2>4, MapKeeps
  <2> QED BY <2>2, <2>3, <2>5 DEF Mapped
<1>4. CASE MapFails BY <1>0, <1>4 DEF MapFails, Fail, Started
<1>5. CASE load_dependencies
  <2>1. CASE Skip BY <1>0, <1>5, <2>1 DEF load_dependencies, Skip, Started
  <2>2. CASE Miss BY <1>0, <1>5, <2>2 DEF load_dependencies, Miss, Started
  <2>3. CASE LoadLib
    <3>a. PICK h : h = Head(todo) OBVIOUS
    <3>1. PICK p \in Found(h), a \in Address :
            /\ map_binary(p, a)
            /\ libs' = [n \in DOMAIN libs \cup {h.name} |->
                          IF n = h.name THEN [path |-> p, at |-> a] ELSE libs[n]]
          BY <2>3, <3>a DEF LoadLib
    <3>2. p \in Path BY DEF Found
    <3>3. h.name \notin DOMAIN libs BY <2>3, <3>a DEF LoadLib, Types, TypeOK
    <3>4. Present' = Present \cup {p}
      <4>1. /\ DOMAIN libs' = DOMAIN libs \cup {h.name} /\ libs'[h.name].path = p
            /\ \A n \in DOMAIN libs : libs'[n] = libs[n]
            BY <3>1, <3>3
      <4> QED BY <4>1 DEF Present
    <3>5. pc = "load" /\ pc' = "load" BY <1>5 DEF load_dependencies
    <3>6. \A q \in Present : Image[q].base # 0 => AtOwnAddress(Image[q].base) BY <3>5 DEF Mapped, Started
    <3>7. \A q \in Present \cup {p} : Image[q].base # 0 => AtOwnAddress(Image[q].base)'
          BY <3>1, <3>2, <3>4, <3>6, MapKeeps
    <3> QED BY <3>4, <3>5, <3>7 DEF Mapped
  <2> QED BY <1>5, <2>1, <2>2, <2>3 DEF load_dependencies
<1>6. CASE LoadDone BY <1>0, <1>6 DEF LoadDone, Started
<1>7. CASE bind BY <1>0, <1>7 DEF bind, Started
<1>8. CASE BindFails BY <1>0, <1>8 DEF BindFails, Fail, Started
<1>9. CASE BindDone BY <1>0, <1>9 DEF BindDone, Started
<1>10. CASE resolve_external BY <1>0, <1>10 DEF resolve_external, Started
<1>11. CASE apply_fixups BY <1>0, <1>11 DEF apply_fixups, Started
<1>12. CASE bind_nl_symbol_ptrs BY <1>0, <1>12 DEF bind_nl_symbol_ptrs, Started
<1>13. CASE FixupsDone BY <1>0, <1>13 DEF FixupsDone, Started
<1>14. CASE register_objc_metadata BY <1>0, <1>14 DEF register_objc_metadata, Started
<1>15. CASE register_objc_class_names BY <1>0, <1>15 DEF register_objc_class_names, Started
<1>16. CASE run_initializers BY <1>0, <1>16 DEF run_initializers, Started
<1>17. CASE translate_swift_metadata BY <1>0, <1>17 DEF translate_swift_metadata, Started
<1>18. CASE register_swift_sections BY <1>0, <1>18 DEF register_swift_sections, Started
<1>19. CASE execute BY <1>0, <1>19 DEF execute, Started
<1>20. CASE UNCHANGED vars BY <1>0, <1>20 DEF vars, Started
<1> QED BY <1>1, <1>2, <1>3, <1>4, <1>5, <1>6, <1>7, <1>8, <1>9, <1>10, <1>11, <1>12, <1>13,
           <1>14, <1>15, <1>16, <1>17, <1>18, <1>19, <1>20 DEF Next

(* A pointer with an address leads to a file that is there. *)
LEMMA FinalLeads ==
  ASSUME Types, Mapped, Started, NEW s \in Slot, NEW v, Final(v, s), v.at # 0
  PROVE  AtOwnAddress(v.at)
<1>0. \A k : Raw.at = 0 /\ Val(k, 0).at = 0 BY DEF Raw, Val
<1>1. \A d, sym, stub : Answers(v, d, sym, stub) => AtOwnAddress(v.at)
  <2> SUFFICES ASSUME NEW d, NEW sym, NEW stub, Answers(v, d, sym, stub) PROVE AtOwnAddress(v.at)
      OBVIOUS
  <2>1. PICK n \in Exporters(sym) : v = Val("image", Image[libs[n].path].base) BY <1>0 DEF Answers
  <2>2. libs[n].path \in Present BY DEF Exporters, Present
  <2>3. v.at = Image[libs[n].path].base BY <2>1 DEF Val
  <2> QED BY <2>2, <2>3 DEF Mapped
<1>2. CASE v = Val("self", Image[Executable].base)
  <2>1. v.at = Image[Executable].base BY <1>2 DEF Val
  <2>2. Executable \in Present BY DEF Present
  <2> QED BY <2>1, <2>2 DEF Mapped
<1> QED BY <1>0, <1>1, <1>2 DEF Final, FixedUp, Opcoded, Indirected, ImportAnswered

(* Whatever files, tables and registries there are, and also when files    *)
(* are mapped over each other: after linking each pointer holds what its   *)
(* table asks for, looked up among all loaded libraries, and an address    *)
(* in a pointer is one where a file with that address is mapped.           *)
THEOREM PointersAreAsAsked == Spec => []PointersAsAsked
<1> DEFINE I == Types /\ Progress /\ Phases /\ Pointers /\ Mapped
<1>1. Init => I BY TypesInit, ProgressInit, PhasesInit, PointersInit, MappedInit
<1>2. I /\ [Next]_vars => I' BY TypesNext, ProgressNext, PhasesNext, PointersNext, MappedNext
<1>3. I => PointersAsAsked
  <2> SUFFICES ASSUME I, Linked PROVE \A s \in Slot : Final(ptr[s], s) /\ (ptr[s].at # 0 => AtOwnAddress(ptr[s].at))
      BY Zenon DEF PointersAsAsked, Linked, Final
  <2>1. \A s \in Slot : Final(ptr[s], s) BY DEF Pointers, SoFar
  <2>2. Started BY DEF Linked, Started
  <2> QED BY <2>1, <2>2, FinalLeads
<1> HIDE DEF I
<1> QED BY <1>1, <1>2, <1>3, PTL DEF Spec

-----------------------------------------------------------------------------
(* Dependencies *)

(* A request is for a dependency of the program or a loaded library. *)
Legitimate(req) ==
  /\ req.loader \in Present /\ req.name \in Deps(req.loader)
  /\ req.rpaths = Image[req.loader].rpaths

RequestFor(n, p) == [name |-> n, loader |-> p, rpaths |-> Image[p].rpaths]

SettledFor(n) ==
  \E p \in Present :
    n \in Deps(p) /\ Found(RequestFor(n, p)) = IF n \in DOMAIN libs THEN {libs[n].path} ELSE {}

Settled ==
  /\ \A i \in DOMAIN todo : Legitimate(todo[i])
  /\ pc \in {"parse", "parsed"} => loaded = {}
  /\ Started => \A p \in Present : Deps(p) \subseteq DOMAIN Registry \cup loaded \cup Wanted
  /\ \A n \in loaded : SettledFor(n)

LEMMA RequestsLegitimate ==
  ASSUME NEW p \in Path
  PROVE  /\ \A i \in DOMAIN Requests(p) : /\ Requests(p)[i].loader = p
                                          /\ Requests(p)[i].name \in Deps(p)
                                          /\ Requests(p)[i].rpaths = Image[p].rpaths
         /\ \A n \in Deps(p) : \E i \in DOMAIN Requests(p) : Requests(p)[i].name = n
<1> DEFINE d == Image[p].deps
           r == Requests(p)
<1>1. Len(d) \in Nat /\ DOMAIN d = 1 .. Len(d) BY LaunchAssumption DEF IsSeq
<1>2. DOMAIN r = DOMAIN d BY DEF Requests
<1>3. \A i \in DOMAIN r : r[i].name = d[Len(d) + 1 - i] /\ r[i].loader = p /\ r[i].rpaths = Image[p].rpaths
      BY DEF Requests
<1>4. \A i \in 1 .. Len(d) : Len(d) + 1 - i \in 1 .. Len(d) /\ Len(d) + 1 - (Len(d) + 1 - i) = i
      BY <1>1
<1>5. \A n \in Deps(p) : \E i \in DOMAIN r : r[i].name = n
  <2> SUFFICES ASSUME NEW n \in Deps(p) PROVE \E i \in DOMAIN r : r[i].name = n OBVIOUS
  <2>1. PICK j \in 1 .. Len(d) : n = d[j] BY <1>1 DEF Deps
  <2>2. Len(d) + 1 - j \in DOMAIN r /\ r[Len(d) + 1 - j].name = n BY <1>1, <1>2, <1>3, <1>4, <2>1
  <2> QED BY <2>2
<1>6. \A i \in DOMAIN r : r[i].name \in Deps(p) BY <1>1, <1>2, <1>3, <1>4 DEF Deps
<1> QED BY <1>3, <1>5, <1>6

(* The requests are the head and those of the tail. *)
LEMMA HeadOrTail ==
  ASSUME Types, todo # <<>>
  PROVE  /\ Head(todo) \in Request /\ 1 \in DOMAIN todo /\ Head(todo) = todo[1]
         /\ Tail(todo) \in Seq(Request)
         /\ \A j \in DOMAIN Tail(todo) : \E i \in DOMAIN todo : Tail(todo)[j] = todo[i]
         /\ \A i \in DOMAIN todo : todo[i] = Head(todo) \/ \E j \in DOMAIN Tail(todo) : Tail(todo)[j] = todo[i]
<1> DEFINE t == Tail(todo)
<1>1. todo \in Seq(Request) BY DEF Types, TypeOK, Request
<1>2. /\ Head(todo) \in Request /\ t \in Seq(Request) /\ Len(t) = Len(todo) - 1
      /\ \A i \in 1 .. Len(t) : t[i] = todo[i + 1]
      BY <1>1, HeadTailProperties
<1>3. DOMAIN todo = 1 .. Len(todo) /\ DOMAIN t = 1 .. Len(t) /\ Len(todo) \in Nat /\ Len(t) \in Nat
      BY <1>1, <1>2
<1>4. Head(todo) = todo[1] BY <1>1
<1>5. 1 \in DOMAIN todo BY <1>2, <1>3
<1>6. \A j \in DOMAIN t : j + 1 \in DOMAIN todo /\ t[j] = todo[j + 1] BY <1>2, <1>3
<1>7. \A i \in DOMAIN todo : i = 1 \/ (i - 1 \in DOMAIN t /\ t[i - 1] = todo[i]) BY <1>2, <1>3
<1> QED BY <1>2, <1>4, <1>5, <1>6, <1>7

LEMMA SettledInit == Init => Settled
BY DEF Init, Settled, Started

LEMMA LoadSettles ==
  ASSUME Types, Settled, load_dependencies
  PROVE  Settled'
<1> DEFINE t == Tail(todo)
<1>a. PICK h : h = Head(todo) OBVIOUS
<1>1. /\ pc = "load" /\ pc' = "load" /\ todo # <<>> /\ UNCHANGED <<disk, sick>>
      BY DEF load_dependencies, world
<1>2. /\ h \in Request /\ 1 \in DOMAIN todo /\ h = todo[1] /\ t \in Seq(Request)
      /\ \A j \in DOMAIN t : \E i \in DOMAIN todo : t[j] = todo[i]
      /\ \A i \in DOMAIN todo : todo[i] = h \/ \E j \in DOMAIN t : t[j] = todo[i]
      BY <1>1, <1>a, HeadOrTail
<1>3. Legitimate(h) /\ \A j \in DOMAIN t : Legitimate(t[j]) BY <1>2 DEF Settled
<1>4. Started /\ Started' BY <1>1 DEF Started
<1>5. \A n \in Wanted : n = h.name \/ \E j \in DOMAIN t : t[j].name = n BY <1>2 DEF Wanted
<1>6. h = RequestFor(h.name, h.loader) BY <1>2, <1>3 DEF Request, RequestFor, Legitimate
<1>7. \A q : Found(q)' = Found(q) BY <1>1 DEF Found, Parses
<1>8. DOMAIN libs \subseteq loaded BY DEF Types, TypeOK
<1> HIDE DEF t
<1>9. CASE Skip
  <2>1. h.name \in loaded \cup DOMAIN Registry /\ todo' = t /\ UNCHANGED <<loaded, libs, mem>>
        BY <1>9, <1>a DEF Skip, t
  <2>2. \A i \in DOMAIN todo' : Legitimate(todo[i])' BY <1>3, <2>1 DEF Legitimate, Present
  <2>3. Wanted \subseteq Wanted' \cup {h.name} BY <1>5, <2>1 DEF Wanted
  <2>4. Present' = Present BY <2>1 DEF Present
  <2>5. \A p \in Present' : Deps(p) \subseteq DOMAIN Registry \cup loaded' \cup Wanted'
        BY <1>4, <2>1, <2>3, <2>4 DEF Settled
  <2>6. \A n \in loaded' : SettledFor(n)'
        BY <1>7, <2>1, <2>4 DEF Settled, SettledFor
  <2> QED BY <1>1, <2>2, <2>5, <2>6 DEF Settled
<1>10. CASE Miss
  <2>1. /\ h.name \notin loaded /\ todo' = t /\ UNCHANGED <<libs, mem>>
        /\ loaded' = loaded \cup {h.name} /\ Found(h) = {}
        BY <1>10, <1>a DEF Miss, t
  <2>2. \A i \in DOMAIN todo' : Legitimate(todo[i])' BY <1>3, <2>1 DEF Legitimate, Present
  <2>3. Wanted \subseteq Wanted' \cup {h.name} BY <1>5, <2>1 DEF Wanted
  <2>4. Present' = Present BY <2>1 DEF Present
  <2>5. \A p \in Present' : Deps(p) \subseteq DOMAIN Registry \cup loaded' \cup Wanted'
        BY <1>4, <2>1, <2>3, <2>4 DEF Settled
  <2>6. \A n \in loaded : SettledFor(n)'
        BY <1>7, <2>1, <2>4 DEF Settled, SettledFor
  <2>7. SettledFor(h.name)'
    <3>1. h.loader \in Present' /\ h.name \in Deps(h.loader) BY <1>3, <2>4 DEF Legitimate
    <3>2. h.name \notin DOMAIN libs' BY <1>8, <2>1
    <3>3. Found(RequestFor(h.name, h.loader))' = {} BY <1>6, <1>7, <2>1
    <3> QED BY <3>1, <3>2, <3>3 DEF SettledFor
  <2>8. \A n \in loaded' : SettledFor(n)' BY <2>1, <2>6, <2>7
  <2> QED BY <1>1, <2>2, <2>5, <2>8 DEF Settled
<1>11. CASE LoadLib
  <2>1. PICK p \in Found(h), a \in Address :
          /\ libs' = [n \in DOMAIN libs \cup {h.name} |->
                        IF n = h.name THEN [path |-> p, at |-> a] ELSE libs[n]]
          /\ todo' = Requests(p) \o t
        BY <1>11, <1>a DEF LoadLib, t
  <2>2. h.name \notin loaded /\ loaded' = loaded \cup {h.name} BY <1>11, <1>a DEF LoadLib
  <2>3. p \in Path /\ Found(h) = {p} BY DEF Found
  <2>4. DOMAIN libs' = DOMAIN libs \cup {h.name} /\ libs'[h.name].path = p
        /\ \A n \in DOMAIN libs : libs'[n] = libs[n]
        BY <1>8, <2>1, <2>2
  <2>5. Present' = Present \cup {p} BY <2>4 DEF Present
  <2>6. Requests(p) \in Seq(Request) BY <2>3, RequestsTyped
  <2>7. /\ \A i \in DOMAIN todo' : \/ \E k \in DOMAIN Requests(p) : todo'[i] = Requests(p)[k]
                                   \/ \E k \in DOMAIN t : todo'[i] = t[k]
        /\ \A k \in DOMAIN Requests(p) : \E i \in DOMAIN todo' : todo'[i] = Requests(p)[k]
        /\ \A k \in DOMAIN t : \E i \in DOMAIN todo' : todo'[i] = t[k]
    <3> DEFINE r == Requests(p)
    <3>1. r \in Seq(Request) /\ t \in Seq(Request) BY <1>2, <2>6
    <3> HIDE DEF r
    <3>2. /\ Len(r \o t) = Len(r) + Len(t) /\ DOMAIN (r \o t) = 1 .. Len(r) + Len(t)
          /\ \A i \in 1 .. Len(r) + Len(t) : (r \o t)[i] = IF i <= Len(r) THEN r[i] ELSE t[i - Len(r)]
          BY <3>1
    <3>3. Len(r) \in Nat /\ Len(t) \in Nat /\ DOMAIN r = 1 .. Len(r) /\ DOMAIN t = 1 .. Len(t) BY <3>1
    <3>4. \A i \in DOMAIN (r \o t) : \/ i \in DOMAIN r /\ (r \o t)[i] = r[i]
                                     \/ i - Len(r) \in DOMAIN t /\ (r \o t)[i] = t[i - Len(r)]
          BY <3>2, <3>3
    <3>5. \A k \in DOMAIN r : k \in DOMAIN (r \o t) /\ (r \o t)[k] = r[k] BY <3>2, <3>3
    <3>6. \A k \in DOMAIN t : Len(r) + k \in DOMAIN (r \o t) /\ (r \o t)[Len(r) + k] = t[k]
          BY <3>2, <3>3
    <3>7. todo' = r \o t BY <2>1 DEF r
    <3> QED BY <3>4, <3>5, <3>6, <3>7 DEF r
  <2>8. \A i \in DOMAIN todo' : Legitimate(todo[i])'
        BY <1>3, <2>3, <2>5, <2>7, RequestsLegitimate DEF Legitimate
  <2>9. Wanted \subseteq Wanted' \cup {h.name} BY <1>5, <2>7 DEF Wanted
  <2>10. Deps(p) \subseteq Wanted' BY <2>3, <2>7, RequestsLegitimate DEF Wanted
  <2>11. \A q \in Present' : Deps(q) \subseteq DOMAIN Registry \cup loaded' \cup Wanted'
         BY <1>4, <2>2, <2>5, <2>9, <2>10 DEF Settled
  <2>12. ASSUME NEW n \in loaded PROVE SettledFor(n)'
    <3>1. n # h.name BY <2>2
    <3>2. SettledFor(n) BY DEF Settled
    <3> QED BY <1>7, <2>4, <2>5, <3>1, <3>2 DEF SettledFor
  <2>13. SettledFor(h.name)'
    <3>1. h.loader \in Present' /\ h.name \in Deps(h.loader) BY <1>3, <2>5 DEF Legitimate
    <3>2. Found(RequestFor(h.name, h.loader))' = {libs'[h.name].path} BY <1>6, <1>7, <2>3, <2>4
    <3> QED BY <2>4, <3>1, <3>2 DEF SettledFor
  <2>14. \A n \in loaded' : SettledFor(n)' BY <2>2, <2>12, <2>13
  <2> QED BY <1>1, <2>8, <2>11, <2>14 DEF Settled
<1> QED BY <1>9, <1>10, <1>11 DEF load_dependencies

LEMMA SettledNext ==
  ASSUME Types, Settled, [Next]_vars
  PROVE  Settled'
<1> USE DEF world, loading, binding, starting, Goto
<1>0. ASSUME UNCHANGED <<disk, sick, loading>>, Started' => Started,
             pc' \in {"parse", "parsed"} => pc \in {"parse", "parsed"}
      PROVE Settled'
  <2>1. \A q : Found(q)' = Found(q) BY <1>0 DEF Found, Parses
  <2>2. Present' = Present /\ Wanted' = Wanted BY <1>0 DEF Present, Wanted
  <2>3. \A n : SettledFor(n) => SettledFor(n)' BY <1>0, <2>1, <2>2 DEF SettledFor
  <2> QED BY <1>0, <2>2, <2>3 DEF Settled, Legitimate
<1>1. CASE Parse BY <1>0, <1>1 DEF Parse, Fail, Started
<1>2. CASE print_info BY <1>0, <1>2 DEF print_info, Started
<1>3. CASE MapMain
  <2>1. /\ pc = "parsed" /\ pc' = "load" /\ todo' = Requests(Executable)
        /\ UNCHANGED <<loaded, libs>> /\ loaded = {}
        BY <1>3 DEF MapMain, Settled
  <2>2. DOMAIN libs' = {} BY <2>1 DEF Types, TypeOK
  <2>3. Present' = {Executable} BY <2>2 DEF Present
  <2>4. \A i \in DOMAIN todo' : Legitimate(todo[i])'
        BY <2>1, <2>3, RequestsLegitimate, LaunchAssumption DEF Legitimate
  <2>5. Deps(Executable) \subseteq Wanted'
        BY <2>1, RequestsLegitimate, LaunchAssumption DEF Wanted
  <2> QED BY <2>1, <2>3, <2>4, <2>5 DEF Settled
<1>4. CASE MapFails BY <1>0, <1>4 DEF MapFails, Fail, Started
<1>5. CASE load_dependencies BY <1>5, LoadSettles
<1>6. CASE LoadDone BY <1>0, <1>6 DEF LoadDone, Started
<1>7. CASE bind BY <1>0, <1>7 DEF bind, Started
<1>8. CASE BindFails BY <1>0, <1>8 DEF BindFails, Fail, Started
<1>9. CASE BindDone BY <1>0, <1>9 DEF BindDone, Started
<1>10. CASE resolve_external BY <1>0, <1>10 DEF resolve_external, Started
<1>11. CASE apply_fixups BY <1>0, <1>11 DEF apply_fixups, Started
<1>12. CASE bind_nl_symbol_ptrs BY <1>0, <1>12 DEF bind_nl_symbol_ptrs, Started
<1>13. CASE FixupsDone BY <1>0, <1>13 DEF FixupsDone, Started
<1>14. CASE register_objc_metadata BY <1>0, <1>14 DEF register_objc_metadata, Started
<1>15. CASE register_objc_class_names BY <1>0, <1>15 DEF register_objc_class_names, Started
<1>16. CASE run_initializers BY <1>0, <1>16 DEF run_initializers, Started
<1>17. CASE translate_swift_metadata BY <1>0, <1>17 DEF translate_swift_metadata, Started
<1>18. CASE register_swift_sections BY <1>0, <1>18 DEF register_swift_sections, Started
<1>19. CASE execute BY <1>0, <1>19 DEF execute, Started
<1>20. CASE UNCHANGED vars BY <1>0, <1>20 DEF vars, Started
<1> QED BY <1>1, <1>2, <1>3, <1>4, <1>5, <1>6, <1>7, <1>8, <1>9, <1>10, <1>11, <1>12, <1>13,
           <1>14, <1>15, <1>16, <1>17, <1>18, <1>19, <1>20 DEF Next

(* load_dependencies forgets no dependency of anything it loaded, and each *)
(* name it dealt with was looked for where one of its loaders said,        *)
(* whatever the files depend on and whichever of them exist.               *)
THEOREM NoDependencyForgotten == Spec => []DependenciesSettled
<1>1. Init => Types /\ Settled BY TypesInit, SettledInit
<1>2. Types /\ Settled /\ [Next]_vars => (Types /\ Settled)' BY TypesNext, SettledNext
<1>3. Settled => DependenciesSettled
      BY DEF DependenciesSettled, Settled, Started, SettledFor, RequestFor
<1> QED BY <1>1, <1>2, <1>3, PTL DEF Spec
=============================================================================
