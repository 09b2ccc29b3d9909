------------------------------- MODULE Launch -------------------------------
(***************************************************************************)
(* Launching a program: main (grafted-cli/src/main.rs), the parser and the *)
(* mapper (grafted-loader), the linker (grafted-dyld/src/linker.rs), the   *)
(* chained fixups and the Swift passes.                                    *)
(*                                                                         *)
(* What files hold is constant; which of them exist and can be parsed, and *)
(* what kind of file the program is, is chosen at the start.  An address   *)
(* stands for the range one image is mapped to: the __TEXT address written *)
(* in the file, or a free range the kernel finds for an image whose __TEXT *)
(* is at 0 (a slid image).  Two files may have the same address; the one   *)
(* mapped later then replaces the other.  Slots are the pointers of the    *)
(* program that its tables describe, fields of class records excepted.     *)
(* HashMaps are iterated in any order.  What code of the guest does while  *)
(* it is initialised is left out.                                          *)
(***************************************************************************)
EXTENDS DylibResolver, FiniteSets

CONSTANTS
  Image,      \* path -> [deps, rpaths : sequences, base, exports : set of symbols]
  Registry,   \* install name -> the symbols replaced for it
  EndsWith,   \* pairs <<r, d>> : the name r ends with the file name of d
  LibSystem,  \* the name __nl_symbol_ptr entries are looked up in
  ClassSyms,  \* symbols _OBJC_CLASS_$_... and _OBJC_METACLASS_$_...
  HostSyms,   \* Swift symbols the host process has (dlsym)
  Imports,    \* the program's imports: sequence of [dylib, symbol, weak]
  Slots,      \* sequence of [import : index into Imports or 0, supported]
  NLSections, \* the slots of each S_NON_LAZY_SYMBOL_POINTERS section, in file order
  Indirect,   \* the indirect symbol table from its first entry to the end of the
              \* file, as symbols; None where an entry indexes no symbol
  Region      \* the addresses the kernel can find for slid images

Path == DOMAIN Image
Bases == {Image[p].base : p \in Path} \ {0}
Address == Bases \cup Region
Slot == DOMAIN Slots
Deps(p) == {Image[p].deps[i] : i \in DOMAIN Image[p].deps}
Name == UNION {Deps(p) : p \in Path}

IsSeq(s) == Len(s) \in Nat /\ DOMAIN s = 1 .. Len(s)

ASSUME LaunchAssumption ==
  /\ Executable \in Path /\ None \notin Path /\ Executable \notin Name
  /\ \A p \in Path : Image[p].base \in Nat /\ IsSeq(Image[p].deps)
  /\ Region \subseteq Nat \ {0}
  /\ IsSeq(Imports) /\ IsSeq(Slots) /\ \A s \in Slot : Slots[s].import \in Nat
  /\ IsSeq(Indirect) /\ IsSeq(NLSections)
  /\ \A i \in DOMAIN NLSections :
       IsSeq(NLSections[i]) /\ \A k \in DOMAIN NLSections[i] : NLSections[i][k] \in Slot

VARIABLES
  disk, sick,  \* the files there are, and those that cannot be parsed
  ftype,       \* "execute" (MH_EXECUTE) or "other"
  format,      \* how it wants pointers bound: "opcodes", "chained", "indirect"
  pc,          \* where main is
  todo,        \* to_load, the next request first: [name, loader, rpaths]
  loaded,      \* names that were dealt with
  libs,        \* loaded_libraries: name -> [path, at]
  mem,         \* address -> the file mapped there
  ptr,         \* the program's slots
  resolved,    \* resolved_imports of apply_fixups
  at,          \* the next import, slot or table entry of the pass under way
  left,        \* libraries the pass under way has still to visit
  classes,     \* images whose Objective-C classes are registered
  inits,       \* images whose initialisers have run
  layout,      \* the program's Swift class records: "darwin" or "linux"
  announced    \* register_swift_sections told the Swift runtime

world == <<disk, sick, ftype, format>>
loading == <<todo, loaded, libs, mem>>
binding == <<ptr, resolved, at>>
starting == <<left, classes, inits, layout, announced>>
vars == <<world, pc, loading, binding, starting>>

-----------------------------------------------------------------------------
(* Values of pointers.  Only an address inside an image says which one. *)
Val(kind, a) == [kind |-> kind, at |-> a]
Kinds == {"raw", "shim", "image", "class", "host", "zero", "trap", "soft", "self"}
Value == [kind : Kinds, at : Address \cup {0}]
Raw == Val("raw", 0)

(* bind_nl_symbol_ptrs looks at the last section only, and reads the table *)
(* from its first entry, whatever reserved1 says of the section.           *)
NLSlots == IF Len(NLSections) = 0 THEN <<>> ELSE NLSections[Len(NLSections)]
NLEntries == {k \in DOMAIN NLSlots \cap DOMAIN Indirect : Indirect[k] # None}
Listed(s) == \E k \in NLEntries : NLSlots[k] = s

(* The slots the linker is told of by the tables it reads: chains in a     *)
(* supported format, bind opcodes, the indirect symbol table.              *)
Described(s) ==
  IF format = "chained" THEN Slots[s].supported
  ELSE Listed(s) \/ (format = "opcodes" /\ Slots[s].import \in DOMAIN Imports)

(* Requests for the dependencies of a file, the last one first: to_load   *)
(* is popped from its end.                                                 *)
Requests(p) ==
  LET d == Image[p].deps
  IN  [i \in DOMAIN d |->
         [name |-> d[Len(d) + 1 - i], loader |-> p, rpaths |-> Image[p].rpaths]]

Wanted == {todo[i].name : i \in DOMAIN todo}
At(p) == IF Image[p].base = 0 THEN {a \in Region : mem[a] = None} ELSE {Image[p].base}

(* MachOBinary::from_path: the file is read, and holds an x86_64 Mach-O. *)
Parses(p) == p \in disk \ sick

(* The file a request leads to, if there is one and it is a Mach-O file. *)
Found(req) ==
  LET p == resolve(req.name, req.loader, req.rpaths, disk)
  IN  IF p \in Path /\ Parses(p) THEN {p} ELSE {}

Init ==
  /\ disk \in SUBSET Path /\ sick \in SUBSET disk
  /\ ftype \in {"execute", "other"}
  /\ ftype = "execute" => Image[Executable].base # 0  \* executables are not slid
  /\ format \in {"chained", "opcodes", "indirect"}
  /\ pc = "parse"
  /\ todo = <<>> /\ loaded = {} /\ libs = << >>
  /\ mem = [a \in Address |-> None]
  /\ ptr = [s \in Slot |-> Raw] /\ resolved = <<>> /\ at = 1
  /\ left = {} /\ classes = {} /\ inits = {} /\ layout = "darwin" /\ announced = FALSE

Goto(l) == pc' = l

(* An error main prints before it returns ExitCode::FAILURE. *)
Fail == Goto("failed") /\ UNCHANGED <<world, loading, binding, starting>>

Parse ==
  /\ pc = "parse"
  /\ IF Parses(Executable)
     THEN Goto("parsed") /\ UNCHANGED <<world, loading, binding, starting>>
     ELSE Fail

(* --inspect *)
print_info ==
  /\ pc = "parsed"
  /\ Goto("inspected")
  /\ UNCHANGED <<world, loading, binding, starting>>

(* map_binary with MAP_FIXED, over whatever is there: at the address in    *)
(* the file, or at a free one the kernel picked for a trial mapping.       *)
(* Nothing is mapped between the trial and the mapping: main is the only   *)
(* thread.                                                                 *)
map_binary(p, a) ==
  /\ a \in At(p)
  /\ mem' = [mem EXCEPT ![a] = p]

MapMain ==
  /\ pc = "parsed"
  /\ \E a \in Address : map_binary(Executable, a)
  /\ todo' = Requests(Executable)
  /\ Goto("load")
  /\ UNCHANGED <<world, loaded, libs, binding, starting>>

(* mmap or mprotect fails, for the program or for a library. *)
MapFails ==
  /\ \/ pc = "parsed"
     \/ /\ pc = "load" /\ todo # <<>>
        /\ Head(todo).name \notin loaded \cup DOMAIN Registry
        /\ Found(Head(todo)) # {}
  /\ Fail

-----------------------------------------------------------------------------
(* load_dependencies *)

Skip ==
  /\ Head(todo).name \in loaded \cup DOMAIN Registry
  /\ todo' = Tail(todo)
  /\ UNCHANGED <<loaded, libs, mem>>

(* Not found, or not a Mach-O file: the launch goes on without it. *)
Miss ==
  /\ Head(todo).name \notin loaded \cup DOMAIN Registry
  /\ Found(Head(todo)) = {}
  /\ loaded' = loaded \cup {Head(todo).name}
  /\ todo' = Tail(todo)
  /\ UNCHANGED <<libs, mem>>

(* Mutant: only libraries that could not be loaded are remembered. *)
LoadLib_forgetful ==
  /\ Head(todo).name \notin loaded \cup DOMAIN Registry
  /\ \E p \in Found(Head(todo)), a \in Address :
       /\ map_binary(p, a)
       /\ libs' = [n \in DOMAIN libs \cup {Head(todo).name} |->
                     IF n = Head(todo).name THEN [path |-> p, at |-> a] ELSE libs[n]]
       /\ todo' = Requests(p) \o Tail(todo)
  /\ UNCHANGED loaded

(* Mutant: the dependencies of libraries are not loaded. *)
LoadLib_shallow ==
  /\ Head(todo).name \notin loaded \cup DOMAIN Registry
  /\ \E p \in Found(Head(todo)), a \in Address :
       /\ map_binary(p, a)
       /\ libs' = [n \in DOMAIN libs \cup {Head(todo).name} |->
                     IF n = Head(todo).name THEN [path |-> p, at |-> a] ELSE libs[n]]
  /\ todo' = Tail(todo)
  /\ loaded' = loaded \cup {Head(todo).name}

LoadLib ==
  /\ Head(todo).name \notin loaded \cup DOMAIN Registry
  /\ \E p \in Found(Head(todo)), a \in Address :
       /\ map_binary(p, a)
       /\ libs' = [n \in DOMAIN libs \cup {Head(todo).name} |->
                     IF n = Head(todo).name THEN [path |-> p, at |-> a] ELSE libs[n]]
       /\ todo' = Requests(p) \o Tail(todo)
  /\ loaded' = loaded \cup {Head(todo).name}

load_dependencies ==
  /\ pc = "load" /\ todo # <<>>
  /\ Skip \/ Miss \/ LoadLib
  /\ UNCHANGED <<world, pc, binding, starting>>

(* Only an MH_EXECUTE file is linked. *)
LoadDone ==
  /\ pc = "load" /\ todo = <<>>
  /\ Goto(IF ftype = "execute" THEN "bind" ELSE "execute")
  /\ UNCHANGED <<world, loading, binding, starting>>

-----------------------------------------------------------------------------
(* Symbols *)

(* Linker::resolve: the possible answers to a look-up, {} for an error.    *)
(* The first source that has any answers.  An image answers with the       *)
(* address written in its file.                                            *)
FirstFound(s) ==
  LET hits == {i \in DOMAIN s : s[i] # {}}
  IN  IF hits = {} THEN {} ELSE s[CHOOSE i \in hits : \A j \in hits : i <= j]

If(c, v) == IF c THEN {v} ELSE {}

find_symbol_in_binary(n, symbol) ==
  If(symbol \in Image[libs[n].path].exports, Val("image", Image[libs[n].path].base))

resolve_symbol(dylib, symbol, weak) ==
  FirstFound(<<
    If(\E r \in DOMAIN Registry : (r = dylib \/ <<r, dylib>> \in EndsWith) /\ symbol \in Registry[r],
       Val("shim", 0)),
    UNION {find_symbol_in_binary(n, symbol) : n \in DOMAIN libs \cap {dylib}},
    UNION {find_symbol_in_binary(n, symbol) : n \in DOMAIN libs},
    If(symbol \in ClassSyms, Val("class", 0)),
    If(symbol \in HostSyms, Val("host", 0)),
    If(weak, Val("zero", 0)) >>)

(* What is written when there is no answer. *)
OrElse(answers, stub) == IF answers = {} THEN {Val(stub, 0)} ELSE answers

(* Linker::bind: each import of the bind opcodes, wherever it is used. *)
bind ==
  /\ pc = "bind" /\ format = "opcodes" /\ at \in DOMAIN Imports
  /\ \E v \in OrElse(resolve_symbol(Imports[at].dylib, Imports[at].symbol, Imports[at].weak), "trap") :
       ptr' = [s \in Slot |-> IF Slots[s].import = at THEN v ELSE ptr[s]]
  /\ at' = at + 1
  /\ UNCHANGED <<world, pc, loading, resolved, starting>>

(* The opcodes cannot be decoded. *)
BindFails == pc = "bind" /\ at = 1 /\ Fail

(* Mutant: the test for chained fixups is the wrong way round. *)
BindDone_swapped ==
  /\ pc = "bind" /\ ~(format = "opcodes" /\ at \in DOMAIN Imports)
  /\ Goto(IF format = "chained" THEN "nl" ELSE "imports")
  /\ at' = 1
  /\ UNCHANGED <<world, loading, ptr, resolved, starting>>

BindDone ==
  /\ pc = "bind" /\ ~(format = "opcodes" /\ at \in DOMAIN Imports)
  /\ Goto(IF format = "chained" THEN "imports" ELSE "nl")
  /\ at' = 1
  /\ UNCHANGED <<world, loading, ptr, resolved, starting>>

(* Mutant: an import without an answer is passed over, and the table of    *)
(* answers has no entry for it.                                            *)
resolve_external_skipping ==
  /\ pc = "imports"
  /\ IF at \in DOMAIN Imports
     THEN /\ LET found == resolve_symbol(Imports[at].dylib, Imports[at].symbol, FALSE)
             IN  IF found = {} THEN UNCHANGED resolved
                 ELSE \E v \in found : resolved' = Append(resolved, v)
          /\ at' = at + 1
          /\ UNCHANGED <<pc, ptr>>
     ELSE Goto("chain") /\ at' = 1 /\ UNCHANGED <<ptr, resolved>>
  /\ UNCHANGED <<world, loading, starting>>

(* apply_fixups first resolves its imports with resolve_external, as if    *)
(* none were weak ...                                                      *)
resolve_external ==
  /\ pc = "imports"
  /\ IF at \in DOMAIN Imports
     THEN /\ \E v \in OrElse(resolve_symbol(Imports[at].dylib, Imports[at].symbol, FALSE), "soft") :
               resolved' = Append(resolved, v)
          /\ at' = at + 1
          /\ UNCHANGED <<pc, ptr>>
     ELSE Goto("chain") /\ at' = 1 /\ UNCHANGED <<ptr, resolved>>
  /\ UNCHANGED <<world, loading, starting>>

(* ... then walks the chains.  A chain in another pointer format stays as  *)
(* it is.  Rebases to offset 0, which give 0, are left out.                *)
Fixup(s) ==
  IF ~Slots[s].supported THEN ptr[s]
  ELSE CASE Slots[s].import = 0                -> Val("self", Image[Executable].base)
         [] Slots[s].import \in DOMAIN resolved -> resolved[Slots[s].import]
         [] OTHER                              -> Val("zero", 0)

apply_fixups ==
  /\ pc = "chain" /\ at \in Slot
  /\ ptr' = [ptr EXCEPT ![at] = Fixup(at)]
  /\ at' = at + 1
  /\ UNCHANGED <<world, pc, loading, resolved, starting>>

(* Pointer k of the section gets the symbol of entry k of the table, also  *)
(* where bind has been before.  It is looked up in libSystem.  An entry    *)
(* without a symbol is passed over; the end of the file ends the pass.     *)
bind_nl_symbol_ptrs ==
  /\ pc = "nl" /\ at \in DOMAIN NLSlots \cap DOMAIN Indirect
  /\ IF at \in NLEntries
     THEN \E v \in OrElse(resolve_symbol(LibSystem, Indirect[at], FALSE), "trap") :
            ptr' = [ptr EXCEPT ![NLSlots[at]] = v]
     ELSE UNCHANGED ptr
  /\ at' = at + 1
  /\ UNCHANGED <<world, pc, loading, resolved, starting>>

-----------------------------------------------------------------------------
(* run_all_initializers, and what follows *)

(* Libraries that are not slid, in the order of the HashMap. *)
Unslid == {n \in DOMAIN libs : Image[libs[n].path].base # 0}

FixupsDone ==
  /\ \/ pc = "chain" /\ at \notin Slot
     \/ pc = "nl" /\ at \notin DOMAIN NLSlots \cap DOMAIN Indirect
  /\ Goto("objc") /\ left' = Unslid
  /\ UNCHANGED <<world, loading, binding, classes, inits, layout, announced>>

register_objc_metadata ==
  /\ pc = "objc"
  /\ \E n \in left : left' = left \ {n} /\ classes' = classes \cup {n}
  /\ UNCHANGED <<world, pc, loading, binding, inits, layout, announced>>

register_objc_class_names ==
  /\ pc = "objc" /\ left = {}
  /\ classes' = classes \cup {Executable}
  /\ Goto("init") /\ left' = Unslid
  /\ UNCHANGED <<world, loading, binding, inits, layout, announced>>

run_initializers ==
  /\ pc = "init"
  /\ IF left = {}
     THEN inits' = inits \cup {Executable} /\ Goto("translate") /\ UNCHANGED left
     ELSE /\ \E n \in left : left' = left \ {n} /\ inits' = inits \cup {n}
          /\ UNCHANGED pc
  /\ UNCHANGED <<world, loading, binding, classes, layout, announced>>

(* layout is that of the class records the pass recognises: those whose    *)
(* description pointer lies in the program.                                *)
translate_swift_metadata ==
  /\ pc = "translate"
  /\ layout' = "linux"
  /\ Goto("sections")
  /\ UNCHANGED <<world, loading, binding, left, classes, inits, announced>>

(* Nothing is announced without a Swift runtime or Swift sections. *)
register_swift_sections ==
  /\ pc = "sections"
  /\ announced' \in BOOLEAN
  /\ Goto("execute")
  /\ UNCHANGED <<world, loading, binding, left, classes, inits, layout>>

(* The stack, the trampoline or Syscall User Dispatch may fail to be set   *)
(* up, which panics.                                                       *)
execute ==
  /\ pc = "execute"
  /\ Goto("running") \/ Goto("failed")
  /\ UNCHANGED <<world, loading, binding, starting>>

Next ==
  \/ Parse \/ print_info \/ MapMain \/ MapFails \/ load_dependencies \/ LoadDone
  \/ bind \/ BindFails \/ BindDone \/ resolve_external \/ apply_fixups
  \/ bind_nl_symbol_ptrs \/ FixupsDone \/ register_objc_metadata
  \/ register_objc_class_names \/ run_initializers \/ translate_swift_metadata
  \/ register_swift_sections \/ execute

Spec == Init /\ [][Next]_vars

(* main runs until it returns or jumps into the program. *)
FairSpec == Spec /\ WF_vars(Next)

-----------------------------------------------------------------------------
TypeOK ==
  /\ disk \subseteq Path /\ sick \subseteq disk
  /\ todo \in Seq([name : Name, loader : Path, rpaths : {Image[p].rpaths : p \in Path}])
  /\ loaded \subseteq Name
  /\ DOMAIN libs \subseteq loaded
  /\ \A n \in DOMAIN libs : libs[n] \in [path : Path, at : Address]
  /\ mem \in [Address -> Path \cup {None}]
  /\ ptr \in [Slot -> Value] /\ resolved \in Seq(Value) /\ at \in Nat
  /\ left \subseteq DOMAIN libs
  /\ classes \cup inits \subseteq DOMAIN libs \cup {Executable}

Present == {Executable} \cup {libs[n].path : n \in DOMAIN libs}

(* When load_dependencies goes over to a loader's dependency it may have   *)
(* been dealt with for another loader.  Every dependency of the program    *)
(* and of every library it loaded is replaced, still to be looked at, or   *)
(* settled; and what was settled was settled by looking where one of those *)
(* that depend on it said: it is that file, or there is none that can be   *)
(* loaded.                                                                 *)
DependenciesSettled ==
  /\ pc \notin {"parse", "parsed", "failed", "inspected"} =>
       \A p \in Present : Deps(p) \subseteq DOMAIN Registry \cup loaded \cup Wanted
  /\ \A n \in loaded : \E p \in Present :
       /\ n \in Deps(p)
       /\ LET req == [name |-> n, loader |-> p, rpaths |-> Image[p].rpaths]
          IN  Found(req) = IF n \in DOMAIN libs THEN {libs[n].path} ELSE {}

(* Where a symbol can come from, whatever order the linker looks in. *)
Replaced(dylib, symbol) ==
  \E r \in DOMAIN Registry : (r = dylib \/ <<r, dylib>> \in EndsWith) /\ symbol \in Registry[r]
Exporters(symbol) == {n \in DOMAIN libs : symbol \in Image[libs[n].path].exports}

(* v is right for a symbol asked of a library: a replacement, else that    *)
(* library's own, else any library's, else a class or a symbol of the      *)
(* host, and the stub only if there is none of these.                      *)
Answers(v, dylib, symbol, stub) ==
  \/ Replaced(dylib, symbol) /\ v = Val("shim", 0)
  \/ /\ ~Replaced(dylib, symbol)
     /\ \E n \in Exporters(symbol) :
          /\ v = Val("image", Image[libs[n].path].base)
          /\ dylib \in Exporters(symbol) => n = dylib
  \/ /\ ~Replaced(dylib, symbol) /\ Exporters(symbol) = {}
     /\ \/ symbol \in ClassSyms /\ v = Val("class", 0)
        \/ symbol \in HostSyms \ ClassSyms /\ v = Val("host", 0)
        \/ symbol \notin ClassSyms \cup HostSyms /\ v = Val(stub, 0)

ImportAnswered(v, i, stub) == Answers(v, Imports[i].dylib, Imports[i].symbol, stub)

(* What the chains, the opcodes and the indirect table make of a slot. *)
FixedUp(v, s) ==
  LET i == Slots[s].import
  IN  \/ ~Slots[s].supported /\ v = Raw
      \/ Slots[s].supported /\ i = 0 /\ v = Val("self", Image[Executable].base)
      \/ Slots[s].supported /\ i \in DOMAIN Imports /\ ImportAnswered(v, i, "soft")
      \/ Slots[s].supported /\ i \notin DOMAIN Imports \cup {0} /\ v = Val("zero", 0)
Opcoded(v, s) ==
  LET i == Slots[s].import
  IN  IF format = "opcodes" /\ i \in DOMAIN Imports
      THEN ImportAnswered(v, i, IF Imports[i].weak THEN "zero" ELSE "trap")
      ELSE v = Raw
Indirected(v, s) == \E k \in NLEntries : NLSlots[k] = s /\ Answers(v, LibSystem, Indirect[k], "trap")

(* What is mapped at a is a file with that address: the one a pointer with *)
(* the address is meant for, unless two loaded files share the address.    *)
AtOwnAddress(a) == mem[a] \in Present /\ Image[mem[a]].base = a

(* Three passes write the pointers, from tables that number imports, slots *)
(* and entries each in their own way, and the last one over those of the   *)
(* first.  When linking is over, each pointer holds what the table that is *)
(* right for it asks for, given all the libraries that were loaded; the    *)
(* others are as in the file; and no slid image has been mapped where a    *)
(* pointer into another one leads.                                         *)
PointersAsAsked ==
  ftype = "execute" /\ pc \in {"objc", "init", "translate", "sections", "execute", "running"} =>
    \A s \in Slot :
      /\ IF format = "chained" THEN FixedUp(ptr[s], s)
         ELSE IF Listed(s) THEN Indirected(ptr[s], s)
         ELSE Opcoded(ptr[s], s)
      /\ ptr[s].at # 0 => AtOwnAddress(ptr[s].at)

(* The launch keeps what starting a program promises: see ProgramStart. *)
Open == {s \in Slot : Described(s) /\ ptr[s].kind = "raw"}
Stage ==
  CASE pc \in {"parse", "parsed", "load"}         -> "loading"
    [] pc \in {"bind", "imports", "chain", "nl"}   -> "linking"
    [] pc \in {"objc", "init"}                     -> "initialising"
    [] pc \in {"translate", "sections"}            -> "ready"
    [] pc = "execute"                              -> IF ftype = "execute" THEN "ready" ELSE "loading"
    [] pc = "running"                              -> "running"
    [] OTHER                                       -> "ended"
PS == INSTANCE ProgramStart WITH
  Image <- Name \cup {Executable}, Program <- Executable, plain <- ftype # "execute",
  Slot <- Slot, Value <- Value, open <- Open, known <- classes, done <- inits, stage <- Stage,
  ptr <- ptr, layout <- layout, announced <- announced
StartsProperly == PS!Spec

(* Libraries may depend on each other in a circle; the launch still comes  *)
(* to an end.                                                              *)
LaunchEnds == <>(pc \in {"running", "failed", "inspected"})
=============================================================================
