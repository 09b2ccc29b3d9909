------------------------------ MODULE MCLaunch ------------------------------
(* A program with a library in two places, a circle of libraries and a     *)
(* library that is found next to its loader.  lib/B and lib/C have the     *)
(* same address, which may also be found for a slid library.               *)
EXTENDS Launch, TLC

P(d, f) == [dir |-> d, leaf |-> f]
Lib(deps, rpaths, base, exports) ==
  [deps |-> deps, rpaths |-> rpaths, base |-> base, exports |-> exports]

MCExecutable == P("app", "prog")
MCOverrides == << >>
MCShimDirs == <<>>
MCImage ==
  (P("app", "prog") :> Lib(<<P("@rpath", "A"), P("lib", "B"), P("sys", "S")>>,
                           <<"lib", "@loader_path">>, 1, {})) @@
  (P("app", "A") :> Lib(<<P("@loader_path", "C")>>, <<>>, 0, {"a"})) @@
  (P("lib", "A") :> Lib(<<P("lib", "B")>>, <<>>, 2, {"a"})) @@
  (P("lib", "B") :> Lib(<<P("@rpath", "A"), P("@loader_path", "C")>>,
                        <<"@executable_path", "lib">>, 3, {"b"})) @@
  (P("app", "C") :> Lib(<<>>, <<>>, 0, {"b"})) @@
  (P("lib", "C") :> Lib(<<>>, <<>>, 3, {"b", "m"}))
MCRegion == {3, 4}
MCRegistry == P("sys", "S") :> {"s"}
MCEndsWith == {<<P("sys", "S"), P("other", "S")>>, <<P("sys", "S"), P("sys", "S")>>}
MCLibSystem == P("sys", "S")

Import(dylib, symbol, weak) == [dylib |-> dylib, symbol |-> symbol, weak |-> weak]
MCImports == << Import(P("@rpath", "A"), "a", FALSE),
                Import(P("lib", "B"), "b", TRUE),
                Import(P("other", "S"), "s", FALSE),
                Import(P("sys", "S"), "K", FALSE),
                Import(P("sys", "S"), "h", FALSE) >>
SlotOf(import, supported) == [import |-> import, supported |-> supported]
MCSlots == << SlotOf(1, TRUE), SlotOf(2, TRUE), SlotOf(3, TRUE), SlotOf(4, TRUE),
              SlotOf(5, FALSE), SlotOf(0, TRUE), SlotOf(9, TRUE) >>
MCNLSections == << <<3>>, <<2, 6, 1, 7>> >>
MCIndirect == << "b", None, "s" >>
=============================================================================
