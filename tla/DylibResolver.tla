---------------------------- MODULE DylibResolver ----------------------------
(***************************************************************************)
(* Where the file of a dynamic library is looked for                       *)
(* (grafted-dyld/src/resolver.rs).  A path is a directory and a file name; *)
(* an install name has the same form, with one of the prefixes             *)
(* "@executable_path", "@loader_path" or "@rpath" for a directory.  What   *)
(* follows a prefix is a file name; longer rests are left out, and so are  *)
(* files of those literal names in the working directory.                  *)
(***************************************************************************)
EXTENDS Integers, Sequences

CONSTANTS
  Executable,  \* the path of the program
  Overrides,   \* install name -> path
  ShimDirs,    \* directories searched by file name
  None

Prefixes == {"@executable_path", "@loader_path", "@rpath"}

(* A run path may itself begin with a prefix. *)
resolve_rpath(rpath, loader) ==
  CASE rpath = "@executable_path" -> Executable.dir
    [] rpath = "@loader_path"     -> loader.dir
    [] OTHER                      -> rpath

(* The directories tried for a name, in order: what its prefix stands for, *)
(* the shim directories, and the name itself when it is absolute.          *)
SearchDirs(name, loader, rpaths) ==
  (CASE name.dir = "@executable_path" -> <<Executable.dir>>
     [] name.dir = "@loader_path"     -> <<loader.dir>>
     [] name.dir = "@rpath"           -> [i \in DOMAIN rpaths |-> resolve_rpath(rpaths[i], loader)]
     [] OTHER                         -> <<>>)
  \o ShimDirs
  \o (IF name.dir \in Prefixes THEN <<>> ELSE <<name.dir>>)

(* DylibResolver::resolve: an override without looking, else the first     *)
(* directory that has the file.                                            *)
resolve(name, loader, rpaths, disk) ==
  LET dirs    == SearchDirs(name, loader, rpaths)
      path(i) == [dir |-> dirs[i], leaf |-> name.leaf]
      hits    == {i \in DOMAIN dirs : path(i) \in disk}
  IN  IF name \in DOMAIN Overrides THEN Overrides[name]
      ELSE IF hits = {} THEN None
      ELSE path(CHOOSE i \in hits : \A j \in hits : i <= j)
=============================================================================
