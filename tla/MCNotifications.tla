--------------------------- MODULE MCNotifications ---------------------------
(* Two threads; an observer with a method it names by its own pointer, and  *)
(* one for any notification that is registered for an object.               *)
EXTENDS Notifications

E(o, s, n, x) == [observer |-> o, selector |-> s, name |-> n, object |-> x]
MCEntry == {E("o1", "own", "n", Nil), E("o2", "interned", Nil, "x")}
MCPosted == {[name |-> "n", object |-> Nil], [name |-> "m", object |-> "y"]}
MCRemoved == {[observer |-> "o1", name |-> Nil, object |-> Nil]}
MCNameOf == [p \in {"own", "interned", "spare", "own2", "spare2"} |->
              IF p \in {"own2", "spare2"} THEN "other:" ELSE "changed:"]
MCBoot == [n \in {"changed:"} |-> "interned"]
MCImplements == {<<"o1", "changed:">>, <<"o2", "changed:">>}
=============================================================================
