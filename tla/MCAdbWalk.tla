------------------------------ MODULE MCAdbWalk ------------------------------
(* A model-checking instance of both walks: a directory that holds itself, as  *)
(* a bind mount does, one beside it that holds a file, and a name that cannot be *)
(* joined to a path.                                                          *)
EXTENDS FixtureStore

CONSTANTS r, d, e, f, g

Tree == [n \in {r, d, e, f, g} |->
           CASE n = r -> {d, e, g} [] n = d -> {d, f} [] n = e -> {f} [] OTHER -> {}]

TreeKinds == [n \in {r, d, e, f, g} |-> IF n \in {f, g} THEN "file" ELSE "dir"]
=============================================================================
