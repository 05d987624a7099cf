------------------------------ MODULE MCLoading ------------------------------
(* a imports b in its first two contents, which differ in a body, and not in the *)
(* third; b has no imports.  The disk changes between a world where b is missing *)
(* (and the body of a another one), one where a imports b, and one, that is not  *)
(* there at first, where a does not.                                             *)
EXTENDS Loading, TLC

CONSTANTS a, b, c1, c2, c3, e1

Headers == [x \in Content |-> IF x = c2 THEN c1 ELSE x]
Clauses == [x \in Content |-> IF x = c3 THEN c3 ELSE c1]
ImportsOf == [x \in Content |-> IF x \in {c1, c2} THEN {b} ELSE {}]
World(x, y) == [p \in Pkg |-> IF p = a THEN x ELSE y]
Disks == {World(c1, e1), World(c2, NoFile), World(c3, e1)}
FirstDisks == {World(c1, e1), World(c2, NoFile)}
OneTwoOne == [s \in 0 .. MaxEdits |-> <<1, 2, 1>>[s + 1]]
Symmetric == Permutations(Thread)
=============================================================================
