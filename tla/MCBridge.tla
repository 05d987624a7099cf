------------------------------- MODULE MCBridge -------------------------------
(* Small instances of Bridge for TLC. *)
EXTENDS Bridge, TLC

CONSTANTS d1, d2, f1, u1

OneFolder == [d \in {d1, d2} |-> f1]
FirstCovers == {<<d1, u1>>}

Symmetric == Permutations(View) \union Permutations(Snap)
=============================================================================
