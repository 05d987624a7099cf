----------------------------- MODULE MCSession -----------------------------
(* Small instances of Session for TLC.  Threads, views and snapshots are    *)
(* only compared for equality, so safety runs use their permutations.       *)
EXTENDS Session, TLC

CONSTANTS d1, d2, f1, f2, u1

\* Two definitions of one folder (say, before and after its go.mod file is
\* removed), both or one of them relevant for the file.
OneFolder == [d \in {d1, d2} |-> f1]
BothCover == {<<d1, u1>>, <<d2, u1>>}
FirstCovers == {<<d1, u1>>}

\* One definition.
OneDef == [d \in {d1} |-> f1]

\* Two folders; the file belongs to the second one.
TwoFolders == (d1 :> f1) @@ (d2 :> f2)
SecondCovers == {<<d2, u1>>}

Symmetric == Permutations(Thread) \union Permutations(View) \union Permutations(Snap)
=============================================================================
