------------------------- MODULE PackageHandlesProofs -------------------------
(***************************************************************************)
(* Proofs about PackageHandles, for every graph of imports and references, *)
(* any threads, contents and number of edits.  First the two facts the     *)
(* pruned invalidation rests on: what a key covers lies in the import      *)
(* closure (KeyLocal), and a key that was right for a package stays right  *)
(* while neither its content nor the keys of its imports change            *)
(* (KeyPruned).  Then the inductive invariant.                             *)
(***************************************************************************)
EXTENDS PackageHandles, TLAPS, FiniteSetTheorems

\* Worlds in which some packages may be missing.
Partial == [Pkg -> Content \union {NoContent}]

\* Two worlds give the packages of S the same contents.
Agree(u, w, S) == \A q \in S : u[q] = w[q]

-----------------------------------------------------------------------------
LEMMA ImportsTyped ==
  ASSUME NEW w \in Partial, NEW p \in Pkg
  PROVE  ImportsIn(w, p) \subseteq Pkg
BY HandlesAssumption DEF ImportsIn, Partial

\* What a symbol refers to is in a package that its own package imports.
LEMMA RefsInImports ==
  ASSUME NEW w \in Partial, NEW x \in Symbol, NEW y \in RefsIn(w, x)
  PROVE  y \in Symbol /\ y[1] \in ImportsIn(w, x[1])
<1>1. x[1] \in Pkg /\ w[x[1]] \in Content \union {NoContent}
  BY DEF Symbol, Partial
<1>2. y \in Symbol /\ <<x[2], y>> \in Refs[x[1]][w[x[1]]]
  BY DEF RefsIn
<1>3. \A r \in Refs[x[1]][w[x[1]]] : r[2][1] \in Imports[x[1]][w[x[1]]]
  BY <1>1, HandlesAssumption
<1> QED
  BY <1>2, <1>3 DEF ImportsIn

LEMMA RefPkgsInImports ==
  ASSUME NEW w \in Partial, NEW x \in Symbol
  PROVE  RefPkgs(w, x) \subseteq ImportsIn(w, x[1]) /\ RefPkgs(w, x) \subseteq Pkg
BY RefsInImports DEF RefPkgs, Symbol

\* What keys of p cover are imports of p and of its imports.
LEMMA DirectTyped ==
  ASSUME NEW w \in Partial, NEW p \in Pkg
  PROVE  /\ Direct(w, p) \subseteq Pkg
         /\ \A r \in Direct(w, p) : \/ r \in ImportsIn(w, p)
                                    \/ \E q \in ImportsIn(w, p) : r \in ImportsIn(w, q)
         /\ \A q \in ImportsIn(w, p), n \in Name :
               RefPkgs(w, <<q, n>>) \subseteq Direct(w, p)
<1>1. ImportsIn(w, p) \subseteq Pkg
  BY ImportsTyped
<1>2. \A q \in ImportsIn(w, p), n \in Name :
         <<q, n>> \in Symbol /\ RefPkgs(w, <<q, n>>) \subseteq ImportsIn(w, q)
  <2> SUFFICES ASSUME NEW q \in ImportsIn(w, p), NEW n \in Name
               PROVE  <<q, n>> \in Symbol /\ RefPkgs(w, <<q, n>>) \subseteq ImportsIn(w, q)
    OBVIOUS
  <2>1. <<q, n>> \in Symbol
    BY <1>1 DEF Symbol
  <2> QED
    BY <2>1, RefPkgsInImports
<1>3. \A r \in Direct(w, p) : r \in ImportsIn(w, p) \/
         \E q \in ImportsIn(w, p), n \in Name : r \in RefPkgs(w, <<q, n>>)
  BY DEF Direct
<1>4. \A q \in ImportsIn(w, p) : ImportsIn(w, q) \subseteq Pkg
  BY <1>1, ImportsTyped
<1> QED
  BY <1>1, <1>2, <1>3, <1>4 DEF Direct

\* Deps is the least closed set with p in it.
LEMMA DepsLeast ==
  ASSUME NEW w \in Partial, NEW p \in Pkg
  PROVE  /\ Deps(w, p) \subseteq Pkg /\ p \in Deps(w, p)
         /\ Closed(w, Deps(w, p))
         /\ \A S \in SUBSET Pkg : p \in S /\ Closed(w, S) => Deps(w, p) \subseteq S
<1>1. Deps(w, p) \subseteq Pkg /\ p \in Deps(w, p)
  BY DEF Deps
<1>2. \A S \in SUBSET Pkg : p \in S /\ Closed(w, S) => Deps(w, p) \subseteq S
  BY DEF Deps
<1>3. ASSUME NEW q \in Deps(w, p), NEW r \in ImportsIn(w, q)
      PROVE  r \in Deps(w, p)
  <2>1. r \in Pkg
    BY <1>1, ImportsTyped
  <2>2. ASSUME NEW S \in SUBSET Pkg, p \in S, Closed(w, S) PROVE r \in S
    BY <2>2, <1>2 DEF Closed
  <2> QED
    BY <2>1, <2>2 DEF Deps
<1> QED
  BY <1>1, <1>2, <1>3 DEF Closed

\* Worlds that agree on p and on its imports have the same packages for its keys to
\* cover.
LEMMA DirectAgree ==
  ASSUME NEW u \in Partial, NEW w \in Partial, NEW p \in Pkg,
         u[p] = w[p], Agree(u, w, ImportsIn(w, p))
  PROVE  ImportsIn(u, p) = ImportsIn(w, p) /\ Direct(u, p) = Direct(w, p)
<1>1. ImportsIn(u, p) = ImportsIn(w, p)
  BY DEF ImportsIn
<1>2. \A x \in ImportsIn(w, p) \X Name : RefPkgs(u, x) = RefPkgs(w, x)
  BY DEF RefPkgs, RefsIn, Agree
<1> QED
  BY <1>1, <1>2 DEF Direct

\* A key that is right in two worlds is right for the same reasons: it cannot tell
\* them apart, and nor can another.
LEMMA KeySame ==
  ASSUME NEW u \in Partial, NEW w \in Partial, NEW p \in Pkg,
         NEW k, KeyFor(k, u, p), KeyFor(k, w, p)
  PROVE  /\ u[p] = w[p] /\ Direct(u, p) = Direct(w, p) /\ Agree(u, w, Direct(w, p))
         /\ \A l : KeyFor(l, u, p) => KeyFor(l, w, p)
<1>1. u[p] = w[p]
  BY DEF KeyFor, LocalKey
<1>2. ASSUME NEW r \in Direct(w, p), r \in Direct(u, p) PROVE u[r] = w[r]
  <2>1. LocalKey(w, r) \in k.deps /\ LocalKey(u, r) \in k.deps
    BY <1>2 DEF KeyFor
  <2>2. LocalKey(w, r)[1] = LocalKey(u, r)[1] => LocalKey(w, r) = LocalKey(u, r)
    BY <2>1 DEF KeyFor
  <2> QED
    BY <2>2 DEF LocalKey
<1>3. ImportsIn(u, p) = ImportsIn(w, p)
  BY <1>1 DEF ImportsIn
<1>4. Agree(u, w, ImportsIn(w, p))
  BY <1>2, <1>3 DEF Agree, Direct
<1>5. Direct(u, p) = Direct(w, p)
  BY <1>1, <1>4, DirectAgree
<1>6. Agree(u, w, Direct(w, p))
  BY <1>2, <1>5 DEF Agree
<1> QED
  BY <1>1, <1>5, <1>6 DEF KeyFor, LocalKey, Agree

\* What is right of p in one world is right in another with the same import closure.
LEMMA KeyLocal ==
  ASSUME NEW u \in Partial, NEW w \in Partial, NEW p \in Pkg,
         Agree(u, w, Deps(w, p))
  PROVE  /\ ImportsIn(u, p) = ImportsIn(w, p)
         /\ \A k : KeyFor(k, w, p) => KeyFor(k, u, p)
         /\ \A dk : DepKeysFor(dk, w, p) => DepKeysFor(dk, u, p)
<1> DEFINE D == Deps(w, p)
<1>1. D \subseteq Pkg /\ p \in D /\ Closed(w, D)
  BY DepsLeast
<1>2. ASSUME NEW q \in D
      PROVE  /\ ImportsIn(u, q) = ImportsIn(w, q)
             /\ \A k : KeyFor(k, w, q) => KeyFor(k, u, q)
  <2>1. q \in Pkg /\ u[q] = w[q] /\ ImportsIn(w, q) \subseteq D
    BY <1>1 DEF Agree, Closed
  <2>2. Agree(u, w, ImportsIn(w, q))
    BY <2>1 DEF Agree
  <2>3. ImportsIn(u, q) = ImportsIn(w, q) /\ Direct(u, q) = Direct(w, q)
    BY <2>1, <2>2, DirectAgree
  <2>4. Direct(w, q) \subseteq D
    BY <2>1, <1>1, DirectTyped DEF Closed
  <2> QED
    BY <2>1, <2>3, <2>4 DEF KeyFor, LocalKey, Agree
<1>3. ImportsIn(w, p) \subseteq D
  BY <1>1 DEF Closed
<1> QED
  BY <1>1, <1>2, <1>3 DEF DepKeysFor

\* The pruning of evaluatePackageHandle is right: if the keys of the imports of p are
\* right in two worlds, then so are others that are right in one of them; and so is a
\* key of p, if its content is the same.
LEMMA KeyPruned ==
  ASSUME NEW u \in Partial, NEW w \in Partial, NEW p \in Pkg,
         ImportsIn(u, p) = ImportsIn(w, p),
         NEW dk, DepKeysFor(dk, u, p), DepKeysFor(dk, w, p)
  PROVE  /\ \A l : DepKeysFor(l, u, p) => DepKeysFor(l, w, p)
         /\ u[p] = w[p] => \A k : KeyFor(k, u, p) => KeyFor(k, w, p)
<1> DEFINE I == ImportsIn(w, p)
<1>1. I \subseteq Pkg
  BY ImportsTyped
<1>2. \A q \in I : KeyFor(dk[q], u, q) /\ KeyFor(dk[q], w, q)
  BY <1>1 DEF DepKeysFor
<1>3. \A q \in I : /\ u[q] = w[q] /\ Agree(u, w, Direct(w, q))
                   /\ \A l : KeyFor(l, u, q) => KeyFor(l, w, q)
  BY <1>1, <1>2, KeySame
<1>4. \A l : DepKeysFor(l, u, p) => DepKeysFor(l, w, p)
  BY <1>3 DEF DepKeysFor
<1>5. ASSUME u[p] = w[p], NEW k, KeyFor(k, u, p) PROVE KeyFor(k, w, p)
  <2>1. Direct(u, p) = Direct(w, p)
    BY <1>3, <1>5, DirectAgree DEF Agree
  <2>2. ASSUME NEW r \in Direct(w, p) PROVE u[r] = w[r]
    <3>1. CASE r \in I
      BY <3>1, <1>3
    <3>2. CASE \E q \in I : r \in ImportsIn(w, q)
      BY <3>2, <1>3 DEF Agree, Direct
    <3> QED
      BY <3>1, <3>2, DirectTyped
  <2> QED
    BY <1>5, <2>1, <2>2 DEF KeyFor, LocalKey
<1> QED
  BY <1>4, <1>5

LEMMA WorldPartial == World \subseteq Partial
BY DEF World, Partial

-----------------------------------------------------------------------------
\* What type checking has left is right in a world.
DataFor(d, w, p) == /\ DepKeysFor(d.imports, w, p)
                    /\ d.pkg # NoPkg => CheckedIn(d.pkg, w, p)

\* What holds of every handle a snapshot keeps.  Its keys and data, valid or not, are
\* right in some world, whose content of p the local data are; and its imports are
\* those of the snapshot's metadata.
Sound(h, p, w) ==
    /\ h \in Handles
    /\ \E u \in World : /\ u[p] = h.local /\ KeyFor(h.key, u, p)
                        /\ DepKeysFor(h.depKeys, u, p)
                        /\ h.data # NoData => DataFor(h.data, u, p)
    /\ Imports[p][h.local] = ImportsIn(w, p)
    /\ Current(h, w, p)

Ready(h, p, w) == Sound(h, p, w) /\ h.state >= ValidKey

\* A handle with keys that are right in the world is sound and ready, whatever right
\* data it keeps.
LEMMA ReadyIntro ==
  ASSUME NEW w \in World, NEW p \in Pkg, NEW h \in Handles,
         h.state >= ValidKey, h.local = w[p],
         KeyFor(h.key, w, p), DepKeysFor(h.depKeys, w, p),
         h.data # NoData => DataFor(h.data, w, p),
         h.state >= ValidImports => h.data # NoData,
         h.state >= ValidPackage => h.data.pkg # NoPkg
  PROVE  Ready(h, p, w)
<1>1. h.state \in 0 .. 4
  BY DEF Handles, HandlesWith
<1>2. Current(h, w, p)
  BY <1>1 DEF Current, DataFor, ValidMetadata, ValidLocalData, ValidKey, ValidImports,
              ValidPackage
<1>3. Imports[p][h.local] = ImportsIn(w, p)
  BY DEF ImportsIn
<1> QED
  BY <1>2, <1>3 DEF Ready, Sound

\* The fields of a handle that is ready.
LEMMA ReadyFields ==
  ASSUME NEW w, NEW p, NEW h, Ready(h, p, w)
  PROVE  /\ h \in Handles /\ h.state \in 2 .. 4 /\ h.local = w[p]
         /\ KeyFor(h.key, w, p) /\ DepKeysFor(h.depKeys, w, p) /\ h.key \in Keys
<1>1. h \in Handles /\ h.state >= 2 /\ Current(h, w, p)
  BY DEF Ready, Sound, ValidKey
<1>2. h.state \in 0 .. 4 /\ h.key \in Keys
  BY <1>1 DEF Handles, HandlesWith
<1> QED
  BY <1>1, <1>2 DEF Current, ValidLocalData, ValidKey

-----------------------------------------------------------------------------
(* Evaluating a handle.                                                    *)

LEMMA LocalFields ==
  ASSUME NEW c, NEW isOpen \in BOOLEAN, NEW h, h.open \in BOOLEAN,
         h = [state |-> h.state, local |-> h.local, open |-> h.open,
              depKeys |-> h.depKeys, key |-> h.key, data |-> h.data]
  PROVE  Local(h, c, isOpen) =
            [state |-> h.state, local |-> c, open |-> h.open \/ isOpen,
             depKeys |-> h.depKeys, key |-> h.key,
             data |-> IF h.open \/ isOpen THEN h.data ELSE NoData]
<1>1. Local(h, c, isOpen) =
         [h EXCEPT !.local = c, !.open = h.open \/ isOpen,
                   !.data = IF h.open \/ isOpen THEN h.data ELSE NoData]
  BY DEF Local
<1>2. CASE h.open \/ isOpen
  BY <1>1, <1>2
<1>3. CASE ~(h.open \/ isOpen)
  BY <1>1, <1>3
<1> QED
  BY <1>2, <1>3

\* A handle to evaluate, with its local data read if they were not valid.
LEMMA LocalRead ==
  ASSUME NEW w \in World, NEW p \in Pkg, NEW isOpen \in BOOLEAN,
         NEW h, h = NewHandle \/ (Sound(h, p, w) /\ h.state < ValidKey),
         NEW l, l = IF h.state < ValidLocalData THEN Local(h, w[p], isOpen) ELSE h
  PROVE  /\ h.state \in {0, 1} /\ l.local = w[p] /\ l.open \in BOOLEAN
         /\ l.data = NoData \/ l.data = h.data
         /\ l = [state |-> h.state, local |-> l.local, open |-> l.open,
                 depKeys |-> h.depKeys, key |-> h.key, data |-> l.data]
<1>h. /\ h.state \in {0, 1} /\ h.open \in BOOLEAN
      /\ h = [state |-> h.state, local |-> h.local, open |-> h.open,
              depKeys |-> h.depKeys, key |-> h.key, data |-> h.data]
  <2>1. CASE h = NewHandle
    BY <2>1 DEF NewHandle, ValidMetadata
  <2>2. CASE Sound(h, p, w) /\ h.state < ValidKey
    <3>1. h \in Handles
      BY <2>2 DEF Sound
    <3> QED
      BY <2>2, <3>1 DEF Handles, HandlesWith, ValidKey
  <2> QED
    BY <2>1, <2>2
<1>1. CASE h.state = 0
  <2> DEFINE d == IF h.open \/ isOpen THEN h.data ELSE NoData
  <2>1. l = Local(h, w[p], isOpen)
    BY <1>1 DEF ValidLocalData
  <2>2. Local(h, w[p], isOpen) =
           [state |-> h.state, local |-> w[p], open |-> h.open \/ isOpen,
            depKeys |-> h.depKeys, key |-> h.key, data |-> d]
    BY <1>h, LocalFields
  <2> QED
    BY <2>1, <2>2, <1>h
<1>2. CASE h.state = 1
  <2>1. h.local = w[p]
    BY <1>2 DEF NewHandle, Sound, Current, ValidMetadata, ValidLocalData
  <2> QED
    BY <1>2, <2>1, <1>h DEF ValidLocalData
<1> QED
  BY <1>1, <1>2, <1>h

\* A handle is ready once it has a key, if what is left of type checking is right.
LEMMA RevalidatedReady ==
  ASSUME NEW w \in World, NEW p \in Pkg, NEW h \in Pending, NEW key \in Keys,
         NEW dc \in BOOLEAN, h.local = w[p], KeyFor(key, w, p),
         DepKeysFor(h.depKeys, w, p),
         ~dc /\ h.data # NoData => DepKeysFor(h.data.imports, w, p),
         ~dc /\ h.data # NoData /\ key = h.key /\ h.data.pkg # NoPkg =>
            CheckedIn(h.data.pkg, w, p)
  PROVE  Ready(Revalidated(h, key, dc), p, w)
<1> DEFINE d == IF h.data = NoData \/ dc THEN NoData
                ELSE IF key # h.key THEN [h.data EXCEPT !.pkg = NoPkg] ELSE h.data
           state == IF d = NoData THEN ValidKey
                    ELSE IF d.pkg = NoPkg THEN ValidImports ELSE ValidPackage
           e == Revalidated(h, key, dc)
<1>1. /\ h = [state |-> h.state, local |-> h.local, open |-> h.open,
              depKeys |-> h.depKeys, key |-> h.key, data |-> h.data]
      /\ h.local \in Content /\ h.open \in BOOLEAN /\ h.depKeys \in DepKeyMaps
      /\ h.data \in Datas \union {NoData}
  BY DEF Pending, HandlesWith
<1>2. d \in Datas \union {NoData} /\ (d # NoData => DataFor(d, w, p))
  <2> SUFFICES ASSUME h.data # NoData, ~dc PROVE d \in Datas /\ DataFor(d, w, p)
    OBVIOUS
  <2>1. h.data \in Datas /\ DepKeysFor(h.data.imports, w, p)
    BY <1>1
  <2>2. CASE key # h.key
    <3>1. d = [h.data EXCEPT !.pkg = NoPkg]
      BY <2>2
    <3>2. d \in Datas /\ d.pkg = NoPkg /\ d.imports = h.data.imports
      BY <2>1, <3>1 DEF Datas
    <3> QED
      BY <2>1, <3>2 DEF DataFor
  <2>3. CASE key = h.key
    BY <2>1, <2>3 DEF DataFor
  <2> QED
    BY <2>2, <2>3
<1>3. e = [state |-> state, local |-> h.local, open |-> h.open, depKeys |-> h.depKeys,
           key |-> key, data |-> d]
  <2>1. e = [h EXCEPT !.key = key, !.data = d, !.state = state]
    BY DEF Revalidated
  <2> HIDE DEF d, e, state
  <2> QED
    BY <1>1, <2>1
<1> HIDE DEF d, e
<1>4. state \in 2 .. 4
  BY DEF ValidKey, ValidImports, ValidPackage
<1>5. /\ state >= ValidImports => d # NoData
      /\ state >= ValidPackage => d.pkg # NoPkg
  BY DEF ValidKey, ValidImports, ValidPackage
<1> HIDE DEF state
<1>6. e \in Handles
  BY <1>1, <1>2, <1>3, <1>4 DEF Handles, HandlesWith
<1>7. /\ e.state = state /\ e.local = w[p] /\ e.depKeys = h.depKeys /\ e.key = key
      /\ e.data = d
  BY <1>3
<1>8. e.state >= ValidKey
  BY <1>4, <1>7 DEF ValidKey
<1>9. Ready(e, p, w)
  BY <1>2, <1>5, <1>6, <1>7, <1>8, ReadyIntro
<1> QED
  BY <1>9 DEF e

\* A handle whose key is not computed yet: its local data and the keys of its imports
\* are the world's, so are the imports it keeps if the keys of the imports have not
\* changed, and its old key is another; and the packages reached so far are those that
\* its key must cover, but for the imports to do.
Running(e, r, p, w) ==
    /\ e \in Pending /\ e.local = w[p] /\ DepKeysFor(e.depKeys, w, p)
    /\ ~r.depsChanged /\ e.data # NoData =>
          DepKeysFor(e.data.imports, w, p) /\ e.key.local # LocalKey(w, p)
    /\ ImportsIn(w, p) \subseteq r.seen
    /\ \A q \in ImportsIn(w, p) \ r.todo : \A n \in Name :
          RefPkgs(w, <<q, n>>) \subseteq r.seen

\* The pruned case: nothing of p has changed, nor any key of its imports.
LEMMA EvaluatedPruned ==
  ASSUME NEW w \in World, NEW p \in Pkg, NEW isOpen \in BOOLEAN,
         NEW h, h = NewHandle \/ (Sound(h, p, w) /\ h.state < ValidKey),
         NEW l, l = IF h.state < ValidLocalData THEN Local(h, w[p], isOpen) ELSE h,
         l.local = h.local, DepKeysFor(h.depKeys, w, p), h.depKeys \in DepKeyMaps
  PROVE  Ready(Revalidated(l, l.key, FALSE), p, w)
<1>p. w \in Partial
  BY WorldPartial
<1>1. Sound(h, p, w)
  BY HandlesAssumption DEF NewHandle
<1>2. /\ l.local = w[p] /\ l.open \in BOOLEAN /\ (l.data = NoData \/ l.data = h.data)
      /\ h.state \in {0, 1}
      /\ l = [state |-> h.state, local |-> l.local, open |-> l.open,
              depKeys |-> h.depKeys, key |-> h.key, data |-> l.data]
  BY LocalRead
<1>3. PICK u \in World : /\ u[p] = h.local /\ KeyFor(h.key, u, p)
                         /\ DepKeysFor(h.depKeys, u, p)
                         /\ h.data # NoData => DataFor(h.data, u, p)
  BY <1>1 DEF Sound
<1>4. u \in Partial /\ u[p] = w[p] /\ ImportsIn(u, p) = ImportsIn(w, p)
  BY <1>2, <1>3, WorldPartial DEF ImportsIn
<1>5. /\ KeyFor(h.key, w, p)
      /\ \A k : DepKeysFor(k, u, p) => DepKeysFor(k, w, p)
  BY <1>p, <1>3, <1>4, KeyPruned
<1>6. h.data # NoData => DataFor(h.data, w, p)
  BY <1>3, <1>4, <1>5 DEF DataFor, CheckedIn, LocalKey
<1>7. /\ h \in Handles /\ h.key \in Keys /\ h.data \in Datas \union {NoData}
  BY <1>1 DEF Sound, Handles, HandlesWith
<1>8. l \in Pending /\ l.key = h.key /\ l.depKeys = h.depKeys
  BY <1>2, <1>7 DEF Pending, HandlesWith, World
<1>9. l.data # NoData => DataFor(l.data, w, p)
  BY <1>2, <1>6
<1> QED
  BY <1>2, <1>5, <1>7, <1>8, <1>9, RevalidatedReady DEF DataFor

\* The other case: a reachability run starts.
LEMMA EvaluatedRunning ==
  ASSUME NEW w \in World, NEW p \in Pkg, NEW isOpen \in BOOLEAN,
         NEW h, h = NewHandle \/ (Sound(h, p, w) /\ h.state < ValidKey),
         NEW l, l = IF h.state < ValidLocalData THEN Local(h, w[p], isOpen) ELSE h,
         NEW dk \in DepKeyMaps, DepKeysFor(dk, w, p),
         l.local # h.local \/ h.depKeys # dk
  PROVE  LET r == [todo |-> ImportsIn(w, p), seen |-> ImportsIn(w, p),
                   depsChanged |-> h.depKeys # dk]
         IN  r \in Reaches /\ Running([l EXCEPT !.depKeys = dk], r, p, w)
<1>p. w \in Partial
  BY WorldPartial
<1> DEFINE e == [l EXCEPT !.depKeys = dk]
<1>2. /\ l.local = w[p] /\ l.open \in BOOLEAN /\ (l.data = NoData \/ l.data = h.data)
      /\ h.state \in {0, 1}
      /\ l = [state |-> h.state, local |-> l.local, open |-> l.open,
              depKeys |-> h.depKeys, key |-> h.key, data |-> l.data]
  BY LocalRead
<1>3. e = [state |-> h.state, local |-> l.local, open |-> l.open, depKeys |-> dk,
           key |-> h.key, data |-> l.data]
  BY <1>2
<1>4. h.key \in Keys \union {NoKey} /\ h.data \in Datas \union {NoData}
  BY DEF NewHandle, Sound, Handles, HandlesWith
<1> HIDE DEF e
<1>5. e \in Pending
  BY <1>2, <1>3, <1>4 DEF Pending, HandlesWith, World
<1>6. ASSUME h.depKeys = dk, e.data # NoData
      PROVE  DepKeysFor(e.data.imports, w, p) /\ e.key.local # LocalKey(w, p)
  <2>1. h.data # NoData /\ e.data = h.data /\ e.key = h.key
    BY <1>2, <1>3, <1>6
  <2>2. Sound(h, p, w)
    BY <2>1 DEF NewHandle
  <2>3. PICK u \in World : /\ u[p] = h.local /\ KeyFor(h.key, u, p)
                           /\ DepKeysFor(h.depKeys, u, p) /\ DataFor(h.data, u, p)
    BY <2>1, <2>2 DEF Sound
  <2>4. u \in Partial /\ ImportsIn(u, p) = ImportsIn(w, p)
    BY <2>2, <2>3, WorldPartial DEF ImportsIn, Sound
  <2>5. \A k : DepKeysFor(k, u, p) => DepKeysFor(k, w, p)
    BY <1>p, <1>6, <2>3, <2>4, KeyPruned
  <2>6. h.key.local = <<p, h.local>> /\ h.local # w[p]
    BY <1>2, <1>6, <2>3 DEF KeyFor, LocalKey
  <2> QED
    BY <2>1, <2>3, <2>5, <2>6 DEF DataFor, LocalKey
<1>7. ImportsIn(w, p) \subseteq Pkg
  BY <1>p, ImportsTyped
<1> QED
  BY <1>2, <1>3, <1>5, <1>6, <1>7 DEF Running, Reaches, e

\* The key that a reachability run ends with is right.
LEMMA KeyComputed ==
  ASSUME NEW w \in World, NEW p \in Pkg, NEW node, NEW e, NEW r, Running(e, r, p, w),
         r.todo = {}, r.seen \subseteq Pkg,
         \A q \in Pkg : node[q] # NoHandle =>
            Ready(node[q], q, w) /\ \A x \in ImportsIn(w, q) : node[x] # NoHandle,
         \A q \in ImportsIn(w, p) : node[q] # NoHandle
  PROVE  KeyOf(node, e, p, r.seen) \in Keys /\ KeyFor(KeyOf(node, e, p, r.seen), w, p)
<1> DEFINE k == KeyOf(node, e, p, r.seen)
           in == {q \in r.seen : node[q] # NoHandle}
<1>p. w \in Partial
  BY WorldPartial
<1>1. \A q \in in : node[q].local = w[q] /\ w[q] \in Content /\ q \in Pkg
  BY ReadyFields DEF World
<1>2. k.local = LocalKey(w, p) /\ k.deps = {<<q, node[q].local>> : q \in in}
  BY DEF KeyOf, Running, LocalKey
<1>3. k \in Keys
  BY <1>1 DEF KeyOf, Keys, Running, World
<1>4. \A x, y \in k.deps : x[1] = y[1] => x = y
  BY <1>2
<1>5. ASSUME NEW x \in Direct(w, p) PROVE LocalKey(w, x) \in k.deps
  <2>1. x \in ImportsIn(w, p) \/ \E q \in ImportsIn(w, p) : x \in ImportsIn(w, q)
    BY <1>p, DirectTyped
  <2>2. x \in Pkg /\ node[x] # NoHandle
    BY <1>p, <2>1, ImportsTyped
  <2>3. x \in r.seen
    BY DEF Running, Direct
  <2>4. x \in in
    BY <2>2, <2>3
  <2> QED
    BY <1>1, <1>2, <2>4 DEF LocalKey
<1> QED
  BY <1>2, <1>3, <1>4, <1>5 DEF KeyFor

-----------------------------------------------------------------------------
(* The inductive invariant.                                                *)

\* The handles of the snapshots and of their batches.
Stored == \A s \in Snapshot : s <= cur => \A p \in Pkg :
    /\ packages[s][p] # NoHandle => Sound(packages[s][p], p, contents[s])
    /\ batch[s].handles[p] # NoHandle => Ready(batch[s].handles[p], p, contents[s])

\* Snapshots that do not exist yet have nothing.
Unborn == \A s \in Snapshot : s > cur => packages[s] = NoHandles /\ batch[s] = NoBatch

\* The nodes of a request are ready and were made after those of their imports; those
\* evaluated and not yet stored are ready, or their reachability runs are right so far;
\* and the set of a symbol that has one has the packages the symbol refers to.
NodesFor(r, w) == \A p \in Pkg : r.node[p] # NoHandle =>
    Ready(r.node[p], p, w) /\ \A q \in ImportsIn(w, p) : r.node[q] # NoHandle
PendFor(r, w) == \A p \in Pkg :
    /\ r.reach[p] # NoReach => /\ r.pend[p] # NoHandle
                               /\ Running(r.pend[p], r.reach[p], p, w)
                               /\ r.reach[p].todo \subseteq ImportsIn(w, p)
    /\ r.pend[p] # NoHandle =>
          /\ \A q \in ImportsIn(w, p) : r.node[q] # NoHandle
          /\ r.reach[p] = NoReach => Ready(r.pend[p], p, w)
TransFor(r, w) ==
    /\ \A x \in r.known : RefPkgs(w, x) \subseteq r.trans[x]
    /\ \A q \in r.full, n \in Name : <<q, n>> \in r.known

\* A request type-checks when all it needs are there.
Request(t) ==
    /\ th[t].s <= cur
    /\ NodesFor(th[t], contents[th[t].s])
    /\ PendFor(th[t], contents[th[t].s])
    /\ TransFor(th[t], contents[th[t].s])
    /\ At(t, "check") => \A p \in Needed(t) : /\ th[t].node[p] # NoHandle
                                              /\ batch[th[t].s].handles[p] # NoHandle
    /\ At(t, "post") => th[t].node[th[t].p] # NoHandle
    /\ At(t, "check") \/ At(t, "post") => th[t].pend = NoHandles
    /\ At(t, "post") \/ At(t, "done") =>
          CheckedIn(th[t].result, contents[th[t].s], th[t].p)

Requests == \A t \in Thread : Request(t)

Members(s) == {t \in Thread : th[t].s = s /\ ~At(t, "idle") /\ ~At(t, "done")}
Counted == \A s \in Snapshot : batch[s].ref = Cardinality(Members(s))

IInv == TypeOK /\ Stored /\ Unborn /\ Requests /\ Counted

LEMMA IdleTyped == \A p \in Pkg : Idle(p) \in Threads
<1>1. NoTrans \in [Symbol -> SUBSET Pkg] /\ 0 \in Snapshot
  BY HandlesAssumption DEF NoTrans, Snapshot
<1>2. /\ NoHandles \in HandleMaps /\ NoHandles \in [Pkg -> Pending \union {NoHandle}]
      /\ [q \in Pkg |-> NoReach] \in [Pkg -> Reaches \union {NoReach}]
  BY DEF NoHandles, HandleMaps
<1> QED
  BY <1>1, <1>2 DEF Idle, Threads

\* A request that has nothing yet has nothing wrong.
LEMMA NothingYet ==
  ASSUME NEW r, NEW w, r.node = NoHandles, r.pend = NoHandles,
         r.reach = [q \in Pkg |-> NoReach], r.known = {}, r.full = {}
  PROVE  NodesFor(r, w) /\ PendFor(r, w) /\ TransFor(r, w)
BY DEF NodesFor, PendFor, TransFor, NoHandles

LEMMA InitIInv == Init => IInv
<1> SUFFICES ASSUME Init PROVE IInv
  OBVIOUS
<1> USE HandlesAssumption
<1>1. NoHandles \in HandleMaps /\ NoBatch \in Batches
  BY DEF NoHandles, HandleMaps, NoBatch, Batches
<1>2. PICK p \in Queried : th = [t \in Thread |-> Idle(p)]
  BY DEF Init
<1>3. TypeOK
  BY <1>1, <1>2, IdleTyped DEF Init, TypeOK, Snapshot, World
<1>4. Unborn
  BY DEF Init, Unborn
<1>5. Stored
  BY DEF Init, Stored, NoHandles, NoBatch
<1>6. Requests
  <2>1. \A t \in Thread : /\ th[t].node = NoHandles /\ th[t].pend = NoHandles
                           /\ th[t].reach = [q \in Pkg |-> NoReach]
                           /\ th[t].known = {} /\ th[t].full = {}
                           /\ th[t].pc = "idle" /\ th[t].s = 0
    BY <1>2 DEF Idle
  <2>2. \A t \in Thread : /\ NodesFor(th[t], contents[th[t].s])
                           /\ PendFor(th[t], contents[th[t].s])
                           /\ TransFor(th[t], contents[th[t].s])
    BY <2>1, NothingYet
  <2> QED
    BY <2>1, <2>2 DEF Init, Requests, Request, At
<1>7. Counted
  <2>1. \A s \in Snapshot : Members(s) = {}
    BY <1>2 DEF Members, Idle, At
  <2> QED
    BY <2>1, FS_EmptySet DEF Counted, Init, NoBatch
<1> QED
  BY <1>3, <1>4, <1>5, <1>6, <1>7 DEF IInv

\* A request that does not move keeps what it has, if its snapshot does and its batch
\* loses no handle.
LEMMA RequestFrame ==
  ASSUME NEW t \in Thread, Request(t), cur \in Nat, cur' \in Nat, cur <= cur',
         th[t].s \in Nat,
         th'[t] = th[t], contents'[th[t].s] = contents[th[t].s],
         At(t, "check") => \A p \in Pkg :
            batch[th[t].s].handles[p] # NoHandle => batch'[th[t].s].handles[p] # NoHandle
  PROVE  Request(t)'
<1>1. Needed(t)' = Needed(t) /\ Needed(t) \subseteq Pkg
  BY DEF Needed, Deps
<1> QED
  BY <1>1 DEF Request, At

\* A step that leaves the batches alone and changes no membership keeps the count.
LEMMA CountedFrame ==
  ASSUME Counted, \A s \in Snapshot : batch'[s].ref = batch[s].ref,
         \A s \in Snapshot : Members(s)' = Members(s)
  PROVE  Counted'
BY DEF Counted

LEMMA MembersFinite == \A s : IsFiniteSet(Members(s))
BY HandlesAssumption, FS_Subset DEF Members

\* What Leave does: the batch loses a member, and its handles only with the last.
LEMMA LeaveBatch ==
  ASSUME IInv, NEW t \in Thread, t \in Members(th[t].s), Leave(th[t].s)
  PROVE  /\ batch' \in [Snapshot -> Batches]
         /\ batch'[th[t].s].ref = Cardinality(Members(th[t].s) \ {t})
         /\ \A s \in Snapshot : s # th[t].s => batch'[s] = batch[s]
         /\ \A s \in Snapshot, p \in Pkg : batch'[s].handles[p] # NoHandle =>
               batch'[s].handles[p] = batch[s].handles[p]
         /\ \A r \in Thread \ {t} : \A s \in Snapshot :
               r \in Members(s) => batch'[s].handles = batch[s].handles
<1> DEFINE s == th[t].s  M == Members(s)
<1>1. s \in Snapshot /\ batch[s] \in Batches /\ batch \in [Snapshot -> Batches]
  BY DEF IInv, TypeOK, Threads
<1>2. IsFiniteSet(M) /\ batch[s].ref = Cardinality(M) /\ t \in M
  BY <1>1, MembersFinite DEF IInv, Counted
<1>3. Cardinality(M \ {t}) = batch[s].ref - 1 /\ batch[s].ref \in Nat
  BY <1>1, <1>2, FS_RemoveElement DEF Batches
<1>4. Cardinality(M \ {t}) \in Nat
  BY <1>2, FS_RemoveElement, FS_CardinalityType
<1>5. NoBatch \in Batches
  BY DEF NoBatch, Batches, NoHandles, HandleMaps
<1>7. CASE batch[s].ref = 1
  <2>1. batch' = [batch EXCEPT ![s] = NoBatch]
    BY <1>7 DEF Leave
  <2>2. M = {t}
    <3> HIDE DEF M
    <3>1. PICK x : M = {x}
      BY <1>2, <1>7, FS_Singleton
    <3> QED
      BY <3>1, <1>2
  <2>3. \A r \in Thread \ {t} : r \notin M
    BY <2>2
  <2>4. batch'[s] = NoBatch /\ \A x \in Snapshot : x # s => batch'[x] = batch[x]
    BY <2>1, <1>1
  <2>5. NoBatch.ref = 0 /\ \A p \in Pkg : NoBatch.handles[p] = NoHandle
    BY DEF NoBatch, NoHandles
  <2>6. batch' \in [Snapshot -> Batches]
    BY <2>1, <1>1, <1>5
  <2>7. \A r \in Thread \ {t} : \A x \in Snapshot : r \in Members(x) => x # s
    BY <2>3
  <2> HIDE DEF M, s
  <2> QED
    BY <2>4, <2>5, <2>6, <2>7, <1>3, <1>7 DEF M, s
<1>8. CASE batch[s].ref # 1
  <2>1. batch' = [batch EXCEPT ![s] = [batch[s] EXCEPT !.ref = batch[s].ref - 1]]
    BY <1>8, <1>1 DEF Leave, Batches
  <2>2. [batch[s] EXCEPT !.ref = batch[s].ref - 1] \in Batches
    BY <1>1, <1>3, <1>4 DEF Batches
  <2> QED
    BY <2>1, <2>2, <1>1, <1>3 DEF Batches
<1> QED
  BY <1>7, <1>8

\* The types of what a request's step reads.
Types(t) ==
    /\ th[t] \in Threads /\ th[t].s \in Snapshot /\ th[t].p \in Pkg
    /\ cur \in Snapshot /\ cur \in Nat /\ th[t].s \in Nat /\ th[t].s <= cur
    /\ contents[th[t].s] \in World /\ contents[th[t].s] \in Partial
    /\ packages[th[t].s] \in HandleMaps /\ batch[th[t].s] \in Batches
    /\ th[t].node \in HandleMaps /\ th[t].pend \in [Pkg -> Pending \union {NoHandle}]
    /\ th[t].reach \in [Pkg -> Reaches \union {NoReach}]
    /\ th[t].trans \in [Symbol -> SUBSET Pkg]
    /\ th[t].known \subseteq Symbol /\ th[t].full \subseteq Pkg
    /\ NoHandles \in HandleMaps

LEMMA Typed ==
  ASSUME IInv, NEW t \in Thread
  PROVE  Types(t)
BY HandlesAssumption, WorldPartial
   DEF Types, IInv, TypeOK, Threads, Requests, Request, Snapshot, NoHandles, HandleMaps

\* The step of one request that changes nothing but its own state, and stays in its
\* batch or out of it.
LEMMA ThreadStep ==
  ASSUME IInv, NEW t \in Thread, NEW r \in Threads, th' = [th EXCEPT ![t] = r],
         UNCHANGED <<cur, contents, open>>,
         packages' \in [Snapshot -> HandleMaps], batch' \in [Snapshot -> Batches],
         Stored', Unborn', Counted', Request(t)',
         \A x \in Thread \ {t} : At(x, "check") => \A p \in Pkg :
            batch[th[x].s].handles[p] # NoHandle => batch'[th[x].s].handles[p] # NoHandle
  PROVE  IInv'
<1>1. TypeOK'
  BY DEF IInv, TypeOK
<1>2. ASSUME NEW x \in Thread \ {t} PROVE Request(x)'
  <2>1. th'[x] = th[x] /\ Request(x) /\ cur' = cur /\ contents' = contents
    BY DEF IInv, Requests, TypeOK
  <2> QED
    BY <2>1, Typed, RequestFrame DEF Types
<1>3. Requests'
  BY <1>2 DEF Requests
<1> QED
  BY <1>1, <1>3 DEF IInv

\* What the members of the batches become when one request moves.
LEMMA MembersMove ==
  ASSUME IInv, NEW t \in Thread, NEW r \in Threads, th' = [th EXCEPT ![t] = r]
  PROVE  \A s \in Snapshot :
            Members(s)' = IF r.s = s /\ r.pc \notin {"idle", "done"}
                          THEN Members(s) \union {t} ELSE Members(s) \ {t}
<1>1. th'[t] = r /\ \A x \in Thread \ {t} : th'[x] = th[x]
  BY DEF IInv, TypeOK
<1> QED
  BY <1>1 DEF Members, At

\* How a request starts.
LEMMA Started ==
  ASSUME NEW p \in Pkg, NEW s \in Snapshot
  PROVE  /\ \A pkg \in Packages :
               [Idle(p) EXCEPT !.pc = "done", !.s = s, !.result = pkg] \in Threads
         /\ [Idle(p) EXCEPT !.pc = "handles", !.s = s] \in Threads
<1>1. Idle(p) \in Threads
  BY IdleTyped
<1> DEFINE i == Idle(p)
<1>2. i \in Threads
  BY <1>1
<1> HIDE DEF i
<1>3. /\ \A pkg \in Packages :
            [i EXCEPT !.pc = "done", !.s = s, !.result = pkg] \in Threads
      /\ [i EXCEPT !.pc = "handles", !.s = s] \in Threads
  BY <1>2 DEF Threads
<1> QED
  BY <1>3 DEF i

LEMMA ForEachPackageIInv ==
  ASSUME IInv, NEW t \in Thread, NEW p \in Queried, ForEachPackage(t, p)
  PROVE  IInv'
<1> DEFINE h == packages[cur][p]
<1>t. Types(t)
  BY Typed
<1> USE <1>t DEF Types
<1>1. p \in Pkg /\ Idle(p) \in Threads /\ t \notin Members(cur)
  BY IdleTyped, HandlesAssumption DEF ForEachPackage, Members
<1>2. CASE h # NoHandle /\ h.state = ValidPackage
  <2> DEFINE r == [Idle(p) EXCEPT !.pc = "done", !.s = cur, !.result = h.data.pkg]
  <2>1. th' = [th EXCEPT ![t] = r] /\ UNCHANGED <<cur, contents, open, packages, batch>>
    BY <1>2 DEF ForEachPackage
  <2>2. Sound(h, p, contents[cur])
    BY <1>1, <1>2 DEF IInv, Stored
  <2>3. /\ CheckedIn(h.data.pkg, contents[cur], p) /\ h.data.pkg # NoPkg
        /\ h.data \in Datas
    BY <1>2, <2>2 DEF Sound, Current, CheckedIn, ValidImports, ValidPackage, Handles,
                      HandlesWith
  <2>4. /\ r.pc = "done" /\ r.s = cur /\ r.p = p /\ r.node = NoHandles
        /\ r.pend = NoHandles /\ r.result = h.data.pkg
        /\ r.reach = [q \in Pkg |-> NoReach] /\ r.known = {} /\ r.full = {}
    BY DEF Idle
  <2>5. r \in Threads
    <3>1. h.data.pkg \in Packages
      BY <2>3 DEF Datas
    <3> QED
      BY <3>1, <1>1, Started
  <2> HIDE DEF r
  <2>6. Stored' /\ Unborn'
    BY <2>1 DEF IInv, Stored, Unborn
  <2>7. \A s \in Snapshot : Members(s)' = Members(s)
    BY <2>1, <2>4, <2>5, MembersMove DEF Members, ForEachPackage, At
  <2>8. Counted'
    BY <2>1, <2>7 DEF IInv, Counted
  <2>9. th'[t] = r
    BY <2>1 DEF IInv, TypeOK
  <2>10. Request(t)'
    BY <2>1, <2>3, <2>4, <2>9, NothingYet DEF Request, At
  <2> QED
    BY <2>1, <2>5, <2>6, <2>8, <2>10, ThreadStep DEF IInv, TypeOK
<1>3. CASE ~(h # NoHandle /\ h.state = ValidPackage)
  <2> DEFINE r == [Idle(p) EXCEPT !.pc = "handles", !.s = cur]
  <2>1. /\ th' = [th EXCEPT ![t] = r] /\ UNCHANGED <<cur, contents, open, packages>>
        /\ batch' = [batch EXCEPT ![cur].ref = @ + 1]
    BY <1>3 DEF ForEachPackage
  <2>4. /\ r.pc = "handles" /\ r.s = cur /\ r.p = p
        /\ r.node = NoHandles /\ r.pend = NoHandles
        /\ r.reach = [q \in Pkg |-> NoReach] /\ r.known = {} /\ r.full = {}
    BY DEF Idle
  <2>5. r \in Threads
    BY <1>1, Started
  <2> HIDE DEF r
  <2>b. /\ batch' \in [Snapshot -> Batches]
        /\ \A s \in Snapshot : batch'[s].handles = batch[s].handles
        /\ batch'[cur].ref = batch[cur].ref + 1
        /\ \A s \in Snapshot : s # cur => batch'[s] = batch[s]
    <3>1. batch \in [Snapshot -> Batches] /\ batch[cur] \in Batches
      BY DEF IInv, TypeOK
    <3>2. [batch[cur] EXCEPT !.ref = @ + 1] \in Batches
      BY <3>1 DEF Batches
    <3>3. batch' = [batch EXCEPT ![cur] = [batch[cur] EXCEPT !.ref = @ + 1]]
      BY <2>1
    <3>4. batch'[cur] = [batch[cur] EXCEPT !.ref = @ + 1]
      BY <3>1, <3>3
    <3>5. batch'[cur].handles = batch[cur].handles /\ batch'[cur].ref = batch[cur].ref + 1
      BY <3>1, <3>4 DEF Batches
    <3> QED
      BY <3>1, <3>2, <3>3, <3>5
  <2>6. Stored' /\ Unborn'
    BY <2>1, <2>b DEF IInv, Stored, Unborn, Snapshot
  <2>7. \A s \in Snapshot : Members(s)' = IF s = cur THEN Members(s) \union {t}
                                         ELSE Members(s)
    <3>1. \A s \in Snapshot : t \notin Members(s)
      BY DEF Members, ForEachPackage
    <3>2. \A s \in Snapshot :
             Members(s)' = IF r.s = s /\ r.pc \notin {"idle", "done"}
                           THEN Members(s) \union {t} ELSE Members(s) \ {t}
      BY <2>1, <2>5, MembersMove
    <3> QED
      BY <2>4, <3>1, <3>2 DEF Members, At
  <2>8. Counted'
    <3>1. Cardinality(Members(cur) \union {t}) = Cardinality(Members(cur)) + 1
      BY <1>1, MembersFinite, FS_AddElement
    <3> QED
      BY <2>b, <2>7, <3>1 DEF IInv, Counted
  <2>9. th'[t] = r
    BY <2>1 DEF IInv, TypeOK
  <2>10. Request(t)'
    BY <2>1, <2>4, <2>9, NothingYet DEF Request, At
  <2>11. \A x \in Thread \ {t} : At(x, "check") => \A q \in Pkg :
            batch[th[x].s].handles[q] # NoHandle => batch'[th[x].s].handles[q] # NoHandle
    BY <2>b, Typed
  <2> QED
    BY <2>1, <2>b, <2>5, <2>6, <2>8, <2>10, <2>11, ThreadStep DEF IInv, TypeOK
<1> QED
  BY <1>2, <1>3

\* The step of a request that evaluates handles and stores nothing in its batch.
LEMMA HandlesStep ==
  ASSUME IInv, NEW t \in Thread, NEW r \in Threads, th' = [th EXCEPT ![t] = r],
         UNCHANGED <<cur, contents, open, batch>>, At(t, "handles"),
         r.pc = "handles", r.s = th[t].s, r.p = th[t].p,
         packages' \in [Snapshot -> HandleMaps], Stored', Unborn',
         NodesFor(r, contents[th[t].s]), PendFor(r, contents[th[t].s]),
         TransFor(r, contents[th[t].s])
  PROVE  IInv'
<1>1. \A x \in Snapshot : Members(x)' = Members(x)
  BY MembersMove DEF Members, At
<1>2. Counted'
  BY <1>1 DEF IInv, Counted
<1>3. th'[t] = r /\ batch' \in [Snapshot -> Batches]
  BY DEF IInv, TypeOK
<1>4. Request(t)'
  BY <1>3, Typed DEF Request, At, Types
<1> QED
  BY <1>2, <1>3, <1>4, ThreadStep

\* A handle that was evaluated and waits to be stored, with a reachability run or not.
LEMMA EvaluatedStep ==
  ASSUME IInv, NEW t \in Thread, NEW p \in Pkg, At(t, "handles"),
         \A q \in ImportsIn(contents[th[t].s], p) : th[t].node[q] # NoHandle,
         NEW e \in Pending, NEW x \in Reaches \union {NoReach},
         UNCHANGED <<cur, contents, open, packages, batch>>,
         th' = [th EXCEPT ![t] = [th[t] EXCEPT !.pend = [th[t].pend EXCEPT ![p] = e],
                                               !.reach = [th[t].reach EXCEPT ![p] = x]]],
         x = NoReach => Ready(e, p, contents[th[t].s]),
         x # NoReach => /\ Running(e, x, p, contents[th[t].s])
                        /\ x.todo \subseteq ImportsIn(contents[th[t].s], p)
  PROVE  IInv'
<1> DEFINE w == contents[th[t].s]
           pend == [th[t].pend EXCEPT ![p] = e]
           reach == [th[t].reach EXCEPT ![p] = x]
           r == [th[t] EXCEPT !.pend = pend, !.reach = reach]
<1>t. Types(t)
  BY Typed
<1> USE <1>t DEF Types
<1>1. /\ pend \in [Pkg -> Pending \union {NoHandle}]
      /\ reach \in [Pkg -> Reaches \union {NoReach}]
      /\ \A q \in Pkg : /\ pend[q] = IF q = p THEN e ELSE th[t].pend[q]
                        /\ reach[q] = IF q = p THEN x ELSE th[t].reach[q]
  OBVIOUS
<1>2. r = [th[t] EXCEPT !.pend = pend, !.reach = reach] /\ th' = [th EXCEPT ![t] = r]
  OBVIOUS
<1> HIDE DEF pend, reach, r
<1>3. /\ r \in Threads /\ r.pc = "handles" /\ r.s = th[t].s /\ r.p = th[t].p
      /\ r.node = th[t].node /\ r.pend = pend /\ r.reach = reach
      /\ r.trans = th[t].trans /\ r.known = th[t].known /\ r.full = th[t].full
  BY <1>1, <1>2 DEF Threads, At
<1>4. NodesFor(th[t], w) /\ PendFor(th[t], w) /\ TransFor(th[t], w)
  BY DEF IInv, Requests, Request
<1>5. NodesFor(r, w) /\ TransFor(r, w)
  BY <1>3, <1>4 DEF NodesFor, TransFor
<1>6. PendFor(r, w)
  BY <1>1, <1>3, <1>4, HandlesAssumption DEF PendFor
<1>7. Stored' /\ Unborn' /\ packages' \in [Snapshot -> HandleMaps]
  BY DEF IInv, TypeOK, Stored, Unborn
<1> QED
  BY <1>2, <1>3, <1>5, <1>6, <1>7, HandlesStep

LEMMA EvaluateIInv ==
  ASSUME IInv, NEW t \in Thread, NEW p \in Pkg, EvaluatePackageHandle(t, p)
  PROVE  IInv'
<1> DEFINE s == th[t].s
           w == contents[s]
           node == th[t].node
           isOpen == p \in open[s]
           h == IF packages[s][p] = NoHandle THEN NewHandle ELSE packages[s][p]
           l == IF h.state < ValidLocalData THEN Local(h, w[p], isOpen) ELSE h
           depKeys == [q \in Pkg |-> IF q \in ImportsIn(w, p) THEN node[q].key ELSE NoKey]
           dc == h.depKeys # depKeys
           run == [todo |-> ImportsIn(w, p), seen |-> ImportsIn(w, p), depsChanged |-> dc]
<1>t. Types(t)
  BY Typed
<1> USE <1>t DEF Types
<1>1. /\ UNCHANGED <<cur, contents, open, packages, batch>>
      /\ At(t, "handles") /\ node[p] = NoHandle /\ th[t].pend[p] = NoHandle
      /\ \A q \in ImportsIn(w, p) : node[q] # NoHandle
  BY DEF EvaluatePackageHandle
<1>2. h = NewHandle \/ Sound(h, p, w)
  BY DEF IInv, Stored
<1>3. /\ \A q \in Pkg : node[q] # NoHandle => Ready(node[q], q, w)
      /\ th[t].reach[p] = NoReach
  BY <1>1 DEF IInv, Requests, Request, NodesFor, PendFor
<1>4. depKeys \in DepKeyMaps /\ DepKeysFor(depKeys, w, p)
  <2>1. \A q \in ImportsIn(w, p) : /\ q \in Pkg /\ node[q].key \in Keys
                                   /\ KeyFor(node[q].key, w, q) /\ node[q].key # NoKey
    BY <1>1, <1>3, ImportsTyped, ReadyFields, HandlesAssumption
  <2> QED
    BY <2>1 DEF DepKeyMaps, DepKeysFor
<1>5. /\ isOpen \in BOOLEAN
      /\ h.state \in Nat
  <2> HIDE DEF h
  <2>1. CASE h = NewHandle
    BY <2>1 DEF NewHandle, ValidMetadata
  <2>2. CASE Sound(h, p, w)
    BY <2>2 DEF Sound, Handles, HandlesWith
  <2> QED
    BY <1>2, <2>1, <2>2
<1>6. \/ /\ h.state >= ValidKey
         /\ th' = [th EXCEPT ![t].pend[p] = h]
      \/ /\ h.state < ValidKey /\ l.local = h.local /\ ~dc
         /\ th' = [th EXCEPT ![t].pend[p] = Revalidated(l, l.key, FALSE)]
      \/ /\ h.state < ValidKey /\ (l.local # h.local \/ dc)
         /\ th' = [th EXCEPT ![t].pend[p] = [l EXCEPT !.depKeys = depKeys],
                             ![t].reach[p] = run]
  BY DEF EvaluatePackageHandle
<1>7. ASSUME NEW e, Ready(e, p, w), th' = [th EXCEPT ![t].pend[p] = e] PROVE IInv'
  <2>1. e \in Pending
    BY <1>7 DEF Ready, Sound, Handles, Pending, HandlesWith
  <2>2. [th[t].reach EXCEPT ![p] = NoReach] = th[t].reach
    BY <1>3
  <2>3. [th[t] EXCEPT !.pend = [th[t].pend EXCEPT ![p] = e]] =
        [th[t] EXCEPT !.pend = [th[t].pend EXCEPT ![p] = e],
                      !.reach = [th[t].reach EXCEPT ![p] = NoReach]]
    BY <2>2 DEF Threads
  <2>4. th' = [th EXCEPT ![t] = [th[t] EXCEPT !.pend = [th[t].pend EXCEPT ![p] = e]]]
    BY <1>7
  <2>5. th' = [th EXCEPT ![t] = [th[t] EXCEPT
                  !.pend = [th[t].pend EXCEPT ![p] = e],
                  !.reach = [th[t].reach EXCEPT ![p] = NoReach]]]
    BY <2>3, <2>4
  <2> QED
    BY <1>1, <1>7, <2>1, <2>5, EvaluatedStep
<1> HIDE DEF h, isOpen, depKeys
<1>8. CASE h.state >= ValidKey /\ th' = [th EXCEPT ![t].pend[p] = h]
  <2>1. Ready(h, p, w)
    BY <1>2, <1>8 DEF Ready, NewHandle, ValidMetadata, ValidKey
  <2> QED
    BY <1>7, <1>8, <2>1
<1>9. CASE h.state < ValidKey /\ l.local = h.local /\ ~dc
           /\ th' = [th EXCEPT ![t].pend[p] = Revalidated(l, l.key, FALSE)]
  <2>1. Ready(Revalidated(l, l.key, FALSE), p, w)
    BY <1>2, <1>4, <1>5, <1>9, EvaluatedPruned
  <2> QED
    BY <1>7, <1>9, <2>1
<1>10. CASE h.state < ValidKey /\ (l.local # h.local \/ dc)
            /\ th' = [th EXCEPT ![t].pend[p] = [l EXCEPT !.depKeys = depKeys],
                                ![t].reach[p] = run]
  <2> DEFINE e == [l EXCEPT !.depKeys = depKeys]
  <2>1. run \in Reaches /\ Running(e, run, p, w)
    <3>1. /\ l = IF h.state < ValidLocalData THEN Local(h, w[p], isOpen) ELSE h
          /\ l.local # h.local \/ h.depKeys # depKeys
          /\ h = NewHandle \/ (Sound(h, p, w) /\ h.state < ValidKey)
      BY <1>2, <1>10
    <3> HIDE DEF l, s, w
    <3>2. w \in World
      BY DEF w, s
    <3> QED
      BY <1>4, <1>5, <3>1, <3>2, EvaluatedRunning
  <2>2. e \in Pending /\ run # NoReach /\ run.todo \subseteq ImportsIn(w, p)
    BY <2>1, HandlesAssumption DEF Running
  <2>3. th' = [th EXCEPT ![t].pend[p] = e, ![t].reach[p] = run]
    BY <1>10
  <2> HIDE DEF e, run
  <2>4. th' = [th EXCEPT ![t] = [th[t] EXCEPT !.pend = [th[t].pend EXCEPT ![p] = e],
                                              !.reach = [th[t].reach EXCEPT ![p] = run]]]
    BY <2>3 DEF IInv, TypeOK, Threads
  <2> QED
    BY <1>1, <2>1, <2>2, <2>4, EvaluatedStep
<1> QED
  BY <1>6, <1>8, <1>9, <1>10


\* Where there are nodes they make the world of the snapshot.
LEMMA NodeWorldAgrees ==
  ASSUME NEW w \in World, NEW r, r.node \in HandleMaps, NodesFor(r, w)
  PROVE  /\ NodeWorld(r.node) \in Partial
         /\ \A x \in Symbol : r.node[x[1]] # NoHandle =>
               /\ RefsIn(NodeWorld(r.node), x) = RefsIn(w, x)
               /\ \A y \in RefsIn(w, x) : y \in Symbol /\ r.node[y[1]] # NoHandle
<1> DEFINE v == NodeWorld(r.node)
<1>1. \A q \in Pkg : r.node[q] # NoHandle => v[q] = w[q] /\ w[q] \in Content
  BY ReadyFields DEF NodeWorld, NodesFor, World
<1>2. v \in Partial
  BY <1>1 DEF Partial, NodeWorld
<1>3. ASSUME NEW x \in Symbol, r.node[x[1]] # NoHandle
      PROVE  /\ RefsIn(v, x) = RefsIn(w, x)
             /\ \A y \in RefsIn(w, x) : y \in Symbol /\ r.node[y[1]] # NoHandle
  <2>1. x[1] \in Pkg
    BY DEF Symbol
  <2>2. \A q \in ImportsIn(w, x[1]) : r.node[q] # NoHandle
    BY <1>3, <2>1 DEF NodesFor
  <2>3. \A y \in RefsIn(w, x) : y \in Symbol /\ y[1] \in ImportsIn(w, x[1])
    BY WorldPartial, RefsInImports
  <2> QED
    BY <1>1, <1>3, <2>1, <2>2, <2>3 DEF RefsIn
<1> QED
  BY <1>2, <1>3

\* The symbols computed for an import are new, those of the import that were not known
\* before are among them, and their packages have nodes.
LEMMA NewSymbols ==
  ASSUME NEW w \in World, NEW r, r.node \in HandleMaps, NodesFor(r, w),
         NEW q \in Pkg, r.node[q] # NoHandle
  PROVE  LET new == New(NodeWorld(r.node), r.known, q)
         IN  /\ new \subseteq Symbol
             /\ \A n \in Name : <<q, n>> \in r.known \/ <<q, n>> \in new
             /\ \A x \in new : r.node[x[1]] # NoHandle
<1> DEFINE v == NodeWorld(r.node)
           fresh == Symbol \ r.known
           S == {x \in fresh : r.node[x[1]] # NoHandle}
           new == New(v, r.known, q)
<1>1. \A n \in Name : <<q, n>> \in Symbol
  BY DEF Symbol
<1>2. ({q} \X Name) \intersect fresh \subseteq S
  OBVIOUS
<1>3. \A x \in S : RefsIn(v, x) \intersect fresh \subseteq S
  BY NodeWorldAgrees
<1>4. S \in SUBSET Symbol
  OBVIOUS
<1>5. new \subseteq S
  BY <1>2, <1>3, <1>4 DEF New
<1>6. ({q} \X Name) \intersect fresh \subseteq new
  BY DEF New
<1> QED
  BY <1>1, <1>5, <1>6

\* The set of a new symbol has the packages it refers to.
LEMMA TransitiveRefsTyped ==
  ASSUME NEW w \in Partial, NEW trans \in [Symbol -> SUBSET Pkg], NEW new \in SUBSET Symbol,
         NEW found
  PROVE  /\ TransitiveRefs(w, trans, new, found) \in [Symbol -> SUBSET Pkg]
         /\ \A x \in new : RefPkgs(w, x) \subseteq TransitiveRefs(w, trans, new, found)[x]
<1> DEFINE along(x) == {Y \in SUBSET new : x \in Y /\ \A e \in found : e[1] \in Y => e[2] \in Y}
           path(x) == {y \in new : \A Y \in along(x) : y \in Y}
           set(y) == RefPkgs(w, y) \union
                     UNION {trans[z] : z \in RefsIn(w, y) \ new}
           refs == TransitiveRefs(w, trans, new, found)
<1>1. refs = [x \in Symbol |-> IF x \in new THEN UNION {set(y) : y \in path(x)} ELSE trans[x]]
  BY DEF TransitiveRefs
<1>2. \A y \in Symbol : RefPkgs(w, y) \subseteq Pkg /\ RefsIn(w, y) \subseteq Symbol
  BY RefPkgsInImports, RefsInImports
<1>3. \A y \in Symbol : set(y) \subseteq Pkg /\ RefPkgs(w, y) \subseteq set(y)
  BY <1>2
<1>4. \A x \in new : x \in path(x) /\ path(x) \subseteq Symbol
  OBVIOUS
<1> HIDE DEF refs, set, path, along
<1>5. ASSUME NEW x \in new
      PROVE  /\ UNION {set(y) : y \in path(x)} \subseteq Pkg
             /\ RefPkgs(w, x) \subseteq UNION {set(y) : y \in path(x)}
  BY <1>3, <1>4
<1>6. refs \in [Symbol -> SUBSET Pkg]
  BY <1>1, <1>5
<1>7. \A x \in new : RefPkgs(w, x) \subseteq refs[x]
  BY <1>1, <1>5
<1> QED
  BY <1>6, <1>7 DEF refs

LEMMA GetTransitiveRefsIInv ==
  ASSUME IInv, NEW t \in Thread, NEW p \in Pkg, NEW q \in Pkg, GetTransitiveRefs(t, p, q)
  PROVE  IInv'
<1> DEFINE o == th[t]
           w == contents[o.s]
           v == NodeWorld(o.node)
           new == IF q \in o.full THEN {} ELSE New(v, o.known, q)
<1>t. Types(t)
  BY Typed
<1> USE <1>t DEF Types
<1>1. /\ At(t, "handles") /\ o.reach[p] # NoReach /\ q \in o.reach[p].todo
      /\ UNCHANGED <<cur, contents, open, packages, batch>>
  BY DEF GetTransitiveRefs
<1>2. NodesFor(o, w) /\ PendFor(o, w) /\ TransFor(o, w)
  BY DEF IInv, Requests, Request
<1>3. /\ o.pend[p] # NoHandle /\ Running(o.pend[p], o.reach[p], p, w)
      /\ q \in ImportsIn(w, p) /\ o.node[q] # NoHandle
      /\ o.reach[p].todo \subseteq ImportsIn(w, p)
  BY <1>1, <1>2 DEF PendFor
<1>4. /\ new \subseteq Symbol /\ \A x \in new : o.node[x[1]] # NoHandle
      /\ \A n \in Name : <<q, n>> \in o.known \union new
  BY <1>2, <1>3, NewSymbols DEF TransFor
<1>5. PICK found \in Findings(v, q, new) :
         th' = [th EXCEPT
            ![t].trans = TransitiveRefs(v, o.trans, new, found),
            ![t].known = o.known \union new,
            ![t].full = o.full \union {q},
            ![t].reach[p] = [o.reach[p] EXCEPT
               !.todo = o.reach[p].todo \ {q},
               !.seen = o.reach[p].seen \union
                  UNION {TransitiveRefs(v, o.trans, new, found)[x] : x \in {q} \X Name}]]
  BY DEF GetTransitiveRefs
<1> DEFINE trans == TransitiveRefs(v, o.trans, new, found)
           seen == o.reach[p].seen \union UNION {trans[x] : x \in {q} \X Name}
           run == [o.reach[p] EXCEPT !.todo = o.reach[p].todo \ {q}, !.seen = seen]
           reach == [o.reach EXCEPT ![p] = run]
           r == [o EXCEPT !.trans = trans, !.known = o.known \union new,
                          !.full = o.full \union {q}, !.reach = reach]
<1>6. th' = [th EXCEPT ![t] = r]
  <2>1. th' = [th EXCEPT ![t].trans = trans, ![t].known = o.known \union new,
                         ![t].full = o.full \union {q}, ![t].reach[p] = run]
    BY <1>5
  <2> HIDE DEF trans, new, run
  <2> QED
    BY <2>1 DEF IInv, TypeOK, Threads
<1>7. /\ v \in Partial
      /\ \A x \in new : RefPkgs(v, x) = RefPkgs(w, x)
  <2>1. \A x \in new : x \in Symbol /\ RefsIn(v, x) = RefsIn(w, x)
    BY <1>2, <1>4, NodeWorldAgrees
  <2>2. v \in Partial
    BY <1>2, NodeWorldAgrees
  <2> QED
    BY <2>1, <2>2 DEF RefPkgs
<1>8. /\ trans \in [Symbol -> SUBSET Pkg]
      /\ \A x \in new : RefPkgs(v, x) \subseteq trans[x]
      /\ \A x \in Symbol : x \notin new => trans[x] = o.trans[x]
  <2> DEFINE old == o.trans
  <2>2. v \in Partial /\ new \in SUBSET Symbol /\ old \in [Symbol -> SUBSET Pkg]
    BY <1>4, <1>7
  <2>3. trans = TransitiveRefs(v, old, new, found)
    OBVIOUS
  <2> HIDE DEF new, v, old
  <2>4. TransitiveRefs(v, old, new, found) \in [Symbol -> SUBSET Pkg]
    BY <2>2, TransitiveRefsTyped
  <2>5. \A x \in new : RefPkgs(v, x) \subseteq TransitiveRefs(v, old, new, found)[x]
    BY <2>2, TransitiveRefsTyped
  <2>6. \A x \in Symbol : x \notin new => TransitiveRefs(v, old, new, found)[x] = old[x]
    BY DEF TransitiveRefs
  <2> HIDE DEF trans
  <2> QED
    BY <2>3, <2>4, <2>5, <2>6 DEF old
<1>9. TransFor(r, w)
  <2>1. /\ r.known = o.known \union new /\ r.full = o.full \union {q} /\ r.trans = trans
    BY DEF Threads
  <2>2. \A x \in o.known \union new : RefPkgs(w, x) \subseteq trans[x]
    <3> HIDE DEF trans, new
    <3> QED
      BY <1>2, <1>4, <1>7, <1>8 DEF TransFor
  <2> HIDE DEF r, trans, new
  <2> QED
    BY <1>2, <1>4, <2>1, <2>2 DEF TransFor
<1>10. \A n \in Name : RefPkgs(w, <<q, n>>) \subseteq trans[<<q, n>>]
  <2>1. r.known = o.known \union new /\ r.trans = trans
    BY DEF Threads
  <2> HIDE DEF r, trans, new
  <2> QED
    BY <1>4, <1>9, <2>1 DEF TransFor
<1>11. /\ run \in Reaches /\ run.todo = o.reach[p].todo \ {q} /\ run.seen = seen
       /\ run.depsChanged = o.reach[p].depsChanged
  <2>1. o.reach[p] \in Reaches
    BY <1>1
  <2>2. \A n \in Name : <<q, n>> \in Symbol
    BY DEF Symbol
  <2>3. seen \subseteq Pkg
    <3> HIDE DEF trans
    <3> QED
      BY <1>8, <2>1, <2>2 DEF Reaches
  <2> HIDE DEF seen
  <2> QED
    BY <2>1, <2>3 DEF Reaches
<1>12. /\ Running(o.pend[p], run, p, w)
       /\ run.todo \subseteq ImportsIn(w, p)
  <2>1. \A n \in Name : RefPkgs(w, <<q, n>>) \subseteq seen
    <3> HIDE DEF trans
    <3> QED
      BY <1>10
  <2>2. o.reach[p].seen \subseteq seen
    OBVIOUS
  <2> HIDE DEF run, seen
  <2> QED
    BY <1>3, <1>11, <2>1, <2>2 DEF Running
<1> HIDE DEF trans, seen, run, new, v
<1>13. /\ reach \in [Pkg -> Reaches \union {NoReach}]
       /\ \A x \in Pkg : reach[x] = IF x = p THEN run ELSE o.reach[x]
  BY <1>11
<1>14. o.known \union new \subseteq Symbol /\ o.full \union {q} \subseteq Pkg
  BY <1>4
<1> HIDE DEF reach
<1>15. /\ r \in Threads /\ r.pc = "handles" /\ r.s = o.s /\ r.p = o.p
       /\ r.node = o.node /\ r.pend = o.pend /\ r.reach = reach
  BY <1>1, <1>8, <1>13, <1>14 DEF Threads, At
<1> HIDE DEF r
<1>16. NodesFor(r, w)
  BY <1>2, <1>15 DEF NodesFor
<1>17. PendFor(r, w)
  BY <1>2, <1>3, <1>11, <1>12, <1>13, <1>15, HandlesAssumption DEF PendFor
<1>18. Stored' /\ Unborn' /\ packages' \in [Snapshot -> HandleMaps]
  BY <1>1 DEF IInv, TypeOK, Stored, Unborn
<1> QED
  BY <1>1, <1>6, <1>9, <1>15, <1>16, <1>17, <1>18, HandlesStep


\* The handle that is about to be stored is ready.
LEMMA StoredReady ==
  ASSUME IInv, NEW t \in Thread, NEW p \in Pkg, StoreHandle(t, p)
  PROVE  LET e == th[t].pend[p]
             run == th[t].reach[p]
         IN  Ready(IF run = NoReach THEN e
                   ELSE Revalidated(e, KeyOf(th[t].node, e, p, run.seen), run.depsChanged),
                   p, contents[th[t].s])
<1> DEFINE o == th[t]
           s == o.s
           w == contents[s]
           e == o.pend[p]
           run == o.reach[p]
           key == KeyOf(o.node, e, p, run.seen)
           h == IF run = NoReach THEN e ELSE Revalidated(e, key, run.depsChanged)
<1>t. Types(t)
  BY Typed
<1> USE <1>t DEF Types
<1>1. e # NoHandle /\ At(t, "handles") /\ (run # NoReach => run.todo = {})
  BY DEF StoreHandle
<1>2. NodesFor(o, w) /\ PendFor(o, w) /\ TransFor(o, w)
  BY DEF IInv, Requests, Request
<1>3. \A q \in ImportsIn(w, p) : o.node[q] # NoHandle
  BY <1>1, <1>2 DEF PendFor
<1>4. Ready(h, p, w)
  <2>1. CASE run = NoReach
    BY <1>1, <1>2, <2>1 DEF PendFor
  <2>2. CASE run # NoReach
    <3>1. Running(e, run, p, w) /\ run \in Reaches
      BY <1>2, <2>2 DEF PendFor
    <3>2. key \in Keys /\ KeyFor(key, w, p)
      <4>1. run.todo = {} /\ run.seen \subseteq Pkg
        BY <1>1, <2>2, <3>1 DEF Reaches
      <4>2. \A q \in Pkg : o.node[q] # NoHandle =>
               Ready(o.node[q], q, w) /\ \A x \in ImportsIn(w, q) : o.node[x] # NoHandle
        BY <1>2 DEF NodesFor
      <4> HIDE DEF e, run, w
      <4>3. w \in World
        BY DEF w
      <4> QED
        BY <1>3, <3>1, <4>1, <4>2, <4>3, KeyComputed
    <3>3. run.depsChanged \in BOOLEAN /\ e \in Pending /\ e.local = w[p]
          /\ DepKeysFor(e.depKeys, w, p)
      BY <3>1 DEF Running, Reaches
    <3>4. ~run.depsChanged /\ e.data # NoData =>
             DepKeysFor(e.data.imports, w, p) /\ key # e.key
      BY <3>1, <3>2 DEF Running, KeyFor
    <3> DEFINE dc == run.depsChanged
    <3>5. dc \in BOOLEAN /\ (~dc /\ e.data # NoData =>
             DepKeysFor(e.data.imports, w, p) /\ key # e.key)
      BY <3>3, <3>4
    <3> HIDE DEF key, e, dc
    <3>6. Ready(Revalidated(e, key, dc), p, w)
      BY <3>2, <3>3, <3>5, RevalidatedReady
    <3> QED
      BY <2>2, <3>6 DEF dc
  <2> QED
    BY <2>1, <2>2
<1> QED
  BY <1>4

LEMMA StoreIInv ==
  ASSUME IInv, NEW t \in Thread, NEW p \in Pkg, StoreHandle(t, p)
  PROVE  IInv'
<1> DEFINE o == th[t]
           s == o.s
           w == contents[s]
           e == o.pend[p]
           run == o.reach[p]
           h == IF run = NoReach THEN e
                ELSE Revalidated(e, KeyOf(o.node, e, p, run.seen), run.depsChanged)
           alt == packages[s][p]
           ph == IF Better(h, alt) THEN h ELSE alt
           node == [o.node EXCEPT ![p] = ph]
           pend == [o.pend EXCEPT ![p] = NoHandle]
           reach == [o.reach EXCEPT ![p] = NoReach]
           r == [o EXCEPT !.node = node, !.pend = pend, !.reach = reach]
<1>t. Types(t)
  BY Typed
<1> USE <1>t DEF Types
<1>1. /\ th' = [th EXCEPT ![t].node[p] = ph, ![t].pend[p] = NoHandle, ![t].reach[p] = NoReach]
      /\ UNCHANGED <<cur, contents, open, batch>>
      /\ packages' = [packages EXCEPT ![s][p] = ph]
      /\ e # NoHandle /\ At(t, "handles") /\ (run # NoReach => run.todo = {})
  BY DEF StoreHandle
<1>2. NodesFor(o, w) /\ PendFor(o, w) /\ TransFor(o, w)
  BY DEF IInv, Requests, Request
<1>3. \A q \in ImportsIn(w, p) : o.node[q] # NoHandle
  BY <1>1, <1>2 DEF PendFor
<1>4. Ready(h, p, w)
  BY StoredReady
<1> HIDE DEF h
<1>5. Ready(ph, p, w) /\ ph \in Handles /\ ph # NoHandle
  <2>1. alt # NoHandle => Sound(alt, p, w)
    BY DEF IInv, Stored
  <2>2. h.state \in 2 .. 4
    BY <1>4, ReadyFields
  <2>3. alt # NoHandle => alt.state \in 0 .. 4
    BY <2>1 DEF Sound, Handles, HandlesWith
  <2>4. ~Better(h, alt) => Ready(alt, p, w)
    BY <2>1, <2>2, <2>3 DEF Ready, ValidKey, Better
  <2>5. Ready(ph, p, w)
    BY <1>4, <2>4
  <2>6. ph \in Handles
    BY <2>5 DEF Ready, Sound
  <2> QED
    BY <2>5, <2>6, HandlesAssumption DEF Handles, Pending, HandlesWith
<1> HIDE DEF ph
<1>6. /\ node \in HandleMaps /\ pend \in [Pkg -> Pending \union {NoHandle}]
      /\ reach \in [Pkg -> Reaches \union {NoReach}]
      /\ \A q \in Pkg : /\ node[q] = IF q = p THEN ph ELSE o.node[q]
                        /\ pend[q] = IF q = p THEN NoHandle ELSE o.pend[q]
                        /\ reach[q] = IF q = p THEN NoReach ELSE o.reach[q]
  BY <1>5 DEF HandleMaps
<1>7. th' = [th EXCEPT ![t] = r]
  BY <1>1 DEF IInv, TypeOK, Threads
<1> HIDE DEF node, pend, reach
<1>8. /\ r \in Threads /\ r.pc = "handles" /\ r.s = s /\ r.p = o.p
      /\ r.node = node /\ r.pend = pend /\ r.reach = reach
      /\ r.trans = o.trans /\ r.known = o.known /\ r.full = o.full
  BY <1>1, <1>6 DEF Threads, At
<1> HIDE DEF r
<1>9. \A q \in Pkg : o.node[q] # NoHandle => node[q] # NoHandle
  BY <1>5, <1>6
<1>i. \A q \in Pkg : ImportsIn(w, q) \subseteq Pkg
  BY ImportsTyped
<1>10. NodesFor(r, w)
  BY <1>2, <1>3, <1>5, <1>6, <1>8, <1>9, <1>i DEF NodesFor
<1>11. PendFor(r, w)
  BY <1>2, <1>6, <1>8, <1>9, <1>i DEF PendFor
<1>12. TransFor(r, w)
  BY <1>2, <1>8 DEF TransFor
<1>13. /\ packages' \in [Snapshot -> HandleMaps]
       /\ \A x \in Snapshot, q \in Pkg :
             packages'[x][q] = IF x = s /\ q = p THEN ph ELSE packages[x][q]
  <2>1. packages \in [Snapshot -> HandleMaps]
    BY DEF IInv, TypeOK
  <2> QED
    BY <1>1, <1>5, <2>1 DEF HandleMaps
<1>14. Stored'
  BY <1>1, <1>5, <1>13 DEF IInv, Stored, Ready
<1>15. Unborn'
  <2>1. \A x \in Snapshot : x > cur => packages'[x] = packages[x]
    BY <1>1 DEF IInv, TypeOK, Snapshot
  <2> QED
    BY <1>1, <2>1 DEF IInv, Unborn
<1> QED
  BY <1>1, <1>7, <1>8, <1>10, <1>11, <1>12, <1>13, <1>14, <1>15, HandlesStep

\* What End does to the handles: a snapshot that was replaced may lose its own.
LEMMA EndPackages ==
  ASSUME IInv, NEW t \in Thread, End(t), cur' = cur
  PROVE  /\ packages' \in [Snapshot -> HandleMaps]
         /\ \A s \in Snapshot : packages'[s] = packages[s] \/ packages'[s] = NoHandles
         /\ th' = [th EXCEPT ![t] = Idle(th[t].p)]
         /\ Idle(th[t].p) \in Threads
<1>t. Types(t)
  BY Typed
<1> USE <1>t DEF Types
<1>1. packages \in [Snapshot -> HandleMaps]
  BY DEF IInv, TypeOK
<1> QED
  BY <1>1, IdleTyped DEF End

\* A request that has ended holds nothing.
LEMMA IdleRequest ==
  ASSUME IInv, NEW t \in Thread, th' = [th EXCEPT ![t] = Idle(th[t].p)], cur' = cur
  PROVE  Request(t)'
<1>t. Types(t)
  BY Typed
<1> USE <1>t DEF Types
<1>1. th'[t] = Idle(th[t].p)
  BY DEF IInv, TypeOK
<1>2. /\ th'[t].node = NoHandles /\ th'[t].pend = NoHandles
      /\ th'[t].reach = [q \in Pkg |-> NoReach]
      /\ th'[t].known = {} /\ th'[t].full = {} /\ th'[t].pc = "idle" /\ th'[t].s = 0
  BY <1>1 DEF Idle
<1>3. /\ NodesFor(th'[t], contents'[th'[t].s]) /\ PendFor(th'[t], contents'[th'[t].s])
      /\ TransFor(th'[t], contents'[th'[t].s])
  BY <1>2, NothingYet
<1> QED
  BY <1>2, <1>3 DEF Request, At

\* A request that leaves its batch.
LEMMA LeaveCounted ==
  ASSUME IInv, NEW t \in Thread, t \in Members(th[t].s), Leave(th[t].s),
         NEW r \in Threads, th' = [th EXCEPT ![t] = r], r.pc \in {"idle", "done"}
  PROVE  Counted'
<1>t. Types(t)
  BY Typed
<1> USE <1>t DEF Types
<1>1. \A s \in Snapshot : s # th[t].s => t \notin Members(s)
  BY DEF Members
<1>2. th'[t] = r /\ \A x \in Thread \ {t} : th'[x] = th[x]
  BY DEF IInv, TypeOK
<1>3. \A s \in Snapshot : Members(s)' = Members(s) \ {t}
  BY <1>2 DEF Members, At
<1>4. \A s \in Snapshot : s # th[t].s => Members(s)' = Members(s)
  <2> SUFFICES ASSUME NEW s \in Snapshot, s # th[t].s PROVE Members(s)' = Members(s)
    OBVIOUS
  <2>1. Members(s)' = Members(s) \ {t} /\ t \notin Members(s)
    BY <1>1, <1>3
  <2> QED
    BY <2>1
<1>5. \A s \in Snapshot : s = th[t].s => batch'[s].ref = Cardinality(Members(s) \ {t})
  BY LeaveBatch
<1>6. \A s \in Snapshot : s # th[t].s => batch'[s] = batch[s]
  BY LeaveBatch
<1> QED
  BY <1>3, <1>4, <1>5, <1>6 DEF IInv, Counted

LEMMA CancelIInv ==
  ASSUME IInv, NEW t \in Thread, Cancel(t)
  PROVE  IInv'
<1>t. Types(t)
  BY Typed
<1> USE <1>t DEF Types
<1>1. /\ End(t) /\ Leave(th[t].s) /\ UNCHANGED <<cur, contents, open>>
      /\ t \in Members(th[t].s)
  BY DEF Cancel, Members, At
<1>2. /\ packages' \in [Snapshot -> HandleMaps]
      /\ \A s \in Snapshot : packages'[s] = packages[s] \/ packages'[s] = NoHandles
      /\ th' = [th EXCEPT ![t] = Idle(th[t].p)]
      /\ Idle(th[t].p) \in Threads
  BY <1>1, EndPackages
<1>3. /\ batch' \in [Snapshot -> Batches]
      /\ \A s \in Snapshot, p \in Pkg : batch'[s].handles[p] # NoHandle =>
            batch'[s].handles[p] = batch[s].handles[p]
      /\ \A s \in Snapshot : s # th[t].s => batch'[s] = batch[s]
      /\ \A r \in Thread \ {t} : \A s \in Snapshot :
            r \in Members(s) => batch'[s].handles = batch[s].handles
  BY <1>1, LeaveBatch
<1>4. Stored'
  BY <1>1, <1>2, <1>3 DEF IInv, Stored, NoHandles
<1>5. Unborn'
  BY <1>1, <1>2, <1>3 DEF IInv, Unborn
<1>6. Counted'
  <2>1. Idle(th[t].p).pc = "idle"
    BY DEF Idle
  <2> QED
    BY <1>1, <1>2, <2>1, LeaveCounted
<1>7. \A x \in Thread \ {t} : At(x, "check") => batch'[th[x].s].handles = batch[th[x].s].handles
  <2>1. \A x \in Thread : At(x, "check") => x \in Members(th[x].s) /\ th[x].s \in Snapshot
    BY Typed DEF Members, At
  <2> QED
    BY <2>1, <1>3
<1>8. Request(t)'
  BY <1>1, <1>2, IdleRequest
<1> QED
  BY <1>1, <1>2, <1>3, <1>4, <1>5, <1>6, <1>7, <1>8, ThreadStep

LEMMA ReturnIInv ==
  ASSUME IInv, NEW t \in Thread, Return(t)
  PROVE  IInv'
<1>t. Types(t)
  BY Typed
<1> USE <1>t DEF Types
<1>1. /\ End(t) /\ UNCHANGED <<cur, contents, open, batch>> /\ At(t, "done")
  BY DEF Return
<1>2. /\ packages' \in [Snapshot -> HandleMaps]
      /\ \A s \in Snapshot : packages'[s] = packages[s] \/ packages'[s] = NoHandles
      /\ th' = [th EXCEPT ![t] = Idle(th[t].p)]
      /\ Idle(th[t].p) \in Threads
  BY <1>1, EndPackages
<1>4. Stored'
  BY <1>1, <1>2 DEF IInv, Stored, NoHandles
<1>5. Unborn'
  BY <1>1, <1>2 DEF IInv, Unborn
<1>6. Counted'
  <2>1. th'[t].pc = "idle" /\ \A x \in Thread \ {t} : th'[x] = th[x]
    BY <1>2 DEF IInv, TypeOK, Idle
  <2>2. \A s \in Snapshot : Members(s)' = Members(s)
    BY <2>1, <1>1 DEF Members, At
  <2> QED
    BY <1>1, <2>2 DEF IInv, Counted
<1>8. Request(t)'
  BY <1>1, <1>2, IdleRequest
<1> QED
  BY <1>1, <1>2, <1>4, <1>5, <1>6, <1>8, ThreadStep DEF IInv, TypeOK

LEMMA AddHandlesIInv ==
  ASSUME IInv, NEW t \in Thread, AddHandles(t)
  PROVE  IInv'
<1> DEFINE s == th[t].s
           w == contents[s]
           node == th[t].node
           old == batch[s].handles
           new == [p \in Pkg |-> IF node[p] # NoHandle /\ Better(node[p], old[p])
                                 THEN node[p] ELSE old[p]]
           r == [th[t] EXCEPT !.pc = "check", !.trans = NoTrans, !.known = {}, !.full = {}]
<1>t. Types(t)
  BY Typed
<1> USE <1>t DEF Types
<1>1. /\ th' = [th EXCEPT ![t] = r] /\ UNCHANGED <<cur, contents, open, packages>>
      /\ batch' = [batch EXCEPT ![s].handles = new]
      /\ \A p \in Needed(t) : node[p] # NoHandle
      /\ At(t, "handles") /\ th[t].pend = NoHandles
  BY DEF AddHandles
<1>2. \A p \in Pkg : /\ node[p] # NoHandle => Ready(node[p], p, w)
                     /\ old[p] # NoHandle => Ready(old[p], p, w)
  BY DEF IInv, Requests, Request, NodesFor, Stored
<1>3. new \in HandleMaps
  BY DEF HandleMaps, Batches
<1>4. \A p \in Pkg : /\ new[p] # NoHandle => Ready(new[p], p, w)
                     /\ node[p] # NoHandle \/ old[p] # NoHandle => new[p] # NoHandle
  BY <1>2 DEF Better
<1> HIDE DEF new
<1>5. /\ r \in Threads /\ r.pc = "check" /\ r.s = s /\ r.p = th[t].p
      /\ r.node = node /\ r.pend = th[t].pend /\ r.reach = th[t].reach
      /\ r.known = {} /\ r.full = {}
  <2>1. NoTrans \in [Symbol -> SUBSET Pkg]
    BY DEF NoTrans
  <2> QED
    BY <2>1 DEF Threads
<1> HIDE DEF r
<1>6. /\ batch' \in [Snapshot -> Batches]
      /\ batch'[s].handles = new /\ batch'[s].ref = batch[s].ref
      /\ \A x \in Snapshot : x # s => batch'[x] = batch[x]
  <2>1. batch \in [Snapshot -> Batches] /\ batch[s] \in Batches
    BY DEF IInv, TypeOK
  <2>2. /\ [batch[s] EXCEPT !.handles = new] \in Batches
        /\ [batch[s] EXCEPT !.handles = new].handles = new
        /\ [batch[s] EXCEPT !.handles = new].ref = batch[s].ref
    BY <2>1, <1>3 DEF Batches
  <2>3. batch' = [batch EXCEPT ![s] = [batch[s] EXCEPT !.handles = new]]
    BY <1>1
  <2> QED
    BY <2>1, <2>2, <2>3
<1>7. Stored'
  BY <1>1, <1>4, <1>6 DEF IInv, Stored
<1>8. Unborn'
  BY <1>1, <1>6 DEF IInv, Unborn, Snapshot
<1>9. \A x \in Snapshot : Members(x)' = Members(x)
  BY <1>1, <1>5, MembersMove DEF Members, At
<1>10. Counted'
  BY <1>6, <1>9 DEF IInv, Counted
<1>11. th'[t] = r
  BY <1>1 DEF IInv, TypeOK
<1>12. Request(t)'
  <2>1. Request(t)
    BY DEF IInv, Requests
  <2>2. /\ th'[t].s = s /\ th'[t].node = node /\ th'[t].pend = th[t].pend
        /\ th'[t].pc = "check" /\ contents'[s] = w /\ cur' = cur /\ th'[t].p = th[t].p
        /\ th'[t].reach = th[t].reach /\ th'[t].known = {} /\ th'[t].full = {}
    BY <1>1, <1>5, <1>11
  <2>3. Needed(t)' = Deps(w, th[t].p) /\ Needed(t) = Deps(w, th[t].p)
    BY <2>2 DEF Needed
  <2>4. Deps(w, th[t].p) \subseteq Pkg
    BY DEF Deps
  <2>5. \A p \in Deps(w, th[t].p) : node[p] # NoHandle /\ batch'[s].handles[p] # NoHandle
    BY <1>1, <1>4, <1>6, <2>3, <2>4
  <2>6. NodesFor(th'[t], w) /\ PendFor(th'[t], w) /\ TransFor(th'[t], w)
    BY <2>1, <2>2 DEF Request, NodesFor, PendFor, TransFor
  <2> QED
    BY <1>1, <2>1, <2>2, <2>3, <2>5, <2>6 DEF Request, At
<1>13. \A x \in Thread \ {t} : At(x, "check") => \A p \in Pkg :
          batch[th[x].s].handles[p] # NoHandle => batch'[th[x].s].handles[p] # NoHandle
  BY <1>4, <1>6, Typed
<1> QED
  BY <1>1, <1>5, <1>6, <1>7, <1>8, <1>10, <1>12, <1>13, ThreadStep DEF IInv, TypeOK

LEMMA HandleSyntaxIInv ==
  ASSUME IInv, NEW t \in Thread, HandleSyntaxPackage(t)
  PROVE  IInv'
<1> DEFINE s == th[t].s
           w == contents[s]
           p == th[t].p
           handles == batch[s].handles
           h == handles[p]
           imports == IF h.state >= ValidImports THEN h.data.imports
                      ELSE [q \in Pkg |-> IF q \in ImportsIn(w, p)
                                          THEN handles[q].key ELSE NoKey]
           pkg == IF h.state = ValidPackage THEN h.data.pkg
                  ELSE [local |-> <<p, h.local>>, imports |-> imports]
           r == [th[t] EXCEPT !.pc = "post", !.result = pkg]
<1>t. Types(t)
  BY Typed
<1> USE <1>t DEF Types
<1>1. /\ th' = [th EXCEPT ![t] = r]
      /\ UNCHANGED <<cur, contents, open, packages, batch>> /\ At(t, "check")
  BY DEF HandleSyntaxPackage
<1>2. \A q \in Deps(w, p) : /\ th[t].node[q] # NoHandle
                            /\ handles[q] # NoHandle /\ Ready(handles[q], q, w)
  <2>1. \A q \in Deps(w, p) : th[t].node[q] # NoHandle /\ handles[q] # NoHandle
    BY <1>1 DEF IInv, Requests, Request, Needed
  <2>2. Deps(w, p) \subseteq Pkg
    BY DEF Deps
  <2> QED
    BY <2>1, <2>2 DEF IInv, Stored
<1>3. p \in Deps(w, p) /\ ImportsIn(w, p) \subseteq Deps(w, p) /\ Deps(w, p) \subseteq Pkg
  BY DepsLeast DEF Closed
<1>4. \A q \in Deps(w, p) : /\ handles[q] \in Handles /\ handles[q].state \in 2 .. 4
                            /\ handles[q].local = w[q] /\ handles[q].key \in Keys
                            /\ KeyFor(handles[q].key, w, q) /\ handles[q].key # NoKey
  BY <1>2, <1>3, ReadyFields, HandlesAssumption
<1>5. imports \in DepKeyMaps /\ DepKeysFor(imports, w, p)
  <2>1. CASE h.state >= ValidImports
    <3>1. h.data \in Datas \union {NoData} /\ h.data # NoData
          /\ DepKeysFor(h.data.imports, w, p)
      BY <1>2, <1>3, <1>4, <2>1 DEF Ready, Sound, Current, Handles, HandlesWith
    <3>2. h.data.imports \in DepKeyMaps
      BY <3>1 DEF Datas
    <3> QED
      BY <2>1, <3>1, <3>2
  <2>2. CASE ~(h.state >= ValidImports)
    <3> DEFINE dk == [q \in Pkg |-> IF q \in ImportsIn(w, p) THEN handles[q].key ELSE NoKey]
    <3>1. dk \in DepKeyMaps /\ DepKeysFor(dk, w, p)
      BY <1>3, <1>4 DEF DepKeyMaps, DepKeysFor
    <3> QED
      BY <2>2, <3>1
  <2> QED
    BY <2>1, <2>2
<1>h. Ready(h, p, w) /\ h \in Handles /\ h.local = w[p] /\ w[p] \in Content
  BY <1>2, <1>3, <1>4 DEF World
<1>d. h.state >= ValidPackage =>
         /\ h.data \in Datas \union {NoData} /\ h.data # NoData
         /\ CheckedIn(h.data.pkg, w, p)
  <2> HIDE DEF h, w
  <2> QED
    BY <1>h DEF Ready, Sound, Current, Handles, HandlesWith, ValidImports, ValidPackage
<1>6. CheckedIn(pkg, w, p) /\ pkg \in Packages
  <2> HIDE DEF h, w, imports
  <2>1. CASE h.state = ValidPackage
    <3>1. h.data \in Datas /\ CheckedIn(h.data.pkg, w, p)
      BY <1>d, <2>1 DEF ValidPackage
    <3>2. h.data.pkg \in Packages
      BY <3>1 DEF Datas, CheckedIn
    <3> QED
      BY <2>1, <3>1, <3>2
  <2>2. CASE h.state # ValidPackage
    <3>1. pkg = [local |-> <<p, h.local>>, imports |-> imports]
      BY <2>2
    <3> HIDE DEF pkg
    <3>3. pkg \in Packages
      BY <1>h, <1>5, <3>1 DEF Packages
    <3>4. pkg # NoPkg
      BY <3>3, HandlesAssumption
    <3>5. pkg.local = LocalKey(w, p) /\ pkg.imports = imports
      BY <1>h, <3>1 DEF LocalKey
    <3> QED
      BY <1>5, <3>3, <3>4, <3>5 DEF CheckedIn
  <2> QED
    BY <2>1, <2>2
<1> HIDE DEF pkg
<1>7. /\ r \in Threads /\ r.pc = "post" /\ r.s = s /\ r.p = p /\ r.result = pkg
      /\ r.node = th[t].node /\ r.pend = th[t].pend /\ r.reach = th[t].reach
      /\ r.trans = th[t].trans /\ r.known = th[t].known /\ r.full = th[t].full
  BY <1>6 DEF Threads
<1> HIDE DEF r
<1>8. Stored' /\ Unborn'
  BY <1>1 DEF IInv, Stored, Unborn
<1>9. \A x \in Snapshot : Members(x)' = Members(x)
  BY <1>1, <1>7, MembersMove DEF Members, At
<1>10. Counted'
  BY <1>1, <1>9 DEF IInv, Counted
<1>11. th'[t] = r
  BY <1>1 DEF IInv, TypeOK
<1>12. Request(t)'
  <2>1. Request(t)
    BY DEF IInv, Requests
  <2>2. /\ th'[t].s = s /\ th'[t].node = th[t].node /\ th'[t].pend = th[t].pend
        /\ th'[t].pc = "post" /\ contents'[s] = w /\ cur' = cur /\ th'[t].p = p
        /\ CheckedIn(th'[t].result, w, p) /\ th[t].node[p] # NoHandle
        /\ th'[t].reach = th[t].reach /\ th'[t].trans = th[t].trans
        /\ th'[t].known = th[t].known /\ th'[t].full = th[t].full
    BY <1>1, <1>2, <1>3, <1>6, <1>7, <1>11
  <2>3. NodesFor(th'[t], w) /\ PendFor(th'[t], w) /\ TransFor(th'[t], w)
    BY <2>1, <2>2 DEF Request, NodesFor, PendFor, TransFor
  <2> QED
    BY <1>1, <2>1, <2>2, <2>3 DEF Request, At
<1> QED
  BY <1>1, <1>7, <1>8, <1>10, <1>12, ThreadStep DEF IInv, TypeOK

\* The handle that post2 stores has everything.
LEMMA PostHandle ==
  ASSUME IInv, NEW t \in Thread, Post(t)
  PROVE  LET p == th[t].p
             pkg == th[t].result
             ph == [th[t].node[p] EXCEPT !.state = ValidPackage,
                       !.data = [pkg |-> pkg, imports |-> pkg.imports]]
         IN  Ready(ph, p, contents[th[t].s]) /\ ph \in Handles /\ ph # NoHandle
<1> DEFINE s == th[t].s
           w == contents[s]
           p == th[t].p
           h == th[t].node[p]
           pkg == th[t].result
           ph == [h EXCEPT !.state = ValidPackage,
                           !.data = [pkg |-> pkg, imports |-> pkg.imports]]
<1>t. Types(t)
  BY Typed
<1> USE <1>t DEF Types
<1>1. At(t, "post")
  BY DEF Post
<1>2. /\ h # NoHandle /\ Ready(h, p, w) /\ CheckedIn(pkg, w, p) /\ pkg \in Packages
  BY <1>1 DEF IInv, Requests, Request, NodesFor, CheckedIn, Threads
<1>3. /\ h \in Handles /\ h.state \in 2 .. 4 /\ h.local = w[p]
      /\ KeyFor(h.key, w, p) /\ DepKeysFor(h.depKeys, w, p)
  BY <1>2, ReadyFields
<1>4. Ready(ph, p, w) /\ ph \in Handles /\ ph # NoHandle
  <2> DEFINE d == [pkg |-> pkg, imports |-> pkg.imports]
  <2>1. pkg.imports \in DepKeyMaps
    BY <1>2 DEF Packages
  <2>2. /\ d \in Datas /\ DataFor(d, w, p) /\ d # NoData /\ d.pkg # NoPkg
    <3>1. d \in Datas
      BY <1>2, <2>1 DEF Datas
    <3> QED
      BY <1>2, <3>1, HandlesAssumption DEF DataFor, CheckedIn
  <2>3. /\ ph = [h EXCEPT !.state = ValidPackage, !.data = d]
    OBVIOUS
  <2> HIDE DEF h, ph, d
  <2>a. h = [state |-> h.state, local |-> h.local, open |-> h.open,
             depKeys |-> h.depKeys, key |-> h.key, data |-> h.data]
    BY <1>3 DEF Handles, HandlesWith
  <2>b. ph = [state |-> 4, local |-> h.local, open |-> h.open,
              depKeys |-> h.depKeys, key |-> h.key, data |-> d]
    BY <2>3, <2>a DEF ValidPackage
  <2>c. h.local \in Content /\ h.open \in BOOLEAN /\ h.depKeys \in DepKeyMaps /\ h.key \in Keys
    BY <1>3 DEF Handles, HandlesWith
  <2>4. /\ ph \in Handles /\ ph.state = 4 /\ ph.local = w[p] /\ ph.key = h.key
        /\ ph.depKeys = h.depKeys /\ ph.data = d
    BY <2>2, <2>b, <2>c, <1>3 DEF Handles, HandlesWith
  <2>6. Ready(ph, p, w)
    BY <1>3, <2>2, <2>4, ReadyIntro DEF ValidKey
  <2> QED
    BY <2>4, <2>6, HandlesAssumption DEF Handles, Pending, HandlesWith
<1> QED
  BY <1>4

LEMMA PostIInv ==
  ASSUME IInv, NEW t \in Thread, Post(t)
  PROVE  IInv'
<1> DEFINE s == th[t].s
           w == contents[s]
           p == th[t].p
           h == th[t].node[p]
           pkg == th[t].result
           ph == [h EXCEPT !.state = ValidPackage,
                           !.data = [pkg |-> pkg, imports |-> pkg.imports]]
           r == [th[t] EXCEPT !.pc = "done", !.node = NoHandles]
<1>t. Types(t)
  BY Typed
<1> USE <1>t DEF Types
<1>1. /\ th' = [th EXCEPT ![t] = r] /\ UNCHANGED <<cur, contents, open>> /\ At(t, "post")
      /\ packages' = packages \/ packages' = [packages EXCEPT ![s][p] = ph]
      /\ Leave(s) /\ t \in Members(s)
  BY DEF Post, Members, At
<1>2. CheckedIn(pkg, w, p)
  BY <1>1 DEF IInv, Requests, Request
<1>4. Ready(ph, p, w) /\ ph \in Handles /\ ph # NoHandle
  BY PostHandle
<1> HIDE DEF ph
<1>5. /\ r \in Threads /\ r.pc = "done" /\ r.s = s /\ r.p = p /\ r.node = NoHandles
      /\ r.pend = th[t].pend /\ r.result = pkg /\ r.reach = th[t].reach
      /\ r.trans = th[t].trans /\ r.known = th[t].known /\ r.full = th[t].full
  BY DEF Threads
<1> HIDE DEF r
<1>6. /\ packages' \in [Snapshot -> HandleMaps]
      /\ \A x \in Snapshot, q \in Pkg :
            packages'[x][q] = packages[x][q] \/ (x = s /\ q = p /\ packages'[x][q] = ph)
      /\ \A x \in Snapshot : x # s => packages'[x] = packages[x]
  <2>1. packages \in [Snapshot -> HandleMaps]
    BY DEF IInv, TypeOK
  <2>2. CASE packages' = packages
    BY <2>1, <2>2
  <2>3. CASE packages' = [packages EXCEPT ![s][p] = ph]
    BY <1>4, <2>1, <2>3 DEF HandleMaps
  <2> QED
    BY <1>1, <2>2, <2>3
<1>7. /\ batch' \in [Snapshot -> Batches]
      /\ \A x \in Snapshot, q \in Pkg : batch'[x].handles[q] # NoHandle =>
            batch'[x].handles[q] = batch[x].handles[q]
      /\ \A x \in Snapshot : x # s => batch'[x] = batch[x]
      /\ \A y \in Thread \ {t} : \A x \in Snapshot :
            y \in Members(x) => batch'[x].handles = batch[x].handles
  BY <1>1, LeaveBatch
<1>8. Stored'
  BY <1>1, <1>4, <1>6, <1>7 DEF IInv, Stored, Ready
<1>9. Unborn'
  BY <1>1, <1>6, <1>7 DEF IInv, Unborn, Snapshot
<1>10. Counted'
  BY <1>1, <1>5, LeaveCounted
<1>11. th'[t] = r
  BY <1>1 DEF IInv, TypeOK
<1>12. Request(t)'
  <2>1. Request(t)
    BY DEF IInv, Requests
  <2>2. /\ th'[t].s = s /\ th'[t].node = NoHandles /\ th'[t].pend = th[t].pend
        /\ th'[t].pc = "done" /\ contents'[s] = w /\ cur' = cur /\ th'[t].p = p
        /\ CheckedIn(th'[t].result, w, p)
        /\ th'[t].reach = th[t].reach /\ th'[t].trans = th[t].trans
        /\ th'[t].known = th[t].known /\ th'[t].full = th[t].full
    BY <1>1, <1>2, <1>5, <1>11
  <2>3. th[t].pend = NoHandles
    BY <1>1, <2>1 DEF Request
  <2>4. NodesFor(th'[t], w) /\ PendFor(th'[t], w) /\ TransFor(th'[t], w)
    BY <2>1, <2>2, <2>3 DEF Request, NodesFor, PendFor, TransFor, NoHandles
  <2> QED
    BY <2>1, <2>2, <2>3, <2>4 DEF Request, At
<1>13. \A x \in Thread \ {t} : At(x, "check") => batch'[th[x].s].handles = batch[th[x].s].handles
  <2>1. \A x \in Thread : At(x, "check") => x \in Members(th[x].s) /\ th[x].s \in Snapshot
    BY Typed DEF Members, At
  <2> QED
    BY <2>1, <1>7
<1> QED
  BY <1>1, <1>5, <1>6, <1>7, <1>8, <1>9, <1>10, <1>12, <1>13, ThreadStep

\* A handle sound in a world is sound in another with the same imports, if its state
\* says only what is true there.
LEMMA SoundMoves ==
  ASSUME NEW w \in World, NEW v \in World, NEW p \in Pkg, NEW h, Sound(h, p, w),
         NEW g \in Handles, g.local = h.local, g.key = h.key, g.depKeys = h.depKeys,
         g.data = h.data, ImportsIn(v, p) = ImportsIn(w, p), Current(g, v, p)
  PROVE  Sound(g, p, v)
<1>1. /\ \E u \in World : /\ u[p] = g.local /\ KeyFor(g.key, u, p)
                           /\ DepKeysFor(g.depKeys, u, p)
                           /\ g.data # NoData => DataFor(g.data, u, p)
      /\ Imports[p][g.local] = ImportsIn(v, p)
  BY DEF Sound
<1> QED
  BY <1>1 DEF Sound

\* What clone keeps is sound in the new world: nothing that can reach a package whose
\* imports have changed, only what does not depend on the others of its imports where
\* their files have changed, and everything where they have not.
LEMMA ClonedSound ==
  ASSUME NEW w \in World, NEW v \in World, NEW touched \in SUBSET Pkg,
         \A q \in Pkg \ touched : v[q] = w[q],
         cur \in Snapshot, contents[cur] = w, packages[cur] \in HandleMaps,
         \A q \in Pkg : packages[cur][q] # NoHandle => Sound(packages[cur][q], q, w),
         NEW inv, inv = {q \in touched : ImportsIn(v, q) # ImportsIn(w, q)},
         NEW p \in Pkg, Cloned(touched, inv)[p] # NoHandle
  PROVE  Sound(Cloned(touched, inv)[p], p, v)
<1> DEFINE h == packages[cur][p]
           g == Cloned(touched, inv)[p]
<1>p. w \in Partial /\ v \in Partial
  BY WorldPartial
<1>1. h # NoHandle /\ p \notin RevDeps(w, inv) /\ Sound(h, p, w)
  BY DEF Cloned
<1>2. g = IF p \in touched THEN [h EXCEPT !.state = ValidMetadata]
          ELSE IF p \in RevDeps(w, touched) /\ h.state > ValidLocalData
               THEN [h EXCEPT !.state = ValidLocalData] ELSE h
  BY <1>1 DEF Cloned
<1>3. p \in Deps(w, p)
  BY <1>p, DepsLeast
<1>4. ImportsIn(v, p) = ImportsIn(w, p)
  <2>1. p \notin inv
    BY <1>1, <1>3 DEF RevDeps
  <2>2. p \notin touched => v[p] = w[p]
    OBVIOUS
  <2> QED
    BY <2>1, <2>2 DEF ImportsIn
<1>h. /\ h \in Handles /\ h.state \in 0 .. 4
      /\ h = [state |-> h.state, local |-> h.local, open |-> h.open,
              depKeys |-> h.depKeys, key |-> h.key, data |-> h.data]
  BY <1>1 DEF Sound, Handles, HandlesWith
<1> HIDE DEF g, h
<1>5. CASE p \in touched
  <2>1. g = [h EXCEPT !.state = 0]
    BY <1>2, <1>5 DEF ValidMetadata
  <2>2. /\ g \in Handles /\ g.state = 0 /\ g.local = h.local /\ g.key = h.key
        /\ g.depKeys = h.depKeys /\ g.data = h.data
    BY <2>1, <1>h DEF Handles, HandlesWith
  <2>3. Current(g, v, p)
    BY <2>2 DEF Current, ValidLocalData, ValidKey, ValidImports, ValidPackage
  <2> QED
    BY <1>1, <1>4, <2>2, <2>3, SoundMoves DEF g
<1>6. CASE p \notin touched /\ p \in RevDeps(w, touched) /\ h.state > ValidLocalData
  <2>1. g = [h EXCEPT !.state = 1]
    BY <1>2, <1>6 DEF ValidLocalData
  <2>2. /\ g \in Handles /\ g.state = 1 /\ g.local = h.local /\ g.key = h.key
        /\ g.depKeys = h.depKeys /\ g.data = h.data
    BY <2>1, <1>h DEF Handles, HandlesWith
  <2>3. h.local = v[p]
    BY <1>1, <1>6, <1>h DEF Sound, Current, ValidLocalData
  <2>4. Current(g, v, p)
    BY <2>2, <2>3 DEF Current, ValidLocalData, ValidKey, ValidImports, ValidPackage
  <2> QED
    BY <1>1, <1>4, <2>2, <2>4, SoundMoves DEF g
<1>7. CASE p \notin touched /\ p \in RevDeps(w, touched) /\ ~(h.state > ValidLocalData)
  <2>1. g = h
    BY <1>2, <1>7
  <2>2. h.state \in {0, 1} /\ v[p] = w[p]
    BY <1>7, <1>h DEF ValidLocalData
  <2>3. Current(h, v, p)
    BY <1>1, <2>2 DEF Sound, Current, ValidLocalData, ValidKey, ValidImports, ValidPackage
  <2> QED
    BY <1>1, <1>4, <1>h, <2>1, <2>3, SoundMoves DEF g
<1>8. CASE p \notin RevDeps(w, touched)
  <2>1. p \notin touched
    BY <1>3, <1>8 DEF RevDeps
  <2>2. g = h
    BY <1>2, <1>8, <2>1
  <2>3. Agree(v, w, Deps(w, p))
    BY <1>8 DEF RevDeps, Agree, Deps
  <2>4. /\ \A k : KeyFor(k, w, p) => KeyFor(k, v, p)
        /\ \A dk : DepKeysFor(dk, w, p) => DepKeysFor(dk, v, p)
        /\ v[p] = w[p]
    BY <1>p, <2>3, <1>3, KeyLocal DEF Agree
  <2>5. \A c : CheckedIn(c, w, p) => CheckedIn(c, v, p)
    BY <2>4 DEF CheckedIn, LocalKey
  <2>6. Current(h, v, p)
    BY <1>1, <2>4, <2>5 DEF Sound, Current
  <2> QED
    BY <1>1, <1>4, <1>h, <2>2, <2>6, SoundMoves DEF g
<1> QED
  BY <1>5, <1>6, <1>7, <1>8

LEMMA ClonedTyped ==
  ASSUME packages[cur] \in HandleMaps, NEW touched, NEW inv
  PROVE  Cloned(touched, inv) \in HandleMaps
<1> SUFFICES ASSUME NEW p \in Pkg
             PROVE  Cloned(touched, inv)[p] \in Handles \union {NoHandle}
  BY DEF HandleMaps, Cloned
<1> DEFINE h == packages[cur][p]
<1>1. h \in Handles \union {NoHandle}
  BY DEF HandleMaps
<1>2. \A n \in 0 .. 4 : h # NoHandle => [h EXCEPT !.state = n] \in Handles
  BY <1>1 DEF Handles, HandlesWith
<1>3. ValidMetadata \in 0 .. 4 /\ ValidLocalData \in 0 .. 4
  BY DEF ValidMetadata, ValidLocalData
<1>4. Cloned(touched, inv)[p] \in {NoHandle, h, [h EXCEPT !.state = ValidMetadata],
                                   [h EXCEPT !.state = ValidLocalData]}
      /\ (h = NoHandle => Cloned(touched, inv)[p] = NoHandle)
  BY DEF Cloned
<1> HIDE DEF h
<1> QED
  BY <1>1, <1>2, <1>3, <1>4

LEMMA EditIInv == ASSUME IInv, Edit PROVE IInv'
<1>1. PICK touched \in SUBSET Pkg, v \in World, o \in SUBSET Openable : Clone(touched, v, o)
  BY HandlesAssumption DEF Edit, World
<1> DEFINE w == contents[cur]
           inv == {p \in touched : ImportsIn(v, p) # ImportsIn(w, p)}
           new == Cloned(touched, inv)
           old == IF Users(cur) = {} THEN NoHandles ELSE packages[cur]
<1>2. /\ cur \in Snapshot /\ cur \in Nat /\ w \in World /\ MaxEdits \in Nat
      /\ packages \in [Snapshot -> HandleMaps] /\ contents \in [Snapshot -> World]
      /\ open \in [Snapshot -> SUBSET Pkg] /\ batch \in [Snapshot -> Batches]
      /\ packages[cur] \in HandleMaps /\ NoHandles \in HandleMaps
  BY HandlesAssumption DEF IInv, TypeOK, Snapshot, NoHandles, HandleMaps
<1>3. /\ cur < MaxEdits /\ cur' = cur + 1 /\ UNCHANGED <<batch, th>>
      /\ contents' = [contents EXCEPT ![cur + 1] = v]
      /\ open' = [open EXCEPT ![cur + 1] = o]
      /\ \A p \in Pkg \ touched : v[p] = w[p]
  BY <1>1 DEF Clone
<1>4. packages' = [packages EXCEPT ![cur] = old, ![cur + 1] = new]
  BY <1>1 DEF Clone
<1>5. cur + 1 \in Snapshot /\ cur + 1 # cur
  BY <1>2, <1>3 DEF Snapshot
<1>6. new \in HandleMaps /\ old \in HandleMaps
  BY <1>2, ClonedTyped
<1>7. \A p \in Pkg : new[p] # NoHandle => Sound(new[p], p, v)
  BY <1>2, <1>3, ClonedSound DEF IInv, Stored
<1> HIDE DEF new
<1>8. /\ contents'[cur + 1] = v
      /\ \A s \in Snapshot : s <= cur => contents'[s] = contents[s] /\ packages'[s] \in {packages[s], NoHandles}
      /\ \A s \in Snapshot : s > cur + 1 => packages'[s] = packages[s]
      /\ packages'[cur + 1] = new
  BY <1>2, <1>3, <1>4, <1>5 DEF Snapshot
<1>9. TypeOK'
  <2>1. o \in SUBSET Pkg
    BY HandlesAssumption
  <2> QED
    BY <1>2, <1>3, <1>4, <1>5, <1>6, <2>1 DEF IInv, TypeOK
<1>10. Stored'
  <2> SUFFICES ASSUME NEW s \in Snapshot, s <= cur + 1, NEW p \in Pkg
               PROVE  /\ packages'[s][p] # NoHandle =>
                            Sound(packages'[s][p], p, contents'[s])
                      /\ batch[s].handles[p] # NoHandle =>
                            Ready(batch[s].handles[p], p, contents'[s])
    BY <1>3 DEF Stored
  <2>1. CASE s = cur + 1
    <3>1. batch[s] = NoBatch
      BY <1>2, <2>1 DEF IInv, Unborn
    <3> QED
      BY <1>7, <1>8, <2>1, <3>1 DEF NoBatch, NoHandles
  <2>2. CASE s <= cur
    BY <1>8, <2>2 DEF IInv, Stored, NoHandles
  <2> QED
    BY <1>2, <2>1, <2>2 DEF Snapshot
<1>11. Unborn'
  BY <1>2, <1>3, <1>8 DEF IInv, Unborn, Snapshot
<1>12. Counted'
  BY <1>3 DEF IInv, Counted, Members, At
<1>13. Requests'
  <2> SUFFICES ASSUME NEW t \in Thread PROVE Request(t)'
    BY DEF Requests
  <2>1. Request(t) /\ th[t].s \in Snapshot /\ th[t].s \in Nat /\ th[t].s <= cur
    BY Typed DEF IInv, Requests, Types
  <2>2. contents'[th[t].s] = contents[th[t].s] /\ th'[t] = th[t] /\ batch' = batch
    BY <1>3, <1>8, <2>1
  <2> QED
    BY <1>2, <1>3, <2>1, <2>2, RequestFrame
<1> QED
  BY <1>9, <1>10, <1>11, <1>12, <1>13 DEF IInv

LEMMA NextIInv == IInv /\ [Next]_vars => IInv'
<1> SUFFICES ASSUME IInv, [Next]_vars PROVE IInv'
  OBVIOUS
<1>1. CASE UNCHANGED vars
  BY <1>1 DEF vars, IInv, TypeOK, Stored, Unborn, Requests, Request, At, Needed, Counted, Members
<1>2. CASE Next
  BY <1>2, EditIInv, ForEachPackageIInv, EvaluateIInv, GetTransitiveRefsIInv, StoreIInv, CancelIInv, AddHandlesIInv,
     HandleSyntaxIInv, PostIInv, ReturnIInv DEF Next
<1> QED
  BY <1>1, <1>2

THEOREM Invariance == Spec => []IInv
<1>1. Init => IInv
  BY InitIInv
<1>2. IInv /\ [Next]_vars => IInv'
  BY NextIInv
<1> QED
  BY <1>1, <1>2, PTL DEF Spec

-----------------------------------------------------------------------------
\* Type correctness of the handles, the batches and the requests (packageHandle,
\* typeCheckBatch and handleNode of check.go).
THEOREM TypeCorrect == Spec => []TypeOK
<1>1. IInv => TypeOK
  BY DEF IInv
<1> QED
  BY <1>1, Invariance, PTL

\* After any edits every handle is valid for the files of its snapshot as far as its
\* state says, however much was kept or pruned (evaluatePackageHandle, clone).
THEOREM HandlesAreCurrent == Spec => []HandlesCurrent
<1>1. IInv => HandlesCurrent
  <2> SUFFICES ASSUME IInv PROVE HandlesCurrent
    OBVIOUS
  <2>1. Stored /\ \A t \in Thread : Request(t)
    BY DEF IInv, Requests
  <2> QED
    BY <2>1 DEF HandlesCurrent, Stored, Request, NodesFor, Ready, Sound
<1> QED
  BY <1>1, Invariance, PTL

\* A request returns its package as its own snapshot has it, checked with its imports
\* (getPackage, handleSyntaxPackage).
THEOREM ResultsAreCurrent == Spec => []ResultsCurrent
<1>1. IInv => ResultsCurrent
  BY DEF IInv, Requests, Request, ResultsCurrent
<1> QED
  BY <1>1, Invariance, PTL

\* A batch counts its requests and is not discarded under one of them
\* (acquireTypeChecking and the release it returns).
THEOREM BatchServes == Spec => []BatchServesRequests
<1>1. IInv => BatchServesRequests
  BY DEF IInv, Counted, Members, Requests, Request, BatchServesRequests
<1> QED
  BY <1>1, Invariance, PTL

\* The requests of a snapshot in use never make one of its handles worse (the stores
\* of evaluatePackageHandle and of post2).
THEOREM HandlesOnlyImprove == Spec => HandlesImprove
<1> DEFINE Improves == \A s \in Snapshot, p \in Pkg :
             (s = cur \/ Users(s) # {})' /\ packages[s][p] # NoHandle =>
                /\ packages'[s][p] # NoHandle
                /\ packages'[s][p].state >= packages[s][p].state
<1>1. IInv /\ IInv' /\ [Next]_vars => [Improves]_vars
  <2> SUFFICES ASSUME IInv, IInv', Next, NEW s \in Snapshot, NEW p \in Pkg,
                      (s = cur \/ Users(s) # {})', packages[s][p] # NoHandle
               PROVE  /\ packages'[s][p] # NoHandle
                      /\ packages'[s][p].state >= packages[s][p].state
    BY DEF vars
  <2>1. packages[s][p] \in Handles /\ packages[s][p].state \in 0 .. 4
    BY DEF IInv, TypeOK, HandleMaps, Handles, HandlesWith
  <2>2. /\ packages \in [Snapshot -> HandleMaps] /\ cur \in Nat /\ cur \in Snapshot
        /\ packages'[s] \in HandleMaps /\ th \in [Thread -> Threads]
    BY HandlesAssumption DEF IInv, TypeOK, Snapshot
  <2>3. ASSUME Edit PROVE packages'[s] = packages[s]
    <3>1. PICK touched \in SUBSET Pkg, v \in Worlds, o \in SUBSET Openable :
             Clone(touched, v, o)
      BY <2>3 DEF Edit
    <3>2. /\ cur' = cur + 1 /\ th' = th
          /\ \E new : packages' = [packages EXCEPT
                ![cur] = IF Users(cur) = {} THEN NoHandles ELSE packages[cur],
                ![cur + 1] = new]
      BY <3>1 DEF Clone
    <3>3. s # cur + 1
      BY <2>2 DEF IInv, Unborn, NoHandles
    <3>4. s = cur => Users(cur) # {}
      BY <2>2, <3>2 DEF Users, At
    <3> QED
      BY <2>2, <3>2, <3>3, <3>4
  <2>4. ASSUME NEW t \in Thread, End(t), cur' = cur PROVE packages'[s] = packages[s]
    <3>1. th'[t].pc = "idle" /\ \A x \in Thread \ {t} : th'[x] = th[x]
      BY <2>2, <2>4 DEF End, Idle
    <3>2. s # cur => Users(s) # {t}
      BY <2>4, <3>1 DEF Users, At
    <3> QED
      BY <2>2, <2>4, <3>2 DEF End
  <2>5. ASSUME NEW t \in Thread, NEW q \in Pkg, StoreHandle(t, q)
        PROVE  /\ packages'[s][p] # NoHandle
               /\ packages'[s][p].state >= packages[s][p].state
    <3> DEFINE run == th[t].reach[q]
               e == th[t].pend[q]
               h == IF run = NoReach THEN e
                    ELSE Revalidated(e, KeyOf(th[t].node, e, q, run.seen), run.depsChanged)
               alt == packages[th[t].s][q]
               ph == IF Better(h, alt) THEN h ELSE alt
    <3>1. packages' = [packages EXCEPT ![th[t].s][q] = ph]
      BY <2>5 DEF StoreHandle
    <3>2. th[t].s \in Snapshot
      BY Typed DEF Types
    <3>3. h \in Handles /\ h.state \in 0 .. 4 /\ h # NoHandle
      <4>1. Ready(h, q, contents[th[t].s])
        BY <2>5, StoredReady
      <4> HIDE DEF h
      <4>2. h \in Handles
        BY <4>1 DEF Ready, Sound
      <4> QED
        BY <4>2, HandlesAssumption DEF Handles, Pending, HandlesWith
    <3> HIDE DEF h
    <3> HIDE DEF ph
    <3>4. packages'[s][p] = IF s = th[t].s /\ p = q THEN ph ELSE packages[s][p]
      BY <2>2, <3>1, <3>2 DEF HandleMaps
    <3> QED
      BY <2>1, <3>1, <3>3, <3>4 DEF ph, Better
  <2>6. ASSUME NEW t \in Thread, Post(t)
        PROVE  /\ packages'[s][p] # NoHandle
               /\ packages'[s][p].state >= packages[s][p].state
    <3> DEFINE q == th[t].p
               h == th[t].node[q]
               ph == [h EXCEPT !.state = ValidPackage,
                               !.data = [pkg |-> th[t].result,
                                         imports |-> th[t].result.imports]]
    <3>1. \/ packages' = packages
          \/ /\ packages' = [packages EXCEPT ![th[t].s][q] = ph]
             /\ Better(ph, packages[th[t].s][q])
      BY <2>6 DEF Post
    <3>2. th[t].s \in Snapshot /\ q \in Pkg /\ th[t].node \in HandleMaps
      BY Typed DEF Types
    <3>3. h # NoHandle /\ h \in Handles
      BY <2>6, <3>2 DEF Post, IInv, Requests, Request, HandleMaps
    <3>4. ph.state = 4
      BY <3>3 DEF Handles, HandlesWith, ValidPackage
    <3> HIDE DEF ph
    <3>5. CASE packages' = packages
      BY <2>1, <3>5
    <3>6. CASE packages' = [packages EXCEPT ![th[t].s][q] = ph]
      <4>1. packages'[s][p] = IF s = th[t].s /\ p = q THEN ph ELSE packages[s][p]
        BY <2>2, <3>2, <3>6 DEF HandleMaps
      <4>2. packages'[s][p] \in Handles \union {NoHandle}
        BY <2>2 DEF HandleMaps
      <4>3. ph # NoHandle
        <5>1. Post(t) /\ IInv
          BY <2>6
        <5> QED
          BY <2>6, PostHandle DEF ph
      <4> QED
        BY <2>1, <3>4, <4>1, <4>3
    <3> QED
      BY <3>1, <3>5, <3>6
  <2>7. CASE packages'[s] = packages[s]
    BY <2>1, <2>7
  <2>8. ASSUME NEW t \in Thread,
               \/ \E q \in Queried : ForEachPackage(t, q)
               \/ \E q \in Pkg : EvaluatePackageHandle(t, q)
               \/ \E q, x \in Pkg : GetTransitiveRefs(t, q, x)
               \/ AddHandles(t) \/ HandleSyntaxPackage(t)
        PROVE  packages'[s] = packages[s]
    BY <2>8 DEF ForEachPackage, EvaluatePackageHandle, GetTransitiveRefs, AddHandles,
                HandleSyntaxPackage
  <2>9. ASSUME NEW t \in Thread, Cancel(t) \/ Return(t) PROVE packages'[s] = packages[s]
    BY <2>4, <2>9 DEF Cancel, Return
  <2> QED
    BY <2>3, <2>5, <2>6, <2>7, <2>8, <2>9 DEF Next
<1> QED
  BY <1>1, Invariance, PTL DEF Spec, HandlesImprove
=============================================================================
