---------------------------- MODULE SessionProofs ----------------------------
(***************************************************************************)
(* Proofs about Session for every set of threads, views, snapshots, files, *)
(* folders and definitions.  The inductive invariant IInv adds to the      *)
(* properties what each thread holds at each point of its call (Local) and *)
(* how views and their snapshots belong together (Registry).               *)
(***************************************************************************)
EXTENDS Session, FiniteSetTheorems, TLAPS

EditOps == {"modify", "remove", "reset", "invalidate"}

\* Where a call may be, by its kind.
Control(t) ==
    /\ th[t].op = "none" => At(t, "idle")
    /\ th[t].op = "of" => th[t].pc \in {"snap", "forget", "views", "search", "last",
                                        "await", "init", "load", "match"}
    /\ th[t].op = "request" => th[t].pc \in {"collect", "using", "await", "init", "load"}
    /\ th[t].op = "modify" => th[t].pc \in {"create", "retire", "assoc", "inval", "await",
                                            "init", "load", "swap", "drop"}
    /\ th[t].op = "invalidate" => th[t].pc \in {"await", "init", "load", "swap"}
    /\ th[t].op \in {"remove", "reset"} => th[t].pc \in {"create", "retire"}
    /\ th[t].op = "shutdown" => th[t].pc \in {"stop", "drain", "closed"}

\* The snapshots a call must release.
Holds(t) ==
    /\ th[t].op \in {"none", "remove", "reset", "invalidate", "shutdown"} => th[t].held = {}
    /\ th[t].op = "of" =>
          IF th[t].pc \in {"await", "init", "load", "match"}
          THEN th[t].s \in Snap /\ th[t].held = {th[t].s} ELSE th[t].held = {}
    /\ th[t].op = "modify" =>
          IF At(t, "drop") THEN \E s \in Snap : th[t].held = {s} ELSE th[t].held = {}
    /\ At(t, "collect") => \A s \in th[t].held : snap[s].of \notin th[t].todo

\* A call that edits views holds viewMu, and the session is not shut down.
Locks(t) == /\ th[t].op \in EditOps => viewMu = t /\ ~down
            /\ th[t].op = "shutdown" => down
            /\ At(t, "closed") => \A s \in Snap : snap[s].refs = 0

\* The views it keeps and those it is about to visit.
Visits(t) ==
    /\ At(t, "snap") => th[t].v \in View
    /\ \A v \in th[t].keep : view[v].def \in Def
    /\ th[t].pc \in {"create", "retire"} =>
          \A v \in th[t].keep : view[v].cur # NoSnap /\ v \notin th[t].todo
    /\ th[t].op = "modify" /\ th[t].pc \notin {"create", "retire", "assoc"} =>
          th[t].todo \subseteq views
    /\ Editing(t) /\ th[t].pc \in {"await", "init", "load", "swap"} =>
          th[t].v \in View /\ th[t].s = view[th[t].v].cur /\ th[t].s # NoSnap

Local(t) == Control(t) /\ Holds(t) /\ Locks(t) /\ Visits(t)

Replacing == \E t \in Thread : th[t].pc \in {"create", "retire"}

Registry ==
    /\ \A v \in View : /\ view[v].cur # NoSnap => snap[view[v].cur].of = v
                       /\ view[v].lsnap # NoSnap => snap[view[v].lsnap].of = v
                       /\ view[v].lpc = "none" <=> view[v].lsnap = NoSnap
    /\ \A v \in views : view[v].def \in Def
    /\ \A u \in URI : viewMap[u] \in View => view[viewMap[u]].def \in Def
    /\ ~Replacing => \A v \in views : view[v].cur # NoSnap
    /\ down => views = {}

IInv == /\ TypeOK /\ Registry /\ RefsExact /\ WaitGroupExact
        /\ \A t \in Thread : Local(t)

-----------------------------------------------------------------------------
LEMMA InitIInv == Init => IInv
<1> SUFFICES ASSUME Init PROVE IInv
  OBVIOUS
<1> USE SessionAssumption DEF Init, Idle, NewView0, NewSnap0
<1>1. TypeOK
  BY DEF TypeOK, Views, Snaps, Threads, PCs, Ops
<1>2. Registry
  BY DEF Registry, Replacing
<1>3. RefsExact
  <2>1. \A s \in Snap : Users(s) = {} /\ ViewRef(s) = 0 /\ LoaderRef(s) = 0
    BY DEF Users, ViewRef, LoaderRef
  <2>2. \A s \in Snap : Cardinality(Users(s)) = 0
    BY <2>1, FS_EmptySet, Zenon
  <2> QED
    BY <2>1, <2>2 DEF RefsExact
<1>4. WaitGroupExact
  <2>1. {s \in Snap : snap[s].refs > 0} = {}
    OBVIOUS
  <2> QED
    BY <2>1, FS_EmptySet DEF WaitGroupExact
<1>5. \A t \in Thread : Local(t)
  BY DEF Local, Control, Holds, Locks, Visits, Editing, EditOps, At
<1> QED
  BY <1>1, <1>2, <1>3, <1>4, <1>5 DEF IInv

-----------------------------------------------------------------------------
(* Reference counts and snapshotWG. *)

\* Whatever has a reference keeps the snapshot alive.
LEMMA ReferencedAlive ==
  ASSUME TypeOK, RefsExact, NEW s \in Snap
  PROVE  /\ \A t \in Thread : s \in th[t].held => snap[s].refs > 0
         /\ \A v \in View : view[v].cur = s => snap[s].refs > 0
         /\ \A v \in View : view[v].lsnap = s => snap[s].refs > 0
<1>1. IsFiniteSet(Users(s))
  BY SessionAssumption, FS_Subset DEF Users
<1>2. Cardinality(Users(s)) \in Nat
  BY <1>1, FS_CardinalityType
<1>3. ViewRef(s) \in {0, 1} /\ LoaderRef(s) \in {0, 1}
  BY DEF ViewRef, LoaderRef
<1>4. snap[s].refs = Cardinality(Users(s)) + ViewRef(s) + LoaderRef(s)
  BY DEF RefsExact
<1>5. ASSUME NEW t \in Thread, s \in th[t].held PROVE snap[s].refs > 0
  <2>1. Cardinality(Users(s)) # 0
    BY <1>1, <1>5, FS_EmptySet DEF Users
  <2> QED
    BY <2>1, <1>2, <1>3, <1>4
<1>6. ASSUME NEW v \in View, view[v].cur = s PROVE snap[s].refs > 0
  <2>1. ViewRef(s) = 1
    BY <1>6 DEF ViewRef
  <2> QED
    BY <2>1, <1>2, <1>3, <1>4
<1>7. ASSUME NEW v \in View, view[v].lsnap = s PROVE snap[s].refs > 0
  <2>1. LoaderRef(s) = 1
    BY <1>7 DEF LoaderRef
  <2> QED
    BY <2>1, <1>2, <1>3, <1>4
<1> QED
  BY <1>5, <1>6, <1>7

\* The users of a snapshot when one thread changes what it holds.
LEMMA UsersChange ==
  ASSUME NEW s \in Snap, NEW t \in Thread,
         \A x \in Thread \ {t} : th'[x].held = th[x].held
  PROVE  /\ s \in th'[t].held /\ s \notin th[t].held
               => Cardinality(Users(s)') = Cardinality(Users(s)) + 1
         /\ s \notin th'[t].held /\ s \in th[t].held
               => Cardinality(Users(s)') = Cardinality(Users(s)) - 1
         /\ (s \in th'[t].held <=> s \in th[t].held)
               => Cardinality(Users(s)') = Cardinality(Users(s))
         /\ Cardinality(Users(s)) \in Nat
<1>1. IsFiniteSet(Users(s)) /\ Cardinality(Users(s)) \in Nat
  BY SessionAssumption, FS_Subset, FS_CardinalityType DEF Users
<1>2. ASSUME s \in th'[t].held, s \notin th[t].held
      PROVE  Cardinality(Users(s)') = Cardinality(Users(s)) + 1
  <2>1. Users(s)' = Users(s) \union {t} /\ t \notin Users(s)
    BY <1>2 DEF Users
  <2> QED
    BY <2>1, <1>1, FS_AddElement
<1>3. ASSUME s \notin th'[t].held, s \in th[t].held
      PROVE  Cardinality(Users(s)') = Cardinality(Users(s)) - 1
  <2>1. Users(s)' = Users(s) \ {t} /\ t \in Users(s)
    BY <1>3 DEF Users
  <2> QED
    BY <2>1, <1>1, FS_RemoveElement
<1>4. ASSUME s \in th'[t].held <=> s \in th[t].held
      PROVE  Cardinality(Users(s)') = Cardinality(Users(s))
  <2>1. Users(s)' = Users(s)
    BY <1>4 DEF Users
  <2> QED
    BY <2>1
<1> QED
  BY <1>1, <1>2, <1>3, <1>4

SameRefs == /\ \A s \in Snap : snap'[s].refs = snap[s].refs /\ snap'[s].of = snap[s].of
            /\ wg' = wg
SameSnaps == \A v \in View : view'[v].cur = view[v].cur /\ view'[v].lsnap = view[v].lsnap

LEMMA SameWaitGroup ==
  ASSUME WaitGroupExact, SameRefs
  PROVE  WaitGroupExact'
<1>1. {s \in Snap : snap[s].refs > 0}' = {s \in Snap : snap[s].refs > 0}
  BY DEF SameRefs
<1> QED
  BY <1>1 DEF WaitGroupExact, SameRefs

\* One thread takes and returns references; views and loaders keep theirs.
LEMMA ThreadRefs ==
  ASSUME TypeOK, RefsExact, SameSnaps, NEW t \in Thread,
         \A x \in Thread \ {t} : th'[x].held = th[x].held,
         \A s \in Snap :
            /\ s \in th'[t].held /\ s \notin th[t].held => snap'[s].refs = snap[s].refs + 1
            /\ s \notin th'[t].held /\ s \in th[t].held => snap'[s].refs = snap[s].refs - 1
            /\ (s \in th'[t].held <=> s \in th[t].held) => snap'[s].refs = snap[s].refs
  PROVE  RefsExact'
<1> SUFFICES ASSUME NEW s \in Snap
             PROVE  snap'[s].refs = Cardinality(Users(s)') + ViewRef(s)' + LoaderRef(s)'
  BY DEF RefsExact
<1>1. ViewRef(s)' = ViewRef(s) /\ LoaderRef(s)' = LoaderRef(s)
  BY DEF ViewRef, LoaderRef, SameSnaps
<1>2. ViewRef(s) \in Nat /\ LoaderRef(s) \in Nat
  BY DEF ViewRef, LoaderRef
<1>3. snap[s].refs = Cardinality(Users(s)) + ViewRef(s) + LoaderRef(s)
  BY DEF RefsExact
<1> QED
  BY <1>1, <1>2, <1>3, UsersChange

\* Nobody takes or returns a reference.
LEMMA SameHolders ==
  ASSUME RefsExact, SameRefs, SameSnaps, \A x \in Thread : th'[x].held = th[x].held
  PROVE  RefsExact'
<1> SUFFICES ASSUME NEW s \in Snap
             PROVE  snap'[s].refs = Cardinality(Users(s)') + ViewRef(s)' + LoaderRef(s)'
  BY DEF RefsExact
<1>1. ViewRef(s)' = ViewRef(s) /\ LoaderRef(s)' = LoaderRef(s)
  BY DEF ViewRef, LoaderRef, SameSnaps
<1>2. Users(s)' = Users(s)
  BY DEF Users
<1> QED
  BY <1>1, <1>2 DEF RefsExact, SameRefs

LEMMA AcquireEffect ==
  ASSUME TypeOK, WaitGroupExact, NEW s \in Snap, snap[s].refs > 0, Acquire(s), wg' = wg
  PROVE  /\ snap' \in [Snap -> Snaps] /\ WaitGroupExact'
         /\ \A x \in Snap : /\ snap'[x].of = snap[x].of
                            /\ snap'[x].refs = IF x = s THEN snap[x].refs + 1
                                                        ELSE snap[x].refs
<1>1. snap' \in [Snap -> Snaps]
  BY DEF TypeOK, Acquire, Snaps
<1>2. \A x \in Snap : /\ snap'[x].of = snap[x].of
                      /\ snap'[x].refs = IF x = s THEN snap[x].refs + 1 ELSE snap[x].refs
  BY DEF TypeOK, Acquire, Snaps
<1>3. {x \in Snap : snap[x].refs > 0}' = {x \in Snap : snap[x].refs > 0}
  BY <1>2 DEF TypeOK, Snaps
<1> QED
  BY <1>1, <1>2, <1>3 DEF WaitGroupExact

LEMMA DecrefEffect ==
  ASSUME TypeOK, WaitGroupExact, NEW s \in Snap, snap[s].refs > 0, Decref(s)
  PROVE  /\ snap' \in [Snap -> Snaps] /\ wg' \in Nat /\ WaitGroupExact'
         /\ \A x \in Snap : /\ snap'[x].of = snap[x].of
                            /\ snap'[x].refs = IF x = s THEN snap[x].refs - 1
                                                        ELSE snap[x].refs
<1> DEFINE Live == {x \in Snap : snap[x].refs > 0}
<1>0. snap[s].refs \in Nat
  BY DEF TypeOK, Snaps
<1>1. snap' \in [Snap -> Snaps]
  BY <1>0 DEF TypeOK, Decref, Snaps
<1>2. \A x \in Snap : /\ snap'[x].of = snap[x].of
                      /\ snap'[x].refs = IF x = s THEN snap[x].refs - 1 ELSE snap[x].refs
  BY DEF TypeOK, Decref, Snaps
<1>3. IsFiniteSet(Live) /\ s \in Live /\ wg = Cardinality(Live)
  BY SessionAssumption, FS_Subset DEF WaitGroupExact
<1>4. wg \in Nat /\ wg # 0
  BY <1>3, FS_CardinalityType, FS_EmptySet
<1>5. Cardinality(Live \ {s}) = wg - 1
  BY <1>3, FS_RemoveElement
<1>6. CASE snap[s].refs = 1
  <2>1. Live' = Live \ {s}
    BY <1>2, <1>6 DEF TypeOK, Snaps
  <2>2. wg' = wg - 1
    BY <1>6 DEF Decref
  <2>3. WaitGroupExact'
    BY <2>1, <2>2, <1>5 DEF WaitGroupExact
  <2> QED
    BY <2>2, <2>3, <1>1, <1>2, <1>4
<1>7. CASE snap[s].refs # 1
  <2>1. Live' = Live
    BY <1>0, <1>2, <1>7 DEF TypeOK, Snaps
  <2>2. wg' = wg
    BY <1>7 DEF Decref
  <2>3. WaitGroupExact'
    BY <2>1, <2>2 DEF WaitGroupExact
  <2> QED
    BY <2>2, <2>3, <1>1, <1>2, <1>4
<1> QED
  BY <1>6, <1>7

-----------------------------------------------------------------------------
(* What a step of t leaves to the other threads. *)

LEMMA OtherThreads ==
  ASSUME IInv, NEW t,
         \A x \in Thread \ {t} : th'[x] = th[x],
         (\E x \in Thread \ {t} : th[x].op \in EditOps) =>
             /\ viewMu' = viewMu /\ down' = down /\ views' = views
             /\ \A v \in View : view'[v].cur = view[v].cur,
         down => down',
         \A v \in View : view[v].def \in Def => view'[v].def \in Def,
         \A s \in Snap : snap[s].refs > 0 => snap'[s].of = snap[s].of,
         down /\ (\A s \in Snap : snap[s].refs = 0) => \A s \in Snap : snap'[s].refs = 0
  PROVE  \A x \in Thread \ {t} : Local(x)'
<1> SUFFICES ASSUME NEW x \in Thread \ {t} PROVE Local(x)'
  OBVIOUS
<1>1. Local(x) /\ th'[x] = th[x] /\ th[x] \in Threads
  BY DEF IInv, TypeOK
<1>2. Control(x)'
  BY <1>1 DEF Local, Control, At
<1>3. Holds(x)'
  <2>1. \A s \in th[x].held : snap'[s].of = snap[s].of
    BY <1>1, ReferencedAlive DEF IInv, Threads
  <2> QED
    BY <2>1, <1>1 DEF Local, Holds, At
<1>4. Locks(x)'
  BY <1>1 DEF Local, Control, Locks, At, Threads, Ops
<1>5. Visits(x)'
  <2>1. \A v \in th[x].keep : view'[v].def \in Def
    BY <1>1 DEF Local, Visits, Threads
  <2>2. th[x].pc \in {"create", "retire"} => th[x].op \in EditOps
    BY <1>1 DEF Local, Control, At, Threads, Ops, EditOps
  <2>3. CASE th[x].op \in EditOps
    BY <2>1, <2>3, <1>1 DEF Local, Visits, Editing, Threads, At
  <2>4. CASE th[x].op \notin EditOps
    BY <2>1, <2>2, <2>4, <1>1 DEF Local, Visits, Editing, EditOps, Threads, At
  <2> QED
    BY <2>3, <2>4
<1> QED
  BY <1>2, <1>3, <1>4, <1>5 DEF Local

\* The frame of a step that changes one thread, and no view or snapshot as far as
\* the invariant tells.
LEMMA ThreadStep ==
  ASSUME IInv, NEW t \in Thread, TypeOK',
         \A x \in Thread \ {t} : th'[x] = th[x],
         th'[t].held = th[t].held,
         SameRefs, SameSnaps,
         \A v \in View : view'[v].def = view[v].def /\ view'[v].lpc = view[v].lpc,
         UNCHANGED <<viewMu, views, down>>,
         \A u \in URI : viewMap'[u] \in View => view[viewMap'[u]].def \in Def,
         th[t].pc \in {"create", "retire"} <=> th'[t].pc \in {"create", "retire"},
         Local(t)'
  PROVE  IInv'
<1>1. \A x \in Thread : Local(x)'
  BY OtherThreads DEF SameRefs, SameSnaps
<1>2. Registry'
  <2>1. Replacing' <=> Replacing
    BY DEF Replacing
  <2> QED
    BY <2>1 DEF IInv, Registry, SameRefs, SameSnaps, TypeOK, Views
<1>3. RefsExact'
  BY SameHolders DEF IInv
<1>4. WaitGroupExact'
  BY SameWaitGroup DEF IInv
<1> QED
  BY <1>1, <1>2, <1>3, <1>4 DEF IInv

\* The frame of a step of one thread that takes or returns references.
LEMMA ReferenceStep ==
  ASSUME IInv, NEW t \in Thread, TypeOK', WaitGroupExact',
         \A x \in Thread \ {t} : th'[x] = th[x],
         \E s \in Snap : snap[s].refs > 0,
         \A s \in Snap :
            /\ snap'[s].of = snap[s].of
            /\ s \in th'[t].held /\ s \notin th[t].held => snap'[s].refs = snap[s].refs + 1
            /\ s \notin th'[t].held /\ s \in th[t].held => snap'[s].refs = snap[s].refs - 1
            /\ (s \in th'[t].held <=> s \in th[t].held) => snap'[s].refs = snap[s].refs,
         UNCHANGED <<sessionVars, view>>,
         th[t].pc \in {"create", "retire"} <=> th'[t].pc \in {"create", "retire"},
         Local(t)'
  PROVE  IInv'
<1>1. \A x \in Thread : Local(x)'
  <2>1. ~\A s \in Snap : snap[s].refs = 0
    BY DEF IInv, TypeOK, Snaps
  <2> QED
    BY <2>1, OtherThreads DEF sessionVars
<1>2. Registry'
  <2>1. Replacing' <=> Replacing
    BY DEF Replacing
  <2> QED
    BY <2>1 DEF IInv, Registry, TypeOK, Views, sessionVars
<1>3. RefsExact'
  BY ThreadRefs DEF IInv, SameSnaps
<1> QED
  BY <1>1, <1>2, <1>3 DEF IInv

\* A call that goes on with its snapshots, and one that returns.
LEMMA UseEffect ==
  ASSUME TypeOK, NEW t \in Thread, NEW S \in SUBSET Snap, Use(t, S)
  PROVE  /\ th' \in [Thread -> Threads] /\ \A x \in Thread \ {t} : th'[x] = th[x]
         /\ th'[t].held = S /\ th'[t].pc = "using" /\ Local(t)'
<1>1. /\ th' \in [Thread -> Threads] /\ \A x \in Thread \ {t} : th'[x] = th[x]
      /\ th'[t].held = S /\ th'[t].pc = "using" /\ th'[t].op = "request"
      /\ th'[t].keep = {}
  BY DEF TypeOK, Use, Idle, Threads, PCs, Ops
<1> QED
  BY <1>1 DEF Local, Control, Holds, Locks, Visits, Editing, EditOps, At

LEMMA ReturnEffect ==
  ASSUME TypeOK, NEW t \in Thread, Return(t)
  PROVE  /\ th' \in [Thread -> Threads] /\ \A x \in Thread \ {t} : th'[x] = th[x]
         /\ th'[t].held = {} /\ th'[t].pc = "idle" /\ Local(t)'
<1>1. /\ th' \in [Thread -> Threads] /\ \A x \in Thread \ {t} : th'[x] = th[x]
      /\ th'[t].held = {} /\ th'[t].pc = "idle" /\ th'[t].op = "none"
      /\ th'[t].keep = {}
  BY DEF TypeOK, Return, Idle, Threads, PCs, Ops
<1> QED
  BY <1>1 DEF Local, Control, Holds, Locks, Visits, Editing, EditOps, At

\* A call acquires a live snapshot and goes on with it, or releases the only one it
\* holds and goes on without.
LEMMA AcquireAndUse ==
  ASSUME IInv, NEW t \in Thread, NEW s \in Snap, snap[s].refs > 0, th[t].held = {},
         th[t].pc \notin {"create", "retire"},
         Acquire(s), Use(t, {s}), UNCHANGED <<sessionVars, wg, view>>
  PROVE  IInv'
<1>1. /\ snap' \in [Snap -> Snaps] /\ WaitGroupExact'
      /\ \A x \in Snap : /\ snap'[x].of = snap[x].of
                         /\ snap'[x].refs = IF x = s THEN snap[x].refs + 1 ELSE snap[x].refs
  BY AcquireEffect DEF IInv
<1>2. /\ th' \in [Thread -> Threads] /\ \A x \in Thread \ {t} : th'[x] = th[x]
      /\ th'[t].held = {s} /\ th'[t].pc = "using" /\ Local(t)'
  BY UseEffect DEF IInv
<1>3. TypeOK'
  BY <1>1, <1>2 DEF IInv, TypeOK, sessionVars
<1> QED
  BY <1>1, <1>2, <1>3, ReferenceStep

\* A call releases a snapshot and goes on with the others it holds.
LEMMA DecrefStep ==
  ASSUME IInv, NEW t \in Thread, NEW s \in Snap, s \in th[t].held, Decref(s),
         UNCHANGED <<sessionVars, view>>,
         th' \in [Thread -> Threads], \A x \in Thread \ {t} : th'[x] = th[x],
         th'[t].held = th[t].held \ {s},
         th[t].pc \in {"create", "retire"} <=> th'[t].pc \in {"create", "retire"},
         (\A x \in Snap : snap'[x].of = snap[x].of) => Local(t)'
  PROVE  IInv'
<1>1. snap[s].refs > 0
  BY ReferencedAlive DEF IInv
<1>2. /\ snap' \in [Snap -> Snaps] /\ wg' \in Nat /\ WaitGroupExact'
      /\ \A x \in Snap : /\ snap'[x].of = snap[x].of
                         /\ snap'[x].refs = IF x = s THEN snap[x].refs - 1 ELSE snap[x].refs
  BY <1>1, DecrefEffect DEF IInv
<1>3. TypeOK'
  BY <1>2 DEF IInv, TypeOK, sessionVars
<1> QED
  BY <1>1, <1>2, <1>3, ReferenceStep

LEMMA ThreadOnly ==
  ASSUME IInv, NEW t \in Thread, UNCHANGED <<sessionVars, wg, view, snap>>,
         th' \in [Thread -> Threads], \A x \in Thread \ {t} : th'[x] = th[x],
         th'[t].held = th[t].held,
         th[t].pc \in {"create", "retire"} <=> th'[t].pc \in {"create", "retire"},
         Local(t)'
  PROVE  IInv'
<1>1. TypeOK'
  BY DEF IInv, TypeOK, sessionVars
<1> QED
  BY <1>1, ThreadStep DEF IInv, Registry, SameRefs, SameSnaps, sessionVars

LEMMA ThreadsTyped == IInv => th \in [Thread -> Threads]
BY DEF IInv, TypeOK

\* An idle thread holds nothing, and the best view of a file, if any, is a view
\* with a definition.
LEMMA IdleHoldsNothing ==
  ASSUME IInv, NEW t \in Thread, At(t, "idle")
  PROVE  th[t].op = "none" /\ th[t].held = {}
BY DEF IInv, TypeOK, Threads, Ops, Local, Control, Holds, At

LEMMA BestIsView ==
  ASSUME IInv, NEW u \in File, NEW v \in Best(u)
  PROVE  v = NoView \/ (v \in View /\ view[v].def \in Def)
<1>1. CASE viewMap[u] # Unset
  BY <1>1 DEF IInv, TypeOK, Registry, Best, URI
<1>2. CASE viewMap[u] = Unset
  BY <1>2 DEF IInv, TypeOK, Registry, Best
<1> QED
  BY <1>1, <1>2

-----------------------------------------------------------------------------
(* The steps of a request. *)

LEMMA SnapshotOfStep ==
  ASSUME IInv, NEW t \in Thread, NEW u \in File, SnapshotOf(t, u)
  PROVE  IInv'
<1>1. PICK v \in Best(u) :
        /\ viewMap' = [viewMap EXCEPT ![u] = v]
        /\ th' = [th EXCEPT ![t] = [Idle EXCEPT
                     !.pc = IF v = NoView THEN "views" ELSE "snap",
                     !.op = "of", !.v = v, !.u = u, !.began = done]]
  BY DEF SnapshotOf
<1>2. UNCHANGED <<viewMu, views, down, edits, done, wg, view, snap>> /\ At(t, "idle")
  BY DEF SnapshotOf
<1>3. v \in View \union {NoView}
  BY BestIsView
<1>4. TypeOK'
  BY <1>1, <1>2, <1>3 DEF IInv, TypeOK, Idle, Threads, PCs, Ops
<1>5. /\ \A x \in Thread \ {t} : th'[x] = th[x]
      /\ th'[t].held = {} /\ th'[t].pc \in {"views", "snap"} /\ th'[t].op = "of"
      /\ th'[t].keep = {} /\ (th'[t].pc = "snap" => th'[t].v \in View)
  BY <1>1, <1>3 DEF IInv, TypeOK, Idle
<1>6. Local(t)'
  BY <1>5 DEF Local, Control, Holds, Locks, Visits, Editing, EditOps, At
<1>7. \A w \in URI : viewMap'[w] \in View => view[viewMap'[w]].def \in Def
  BY <1>1, BestIsView, SessionAssumption DEF IInv, TypeOK, Registry
<1> QED
  BY <1>2, <1>4, <1>5, <1>6, <1>7, IdleHoldsNothing, ThreadStep
     DEF SameRefs, SameSnaps, At

LEMMA FastSnapshotStep ==
  ASSUME IInv, NEW t \in Thread, FastSnapshot(t)
  PROVE  IInv'
<1> DEFINE s == view[th[t].v].cur
<1>1. At(t, "snap") /\ UNCHANGED <<sessionVars, wg, view>> /\ th[t].op = "of"
  BY DEF FastSnapshot, IInv, TypeOK, Threads, Ops, Local, Control, At
<1>2. th[t].held = {}
  BY <1>1 DEF IInv, Local, Holds, At
<1>3. CASE s = NoSnap /\ Goto(t, "forget") /\ UNCHANGED snap
  <2>1. TypeOK'
    BY <1>1, <1>3 DEF IInv, TypeOK, Goto, Threads, PCs, At, sessionVars
  <2>2. /\ \A x \in Thread \ {t} : th'[x] = th[x]
        /\ th'[t].held = {} /\ th'[t].pc = "forget" /\ th'[t].op = "of"
        /\ th'[t].keep = th[t].keep
    BY <1>1, <1>2, <1>3 DEF IInv, TypeOK, Goto, Threads
  <2>3. Local(t)'
    BY <1>1, <1>3, <2>2
       DEF IInv, Local, Control, Holds, Locks, Visits, Editing, EditOps, At, sessionVars
  <2> QED
    BY <1>1, <1>2, <1>3, <2>1, <2>2, <2>3, ThreadStep
       DEF SameRefs, SameSnaps, At, sessionVars, IInv, Registry
<1>4. CASE s # NoSnap /\ Acquire(s) /\ Use(t, {s})
  <2>1. PICK x \in Snap : x = s
    BY <1>1, <1>4 DEF IInv, TypeOK, Views, Local, Visits, At
  <2>2. snap[x].refs > 0
    BY <1>1, <2>1, ReferencedAlive DEF IInv, Local, Visits, At
  <2>3. Acquire(x) /\ Use(t, {x})
    BY <1>4, <2>1
  <2> QED
    BY <1>1, <1>2, <2>2, <2>3, AcquireAndUse DEF At
<1> QED
  BY <1>1, <1>3, <1>4 DEF FastSnapshot

LEMMA ForgetStep ==
  ASSUME IInv, NEW t \in Thread, Forget(t)
  PROVE  IInv'
<1>1. At(t, "forget") /\ UNCHANGED <<viewMu, views, down, edits, done, wg, view, snap>>
  BY DEF Forget
<1>2. viewMap' = [viewMap EXCEPT ![th[t].u] = IF @ = th[t].v THEN Unset ELSE @]
      /\ th' = [th EXCEPT ![t].pc = "views"]
  BY DEF Forget, Goto
<1>3. TypeOK'
  <2>1. th' \in [Thread -> Threads]
    BY <1>2, ThreadsTyped DEF Threads, PCs
  <2> QED
    BY <1>1, <1>2, <2>1 DEF IInv, TypeOK
<1>4. \A u \in URI : viewMap'[u] \in View => view[viewMap'[u]].def \in Def
  BY <1>2, SessionAssumption DEF IInv, TypeOK, Registry
<1>5. /\ \A x \in Thread \ {t} : th'[x] = th[x]
      /\ th'[t].held = th[t].held /\ th'[t].pc = "views" /\ th'[t].op = th[t].op
      /\ th'[t].keep = th[t].keep /\ th[t].op = "of" /\ th[t].held = {}
  BY <1>1, <1>2 DEF IInv, TypeOK, Threads, Ops, Local, Control, Holds, At
<1>6. Local(t)'
  BY <1>1, <1>5 DEF IInv, Local, Control, Holds, Locks, Visits, Editing, EditOps, At
<1> QED
  BY <1>1, <1>3, <1>4, <1>5, <1>6, ThreadStep DEF SameRefs, SameSnaps, At

LEMMA ListViewsStep ==
  ASSUME IInv, NEW t \in Thread, ListViews(t)
  PROVE  IInv'
<1>1. At(t, "views") /\ UNCHANGED <<sessionVars, wg, view, snap>>
      /\ th' = [th EXCEPT ![t].pc = "search", ![t].v = NoView,
                          ![t].todo = views, ![t].keep = views]
  BY DEF ListViews
<1>2. th' \in [Thread -> Threads]
  <2>1. PICK g \in Threads, vs \in SUBSET View : g = th[t] /\ vs = views
    BY DEF IInv, TypeOK
  <2>2. [g EXCEPT !.pc = "search", !.v = NoView, !.todo = vs, !.keep = vs] \in Threads
    BY DEF Threads, PCs
  <2> QED
    BY <1>1, <2>1, <2>2, ThreadsTyped
<1>3. /\ \A x \in Thread \ {t} : th'[x] = th[x]
      /\ th'[t].held = th[t].held /\ th'[t].pc = "search" /\ th'[t].op = th[t].op
      /\ th'[t].keep = views /\ th[t].op = "of" /\ th[t].held = {}
  BY <1>1 DEF IInv, TypeOK, Threads, Ops, Local, Control, Holds, At
<1>4. Local(t)'
  BY <1>1, <1>3 DEF IInv, Local, Control, Holds, Locks, Visits, Editing, EditOps, At,
                    Registry, sessionVars
<1> QED
  BY <1>1, <1>2, <1>3, <1>4, ThreadOnly DEF At

LEMMA SearchStep ==
  ASSUME IInv, NEW t \in Thread, Search(t)
  PROVE  IInv'
<1>1. At(t, "search") /\ UNCHANGED <<sessionVars, wg, view>>
  BY DEF Search
<1>2. th[t].op = "of" /\ th[t].held = {}
  BY <1>1 DEF IInv, TypeOK, Threads, Ops, Local, Control, Holds, At
<1>3. CASE th[t].todo = {} /\ UNCHANGED snap
           /\ th' = [th EXCEPT ![t].pc = "last", ![t].todo = th[t].keep]
  <2>1. th' \in [Thread -> Threads]
    <3>1. PICK g \in Threads : g = th[t]
      BY ThreadsTyped
    <3>2. [g EXCEPT !.pc = "last", !.todo = g.keep] \in Threads
      BY DEF Threads, PCs
    <3> QED
      BY <1>3, <3>1, <3>2, ThreadsTyped
  <2>2. /\ \A x \in Thread \ {t} : th'[x] = th[x]
        /\ th'[t].held = {} /\ th'[t].pc = "last" /\ th'[t].op = "of"
        /\ th'[t].keep = th[t].keep
    BY <1>2, <1>3 DEF IInv, TypeOK, Threads
  <2>3. Local(t)'
    BY <1>1, <2>2 DEF IInv, Local, Control, Holds, Locks, Visits, Editing, EditOps, At
  <2> QED
    BY <1>1, <1>2, <1>3, <2>1, <2>2, <2>3, ThreadOnly DEF At
<1>4. ASSUME NEW v \in th[t].todo, view[v].cur = NoSnap, UNCHANGED snap,
             th' = [th EXCEPT ![t].todo = @ \ {v}]
      PROVE  IInv'
  <2>1. th' \in [Thread -> Threads]
    BY <1>4 DEF IInv, TypeOK, Threads
  <2>2. /\ \A x \in Thread \ {t} : th'[x] = th[x]
        /\ th'[t].held = {} /\ th'[t].pc = "search" /\ th'[t].op = "of"
        /\ th'[t].keep = th[t].keep
    BY <1>1, <1>2, <1>4 DEF IInv, TypeOK, Threads, At
  <2>3. Local(t)'
    BY <1>1, <2>2 DEF IInv, Local, Control, Holds, Locks, Visits, Editing, EditOps, At
  <2> QED
    BY <1>1, <1>2, <1>4, <2>1, <2>2, <2>3, ThreadOnly DEF At
<1>5. ASSUME NEW v \in th[t].todo, view[v].cur # NoSnap, Acquire(view[v].cur),
             th' = [th EXCEPT ![t].pc = "await", ![t].held = {view[v].cur}, ![t].v = v,
                              ![t].s = view[v].cur, ![t].todo = @ \ {v}]
      PROVE  IInv'
  <2>1. PICK s \in Snap : s = view[v].cur /\ v \in View
    BY <1>5 DEF IInv, TypeOK, Views, Threads
  <2>2. snap[s].refs > 0
    BY <2>1, ReferencedAlive DEF IInv
  <2>3. /\ snap' \in [Snap -> Snaps] /\ WaitGroupExact'
        /\ \A x \in Snap : /\ snap'[x].of = snap[x].of
                           /\ snap'[x].refs = IF x = s THEN snap[x].refs + 1
                                                       ELSE snap[x].refs
    BY <1>1, <1>5, <2>1, <2>2, AcquireEffect DEF IInv
  <2>4. TypeOK'
    BY <1>1, <1>5, <2>1, <2>3 DEF IInv, TypeOK, Threads, PCs, sessionVars
  <2>5. /\ \A x \in Thread \ {t} : th'[x] = th[x]
        /\ th'[t].held = {s} /\ th'[t].s = s /\ th'[t].pc = "await" /\ th'[t].op = "of"
        /\ th'[t].keep = th[t].keep
    BY <1>2, <1>5, <2>1 DEF IInv, TypeOK, Threads
  <2>6. Local(t)'
    BY <1>1, <2>5 DEF IInv, Local, Control, Holds, Locks, Visits, Editing, EditOps, At
  <2> QED
    BY <1>1, <1>2, <2>2, <2>3, <2>4, <2>5, <2>6, ReferenceStep DEF At
<1> QED
  BY <1>3, <1>4, <1>5 DEF Search

LEMMA MatchStep ==
  ASSUME IInv, NEW t \in Thread, Match(t)
  PROVE  IInv'
<1>1. At(t, "match") /\ UNCHANGED <<sessionVars, view>>
  BY DEF Match
<1>2. PICK s \in Snap : s = th[t].s /\ th[t].held = {s} /\ th[t].op = "of"
  BY <1>1 DEF IInv, TypeOK, Threads, Ops, Local, Control, Holds, At
<1>3. CASE Decref(th[t].s) /\ Return(t)
  <2>1. /\ th' \in [Thread -> Threads] /\ \A x \in Thread \ {t} : th'[x] = th[x]
        /\ th'[t].held = {} /\ th'[t].pc = "idle" /\ Local(t)'
    BY <1>3, ReturnEffect DEF IInv
  <2>2. Decref(s)
    BY <1>2, <1>3
  <2> QED
    BY <1>1, <1>2, <2>1, <2>2, DecrefStep DEF At
<1>4. CASE Use(t, {th[t].s}) /\ UNCHANGED <<wg, snap>>
  <2>1. Use(t, {s})
    BY <1>2, <1>4
  <2>2. /\ th' \in [Thread -> Threads] /\ \A x \in Thread \ {t} : th'[x] = th[x]
        /\ th'[t].held = {s} /\ th'[t].pc = "using" /\ Local(t)'
    BY <2>1, UseEffect DEF IInv
  <2> QED
    BY <1>1, <1>2, <1>4, <2>2, ThreadOnly DEF At
<1>5. CASE /\ Decref(th[t].s)
           /\ th' = [th EXCEPT ![t].pc = "search", ![t].held = {}, ![t].s = NoSnap,
                               ![t].v = NoView]
  <2>1. /\ th' \in [Thread -> Threads] /\ \A x \in Thread \ {t} : th'[x] = th[x]
        /\ th'[t] = [th[t] EXCEPT !.pc = "search", !.held = {}, !.s = NoSnap, !.v = NoView]
    <3>1. PICK g \in Threads : g = th[t]
      BY ThreadsTyped
    <3>2. [g EXCEPT !.pc = "search", !.held = {}, !.s = NoSnap, !.v = NoView] \in Threads
      BY DEF Threads, PCs
    <3> QED
      BY <1>5, <3>1, <3>2, ThreadsTyped
  <2>2. /\ th'[t].held = {} /\ th'[t].pc = "search" /\ th'[t].op = "of"
        /\ th'[t].keep = th[t].keep
    BY <1>2, <2>1, ThreadsTyped DEF Threads
  <2>3. Local(t)'
    BY <1>1, <2>2 DEF IInv, Local, Control, Holds, Locks, Visits, Editing, EditOps, At
  <2>4. Decref(s)
    BY <1>2, <1>5
  <2> QED
    BY <1>1, <1>2, <2>1, <2>2, <2>3, <2>4, DecrefStep DEF At
<1> QED
  BY <1>3, <1>4, <1>5 DEF Match

LEMMA LastResortStep ==
  ASSUME IInv, NEW t \in Thread, LastResort(t)
  PROVE  IInv'
<1>1. At(t, "last") /\ UNCHANGED <<sessionVars, wg, view>>
  BY DEF LastResort
<1>2. th[t].op = "of" /\ th[t].held = {}
  BY <1>1 DEF IInv, TypeOK, Threads, Ops, Local, Control, Holds, At
<1>3. CASE Return(t) /\ UNCHANGED snap
  BY <1>1, <1>2, <1>3, ReturnEffect, ThreadOnly DEF IInv, At
<1>4. ASSUME NEW v \in th[t].todo, view[v].cur = NoSnap, UNCHANGED snap,
             th' = [th EXCEPT ![t].todo = @ \ {v}]
      PROVE  IInv'
  <2>1. /\ th' \in [Thread -> Threads] /\ \A x \in Thread \ {t} : th'[x] = th[x]
        /\ th'[t].held = {} /\ th'[t].pc = "last" /\ th'[t].op = "of"
        /\ th'[t].keep = th[t].keep
    BY <1>1, <1>2, <1>4, ThreadsTyped DEF Threads, At
  <2>2. Local(t)'
    BY <1>1, <2>1 DEF IInv, Local, Control, Holds, Locks, Visits, Editing, EditOps, At
  <2> QED
    BY <1>1, <1>2, <1>4, <2>1, <2>2, ThreadOnly DEF At
<1>5. ASSUME NEW v \in th[t].todo, view[v].cur # NoSnap, Acquire(view[v].cur),
             Use(t, {view[v].cur})
      PROVE  IInv'
  <2>1. PICK s \in Snap : s = view[v].cur /\ v \in View
    BY <1>5 DEF IInv, TypeOK, Views, Threads
  <2>2. snap[s].refs > 0
    BY <2>1, ReferencedAlive DEF IInv
  <2>3. Acquire(s) /\ Use(t, {s})
    BY <1>5, <2>1
  <2> QED
    BY <1>1, <1>2, <2>2, <2>3, AcquireAndUse DEF At
<1> QED
  BY <1>3, <1>4, <1>5 DEF LastResort

LEMMA ToolCallStep ==
  ASSUME IInv, NEW t \in Thread, ToolCall(t)
  PROVE  IInv'
<1>1. PICK vs \in SUBSET views :
        th' = [th EXCEPT ![t] = [Idle EXCEPT !.pc = "collect", !.op = "request",
                                             !.todo = vs, !.began = done]]
  BY DEF ToolCall
<1>2. At(t, "idle") /\ UNCHANGED <<sessionVars, wg, view, snap>>
  BY DEF ToolCall
<1>3. th' \in [Thread -> Threads]
  <2>1. vs \in SUBSET View /\ done \in Nat
    BY DEF IInv, TypeOK
  <2>2. [Idle EXCEPT !.pc = "collect", !.op = "request", !.todo = vs, !.began = done]
          \in Threads
    BY <2>1 DEF Idle, Threads, PCs, Ops
  <2> QED
    BY <1>1, <2>2, ThreadsTyped
<1>4. /\ \A x \in Thread \ {t} : th'[x] = th[x]
      /\ th'[t].held = {} /\ th'[t].pc = "collect" /\ th'[t].op = "request"
      /\ th'[t].keep = {}
  BY <1>1, ThreadsTyped DEF Idle
<1>5. Local(t)'
  BY <1>4 DEF Local, Control, Holds, Locks, Visits, Editing, EditOps, At
<1> QED
  BY <1>2, <1>3, <1>4, <1>5, IdleHoldsNothing, ThreadOnly DEF At

LEMMA CollectStep ==
  ASSUME IInv, NEW t \in Thread, Collect(t)
  PROVE  IInv'
<1>1. At(t, "collect") /\ UNCHANGED <<sessionVars, wg, view>>
  BY DEF Collect
<1>2. /\ th[t].op = "request" /\ th[t].held \in SUBSET Snap /\ th[t].todo \in SUBSET View
      /\ \A x \in th[t].held : snap[x].of \notin th[t].todo
  BY <1>1 DEF IInv, TypeOK, Threads, Ops, Local, Control, Holds, At
<1>3. CASE th[t].held = {} /\ Return(t) /\ UNCHANGED snap
  BY <1>1, <1>2, <1>3, ReturnEffect, ThreadOnly DEF IInv, At
<1>4. CASE Use(t, th[t].held) /\ UNCHANGED snap
  <2>1. PICK S \in SUBSET Snap : S = th[t].held
    BY <1>2
  <2>2. /\ th' \in [Thread -> Threads] /\ \A x \in Thread \ {t} : th'[x] = th[x]
        /\ th'[t].held = S /\ th'[t].pc = "using" /\ Local(t)'
    BY <1>4, <2>1, UseEffect DEF IInv
  <2> QED
    BY <1>1, <1>4, <2>1, <2>2, ThreadOnly DEF At
<1>5. ASSUME NEW v \in th[t].todo, view[v].cur = NoSnap, UNCHANGED snap,
             th' = [th EXCEPT ![t].todo = @ \ {v},
                              ![t].held = IF view[v].cur = NoSnap THEN @
                                          ELSE @ \union {view[v].cur}]
      PROVE  IInv'
  <2>1. /\ th' \in [Thread -> Threads] /\ \A x \in Thread \ {t} : th'[x] = th[x]
        /\ th'[t] = [th[t] EXCEPT !.todo = @ \ {v}, !.held = @]
    <3>1. PICK g \in Threads : g = th[t]
      BY ThreadsTyped
    <3>2. [g EXCEPT !.todo = @ \ {v}, !.held = @] \in Threads
      BY DEF Threads
    <3> QED
      BY <1>5, <3>1, <3>2, ThreadsTyped
  <2>2. /\ th'[t].held = th[t].held /\ th'[t].pc = "collect" /\ th'[t].op = "request"
        /\ th'[t].keep = th[t].keep /\ th'[t].todo \subseteq th[t].todo
    BY <1>1, <1>2, <2>1, ThreadsTyped DEF Threads, At
  <2>3. Local(t)'
    BY <1>1, <1>2, <1>5, <2>2
       DEF IInv, Local, Control, Holds, Locks, Visits, Editing, EditOps, At
  <2> QED
    BY <1>1, <1>5, <2>1, <2>2, <2>3, ThreadOnly DEF At
<1>6. ASSUME NEW v \in th[t].todo, view[v].cur # NoSnap, Acquire(view[v].cur),
             th' = [th EXCEPT ![t].todo = @ \ {v},
                              ![t].held = IF view[v].cur = NoSnap THEN @
                                          ELSE @ \union {view[v].cur}]
      PROVE  IInv'
  <2>1. PICK s \in Snap : s = view[v].cur /\ v \in View
    BY <1>2, <1>6 DEF IInv, TypeOK, Views
  <2>2. snap[s].refs > 0 /\ snap[s].of = v
    BY <1>6, <2>1, ReferencedAlive DEF IInv, Registry
  <2>3. /\ snap' \in [Snap -> Snaps] /\ WaitGroupExact'
        /\ \A x \in Snap : /\ snap'[x].of = snap[x].of
                           /\ snap'[x].refs = IF x = s THEN snap[x].refs + 1
                                                       ELSE snap[x].refs
    BY <1>1, <1>6, <2>1, <2>2, AcquireEffect DEF IInv
  <2>4. /\ th' \in [Thread -> Threads] /\ \A x \in Thread \ {t} : th'[x] = th[x]
        /\ th'[t] = [th[t] EXCEPT !.todo = @ \ {v}, !.held = @ \union {s}]
    <3>1. PICK g \in Threads : g = th[t]
      BY ThreadsTyped
    <3>2. [g EXCEPT !.todo = @ \ {v}, !.held = @ \union {s}] \in Threads
      BY DEF Threads
    <3> QED
      BY <1>6, <2>1, <3>1, <3>2, ThreadsTyped
  <2>5. TypeOK'
    BY <1>1, <2>3, <2>4 DEF IInv, TypeOK, sessionVars
  <2>6. /\ th'[t].held = th[t].held \union {s} /\ th'[t].pc = "collect"
        /\ th'[t].op = "request" /\ th'[t].keep = th[t].keep
        /\ th'[t].todo = th[t].todo \ {v}
    BY <1>1, <1>2, <2>4, ThreadsTyped DEF Threads, At
  <2>7. Holds(t)'
    BY <1>2, <2>2, <2>3, <2>6 DEF Holds, At
  <2>8. Local(t)'
    BY <1>1, <2>6, <2>7 DEF IInv, Local, Control, Locks, Visits, Editing, EditOps, At
  <2>9. s \notin th[t].held
    BY <1>2, <2>2
  <2> QED
    BY <1>1, <2>2, <2>3, <2>4, <2>5, <2>6, <2>8, <2>9, ReferenceStep DEF At
<1> QED
  BY <1>3, <1>4, <1>5, <1>6 DEF Collect

LEMMA UseLoadedStep ==
  ASSUME IInv, NEW t \in Thread, UseLoaded(t)
  PROVE  IInv'
<1>1. At(t, "using") /\ UNCHANGED <<sessionVars, wg, view, snap>>
  BY DEF UseLoaded
<1>2. PICK s \in th[t].held :
        th' = [th EXCEPT ![t].pc = "await", ![t].s = s, ![t].v = snap[s].of]
  BY DEF UseLoaded
<1>3. /\ th' \in [Thread -> Threads] /\ \A x \in Thread \ {t} : th'[x] = th[x]
      /\ th'[t] = [th[t] EXCEPT !.pc = "await", !.s = s, !.v = snap[s].of]
  <2>1. PICK g \in Threads, v \in View \union {NoView} :
          g = th[t] /\ v = snap[s].of /\ s \in Snap
    BY ThreadsTyped DEF IInv, TypeOK, Threads, Snaps
  <2>2. [g EXCEPT !.pc = "await", !.s = s, !.v = v] \in Threads
    BY <2>1 DEF Threads, PCs
  <2> QED
    BY <1>2, <2>1, <2>2, ThreadsTyped
<1>4. /\ th'[t].held = th[t].held /\ th'[t].pc = "await" /\ th'[t].op = "request"
      /\ th'[t].keep = th[t].keep /\ th[t].op = "request"
  BY <1>1, <1>3, ThreadsTyped DEF IInv, Threads, Ops, Local, Control, At
<1>5. Local(t)'
  BY <1>1, <1>4 DEF IInv, Local, Control, Holds, Locks, Visits, Editing, EditOps, At
<1> QED
  BY <1>1, <1>3, <1>4, <1>5, ThreadOnly DEF At

LEMMA ReleaseStep ==
  ASSUME IInv, NEW t \in Thread, Release(t)
  PROVE  IInv'
<1>1. At(t, "using") /\ UNCHANGED <<sessionVars, view>>
  BY DEF Release
<1>2. PICK s \in th[t].held :
        /\ Decref(s)
        /\ IF th[t].held = {s} THEN Return(t) ELSE Use(t, th[t].held \ {s})
  BY DEF Release
<1>3. s \in Snap /\ th[t].held \in SUBSET Snap
  BY ThreadsTyped DEF Threads
<1>4. /\ th' \in [Thread -> Threads] /\ \A x \in Thread \ {t} : th'[x] = th[x]
      /\ th'[t].held = th[t].held \ {s} /\ th'[t].pc \in {"idle", "using"} /\ Local(t)'
  <2>1. CASE th[t].held = {s}
    BY <1>2, <2>1, ReturnEffect DEF IInv
  <2>2. CASE th[t].held # {s}
    <3>1. PICK S \in SUBSET Snap : S = th[t].held \ {s}
      BY <1>3
    <3> QED
      BY <1>2, <2>2, <3>1, UseEffect DEF IInv
  <2> QED
    BY <2>1, <2>2
<1> QED
  BY <1>1, <1>2, <1>3, <1>4, DecrefStep DEF At

LEMMA CancelRequestStep ==
  ASSUME IInv, NEW t \in Thread, CancelRequest(t)
  PROVE  IInv'
<1>1. UNCHANGED <<sessionVars, wg, view, snap>>
      /\ th' = [th EXCEPT ![t].cancelled = TRUE]
  BY DEF CancelRequest
<1>2. /\ th' \in [Thread -> Threads] /\ \A x \in Thread \ {t} : th'[x] = th[x]
      /\ th'[t].held = th[t].held /\ th'[t].pc = th[t].pc /\ th'[t].op = th[t].op
      /\ th'[t].keep = th[t].keep /\ th'[t].todo = th[t].todo /\ th'[t].s = th[t].s
      /\ th'[t].v = th[t].v
  BY <1>1, ThreadsTyped DEF Threads
<1>3. Local(t)'
  BY <1>1, <1>2
     DEF IInv, Local, Control, Holds, Locks, Visits, Editing, EditOps, At, sessionVars
<1> QED
  BY <1>1, <1>2, <1>3, ThreadOnly

-----------------------------------------------------------------------------
(* Waiting for a load, and loading. *)

LEMMA AfterInitEffect ==
  ASSUME IInv, NEW t \in Thread, th[t].pc \in {"await", "init", "load"}, AfterInit(t),
         UNCHANGED <<viewMu, views, down>>, SameSnaps,
         \A v \in View : view'[v].def = view[v].def
  PROVE  /\ th' \in [Thread -> Threads] /\ \A x \in Thread \ {t} : th'[x] = th[x]
         /\ th'[t].held = th[t].held /\ th'[t].pc \notin {"create", "retire"}
         /\ Local(t)'
<1>1. Local(t) /\ th[t] \in Threads
  BY ThreadsTyped DEF IInv
<1>2. CASE th[t].op = "request"
  <2>1. PICK S \in SUBSET Snap : S = th[t].held
    BY <1>1 DEF Threads
  <2>2. Use(t, S)
    BY <1>2, <2>1 DEF AfterInit
  <2> QED
    BY <2>1, <2>2, UseEffect DEF IInv
<1>3. CASE Editing(t)
  <2>1. th' = [th EXCEPT ![t].pc = "swap"]
    BY <1>3 DEF AfterInit, Goto, Editing
  <2>2. /\ th' \in [Thread -> Threads] /\ \A x \in Thread \ {t} : th'[x] = th[x]
        /\ th'[t] = [th[t] EXCEPT !.pc = "swap"]
    BY <2>1, ThreadsTyped DEF Threads, PCs
  <2>3. /\ th'[t].held = th[t].held /\ th'[t].pc = "swap" /\ th'[t].op = th[t].op
        /\ th'[t].keep = th[t].keep /\ th'[t].todo = th[t].todo /\ th'[t].s = th[t].s
        /\ th'[t].v = th[t].v
    BY <1>1, <2>2 DEF Threads
  <2>4. Control(t)' /\ Holds(t)' /\ Locks(t)'
    BY <1>1, <1>3, <2>3 DEF Local, Control, Holds, Locks, Editing, EditOps, At
  <2>5. Visits(t)'
    BY <1>1, <1>3, <2>3 DEF Local, Visits, Editing, At, SameSnaps, Threads
  <2> QED
    BY <2>2, <2>3, <2>4, <2>5 DEF Local
<1>4. CASE th[t].op = "of"
  <2>1. th' = [th EXCEPT ![t].pc = "match"]
    BY <1>4 DEF AfterInit, Goto, Editing
  <2>2. /\ th' \in [Thread -> Threads] /\ \A x \in Thread \ {t} : th'[x] = th[x]
        /\ th'[t] = [th[t] EXCEPT !.pc = "match"]
    BY <2>1, ThreadsTyped DEF Threads, PCs
  <2>3. /\ th'[t].held = th[t].held /\ th'[t].pc = "match" /\ th'[t].op = th[t].op
        /\ th'[t].keep = th[t].keep /\ th'[t].s = th[t].s
    BY <1>1, <2>2 DEF Threads
  <2>4. Local(t)'
    BY <1>1, <1>4, <2>3
       DEF Local, Control, Holds, Locks, Visits, Editing, EditOps, At, Threads
  <2> QED
    BY <2>2, <2>3, <2>4
<1> QED
  BY <1>1, <1>2, <1>3, <1>4 DEF Local, Control, Editing, Threads, Ops, At

\* initializationSema and `initialized` are of no consequence for the references.
LEMMA SemaEffect ==
  ASSUME IInv, NEW w, NEW q \in Thread \union {Nobody, Loader},
         view' = [view EXCEPT ![w].sema = q]
  PROVE  /\ view' \in [View -> Views] /\ SameSnaps
         /\ \A v \in View : view'[v].def = view[v].def /\ view'[v].lpc = view[v].lpc
<1>1. view \in [View -> Views]
  BY DEF IInv, TypeOK
<1>2. \A v \in View : view'[v] = IF v = w THEN [view[v] EXCEPT !.sema = q] ELSE view[v]
  BY <1>1
<1>3. \A g \in Views : LET h == [g EXCEPT !.sema = q] IN
        /\ h \in Views /\ h.cur = g.cur /\ h.lsnap = g.lsnap
        /\ h.def = g.def /\ h.lpc = g.lpc
  BY DEF Views
<1> QED
  BY <1>1, <1>2, <1>3 DEF SameSnaps

LEMMA InitedEffect ==
  ASSUME IInv, NEW s, snap' = [snap EXCEPT ![s].inited = TRUE] \/ UNCHANGED snap
  PROVE  /\ snap' \in [Snap -> Snaps]
         /\ \A x \in Snap : snap'[x].refs = snap[x].refs /\ snap'[x].of = snap[x].of
<1>1. snap \in [Snap -> Snaps]
  BY DEF IInv, TypeOK
<1>2. CASE snap' = [snap EXCEPT ![s].inited = TRUE]
  <2>1. \A x \in Snap :
          snap'[x] = IF x = s THEN [snap[x] EXCEPT !.inited = TRUE] ELSE snap[x]
    BY <1>1, <1>2
  <2>2. \A g \in Snaps : LET h == [g EXCEPT !.inited = TRUE] IN
          h \in Snaps /\ h.refs = g.refs /\ h.of = g.of
    BY DEF Snaps
  <2> QED
    BY <1>1, <1>2, <2>1, <2>2
<1> QED
  BY <1>1, <1>2

\* A thread moves on between the points where it waits for a load and loads.
LEMMA GotoLoadEffect ==
  ASSUME IInv, NEW t \in Thread, NEW l \in {"init", "load"},
         th[t].pc \in {"await", "init"}, Goto(t, l),
         UNCHANGED <<viewMu, views, down>>, SameSnaps,
         \A v \in View : view'[v].def = view[v].def
  PROVE  /\ th' \in [Thread -> Threads] /\ \A x \in Thread \ {t} : th'[x] = th[x]
         /\ th'[t].held = th[t].held /\ th'[t].pc = l
         /\ Local(t)'
<1>1. Local(t) /\ th[t] \in Threads
  BY ThreadsTyped DEF IInv
<1>2. /\ th' \in [Thread -> Threads] /\ \A x \in Thread \ {t} : th'[x] = th[x]
      /\ th'[t] = [th[t] EXCEPT !.pc = l]
  BY ThreadsTyped DEF Goto, Threads, PCs
<1>3. /\ th'[t].held = th[t].held /\ th'[t].pc = l /\ th'[t].op = th[t].op
      /\ th'[t].keep = th[t].keep /\ th'[t].todo = th[t].todo /\ th'[t].s = th[t].s
      /\ th'[t].v = th[t].v
  BY <1>1, <1>2 DEF Threads
<1>4. Control(t)' /\ Holds(t)' /\ Locks(t)'
  BY <1>1, <1>3 DEF Local, Control, Holds, Locks, EditOps, At
<1>5. Visits(t)'
  BY <1>1, <1>3 DEF Local, Control, Visits, Editing, At, SameSnaps, Threads
<1> QED
  BY <1>2, <1>3, <1>4, <1>5 DEF Local

LEMMA AwaitInitializedStep ==
  ASSUME IInv, NEW t \in Thread, AwaitInitialized(t)
  PROVE  IInv'
<1>1. At(t, "await") /\ UNCHANGED <<sessionVars, wg, view, snap>>
  BY DEF AwaitInitialized
<1>2. SameSnaps /\ (\A v \in View : view'[v].def = view[v].def)
      /\ UNCHANGED <<viewMu, views, down>>
  BY <1>1 DEF SameSnaps, sessionVars
<1>3. CASE AfterInit(t)
  BY <1>1, <1>2, <1>3, AfterInitEffect, ThreadOnly DEF At
<1>4. CASE Goto(t, "init")
  BY <1>1, <1>2, <1>4, GotoLoadEffect, ThreadOnly DEF At
<1> QED
  BY <1>3, <1>4 DEF AwaitInitialized

LEMMA InitBeginStep ==
  ASSUME IInv, NEW t \in Thread, InitBegin(t)
  PROVE  IInv'
<1>1. At(t, "init") /\ UNCHANGED <<sessionVars, wg, snap>>
  BY DEF InitBegin
<1>2. CASE AfterInit(t) /\ UNCHANGED view
  <2>1. SameSnaps /\ (\A v \in View : view'[v].def = view[v].def)
        /\ UNCHANGED <<viewMu, views, down>>
    BY <1>1, <1>2 DEF SameSnaps, sessionVars
  <2> QED
    BY <1>1, <1>2, <2>1, AfterInitEffect, ThreadOnly DEF At
<1>3. CASE view' = [view EXCEPT ![th[t].v].sema = t] /\ Goto(t, "load")
  <2>1. /\ view' \in [View -> Views] /\ SameSnaps
        /\ \A v \in View : view'[v].def = view[v].def /\ view'[v].lpc = view[v].lpc
    <3>1. PICK w : w = th[t].v
      OBVIOUS
    <3> QED
      BY <1>3, <3>1, SemaEffect
  <2>2. UNCHANGED <<viewMu, views, down>>
    BY <1>1 DEF sessionVars
  <2>3. /\ th' \in [Thread -> Threads] /\ \A x \in Thread \ {t} : th'[x] = th[x]
        /\ th'[t].held = th[t].held /\ th'[t].pc = "load" /\ Local(t)'
    BY <1>1, <1>3, <2>1, <2>2, GotoLoadEffect DEF At
  <2>4. TypeOK'
    BY <1>1, <2>1, <2>3 DEF IInv, TypeOK, sessionVars
  <2> QED
    BY <1>1, <2>1, <2>2, <2>3, <2>4, ThreadStep
       DEF IInv, Registry, SameRefs, At, sessionVars
<1> QED
  BY <1>2, <1>3 DEF InitBegin

LEMMA InitEndStep ==
  ASSUME IInv, NEW t \in Thread, InitEnd(t)
  PROVE  IInv'
<1>1. /\ At(t, "load") /\ AfterInit(t) /\ UNCHANGED <<sessionVars, wg>>
      /\ view' = [view EXCEPT ![th[t].v].sema = Nobody]
      /\ \/ snap' = [snap EXCEPT ![th[t].s].inited = TRUE]
         \/ UNCHANGED snap
  BY DEF InitEnd
<1>2. /\ view' \in [View -> Views] /\ SameSnaps
      /\ \A v \in View : view'[v].def = view[v].def /\ view'[v].lpc = view[v].lpc
  <2>1. PICK w : w = th[t].v
    OBVIOUS
  <2> QED
    BY <1>1, <2>1, SemaEffect
<1>3. snap' \in [Snap -> Snaps] /\ SameRefs
  <2>1. PICK s : s = th[t].s
    OBVIOUS
  <2> QED
    BY <1>1, <2>1, InitedEffect DEF SameRefs
<1>4. UNCHANGED <<viewMu, views, down>>
  BY <1>1 DEF sessionVars
<1>5. /\ th' \in [Thread -> Threads] /\ \A x \in Thread \ {t} : th'[x] = th[x]
      /\ th'[t].held = th[t].held /\ th'[t].pc \notin {"create", "retire"} /\ Local(t)'
  BY <1>1, <1>2, <1>4, AfterInitEffect DEF At
<1>6. TypeOK'
  BY <1>1, <1>2, <1>3, <1>5 DEF IInv, TypeOK, sessionVars
<1> QED
  BY <1>1, <1>2, <1>3, <1>4, <1>5, <1>6, ThreadStep DEF IInv, Registry, At, sessionVars

\* The steps of createView's goroutine that release nothing.
LEMMA LoadingStep ==
  ASSUME IInv, UNCHANGED <<sessionVars, wg, th>>, SameSnaps,
         view' \in [View -> Views], snap' \in [Snap -> Snaps],
         \A v \in View : /\ view'[v].def = view[v].def
                         /\ view'[v].lpc = "none" <=> view[v].lpc = "none",
         \A s \in Snap : snap'[s].refs = snap[s].refs /\ snap'[s].of = snap[s].of
  PROVE  IInv'
<1>1. TypeOK'
  BY DEF IInv, TypeOK, sessionVars
<1>2. \A x \in Thread : Local(x)'
  <2>1. \A x \in Thread \ {Nobody} : Local(x)'
    BY OtherThreads DEF SameSnaps, sessionVars
  <2> QED
    BY <2>1, SessionAssumption
<1>3. Registry'
  <2>1. Replacing' <=> Replacing
    BY DEF Replacing
  <2> QED
    BY <2>1 DEF IInv, Registry, SameSnaps, TypeOK, Views, sessionVars
<1>4. RefsExact' /\ WaitGroupExact'
  BY SameHolders, SameWaitGroup DEF IInv, SameRefs
<1> QED
  BY <1>1, <1>2, <1>3, <1>4 DEF IInv

LEMMA LoaderSkipStep ==
  ASSUME IInv, NEW v \in View, LoaderSkip(v)
  PROVE  IInv'
<1>1. /\ view[v].lpc = "start" /\ view' = [view EXCEPT ![v].lpc = "release"]
      /\ UNCHANGED <<sessionVars, wg, snap, th>>
  BY DEF LoaderSkip
<1>2. view \in [View -> Views] /\ snap \in [Snap -> Snaps]
  BY DEF IInv, TypeOK
<1>3. \A g \in Views : LET h == [g EXCEPT !.lpc = "release"] IN
        /\ h \in Views /\ h.cur = g.cur /\ h.lsnap = g.lsnap /\ h.def = g.def
        /\ h.lpc = "release"
  BY DEF Views
<1>4. \A w \in View : view'[w] = IF w = v THEN [view[w] EXCEPT !.lpc = "release"]
                                 ELSE view[w]
  BY <1>1, <1>2
<1>5. view' \in [View -> Views]
  BY <1>1, <1>2, <1>3
<1> QED
  BY <1>1, <1>2, <1>3, <1>4, <1>5, LoadingStep DEF SameSnaps

LEMMA LoaderBeginStep ==
  ASSUME IInv, NEW v \in View, LoaderBegin(v)
  PROVE  IInv'
<1>1. /\ view[v].lpc = "start"
      /\ view' = [view EXCEPT ![v].lpc = "load", ![v].sema = Loader]
      /\ UNCHANGED <<sessionVars, wg, snap, th>>
  BY DEF LoaderBegin
<1>2. view \in [View -> Views] /\ snap \in [Snap -> Snaps]
  BY DEF IInv, TypeOK
<1>3. \A g \in Views : LET h == [g EXCEPT !.lpc = "load", !.sema = Loader] IN
        /\ h \in Views /\ h.cur = g.cur /\ h.lsnap = g.lsnap /\ h.def = g.def
        /\ h.lpc = "load"
  BY DEF Views
<1>4. \A w \in View : view'[w] = IF w = v THEN [view[w] EXCEPT !.lpc = "load",
                                                               !.sema = Loader]
                                 ELSE view[w]
  BY <1>1, <1>2
<1>5. view' \in [View -> Views]
  BY <1>1, <1>2, <1>3
<1> QED
  BY <1>1, <1>2, <1>3, <1>4, <1>5, LoadingStep DEF SameSnaps

LEMMA LoaderEndStep ==
  ASSUME IInv, NEW v \in View, LoaderEnd(v)
  PROVE  IInv'
<1>1. /\ view[v].lpc = "load"
      /\ view' = [view EXCEPT ![v].lpc = "release", ![v].sema = Nobody, ![v].iwl = TRUE]
      /\ \/ snap' = [snap EXCEPT ![view[v].lsnap].inited = TRUE]
         \/ UNCHANGED snap
      /\ UNCHANGED <<sessionVars, wg, th>>
  BY DEF LoaderEnd
<1>2. view \in [View -> Views]
  BY DEF IInv, TypeOK
<1>3. /\ snap' \in [Snap -> Snaps]
      /\ \A s \in Snap : snap'[s].refs = snap[s].refs /\ snap'[s].of = snap[s].of
  <2>1. PICK s : s = view[v].lsnap
    OBVIOUS
  <2> QED
    BY <1>1, <2>1, InitedEffect
<1>4. \A g \in Views :
        LET h == [g EXCEPT !.lpc = "release", !.sema = Nobody, !.iwl = TRUE] IN
        /\ h \in Views /\ h.cur = g.cur /\ h.lsnap = g.lsnap /\ h.def = g.def
        /\ h.lpc = "release"
  BY DEF Views
<1>5. \A w \in View :
        view'[w] = IF w = v
                   THEN [view[w] EXCEPT !.lpc = "release", !.sema = Nobody, !.iwl = TRUE]
                   ELSE view[w]
  BY <1>1, <1>2
<1>6. view' \in [View -> Views]
  BY <1>1, <1>2, <1>4
<1>7. SameSnaps /\ \A w \in View : /\ view'[w].def = view[w].def
                                    /\ view'[w].lpc = "none" <=> view[w].lpc = "none"
  <2> SUFFICES ASSUME NEW w \in View
               PROVE  /\ view'[w].cur = view[w].cur /\ view'[w].lsnap = view[w].lsnap
                      /\ view'[w].def = view[w].def
                      /\ view'[w].lpc = "none" <=> view[w].lpc = "none"
    BY DEF SameSnaps
  <2>1. CASE w = v
    BY <1>1, <1>2, <1>4, <1>5, <2>1
  <2>2. CASE w # v
    BY <1>5, <2>2
  <2> QED
    BY <2>1, <2>2
<1> QED
  BY <1>1, <1>3, <1>6, <1>7, LoadingStep

LEMMA LoaderReleaseStep ==
  ASSUME IInv, NEW v \in View, LoaderRelease(v)
  PROVE  IInv'
<1>1. /\ view[v].lpc = "release" /\ Decref(view[v].lsnap)
      /\ view' = [view EXCEPT ![v].lpc = "none", ![v].lsnap = NoSnap]
      /\ UNCHANGED <<sessionVars, th>>
  BY DEF LoaderRelease
<1>2. view \in [View -> Views]
  BY DEF IInv, TypeOK
<1>3. PICK s \in Snap : s = view[v].lsnap
  BY <1>1, <1>2 DEF IInv, Registry, Views
<1>4. snap[s].refs > 0 /\ snap[s].of = v
  BY <1>3, ReferencedAlive, SessionAssumption DEF IInv, Registry
<1>5. /\ snap' \in [Snap -> Snaps] /\ wg' \in Nat /\ WaitGroupExact'
      /\ \A x \in Snap : /\ snap'[x].of = snap[x].of
                         /\ snap'[x].refs = IF x = s THEN snap[x].refs - 1 ELSE snap[x].refs
  BY <1>1, <1>3, <1>4, DecrefEffect DEF IInv
<1>6. \A g \in Views : LET h == [g EXCEPT !.lpc = "none", !.lsnap = NoSnap] IN
        /\ h \in Views /\ h.cur = g.cur /\ h.lsnap = NoSnap /\ h.def = g.def
        /\ h.lpc = "none"
  BY DEF Views
<1>7. \A w \in View :
        view'[w] = IF w = v THEN [view[w] EXCEPT !.lpc = "none", !.lsnap = NoSnap]
                   ELSE view[w]
  BY <1>1, <1>2
<1>8. /\ view' \in [View -> Views]
      /\ \A w \in View : /\ view'[w].cur = view[w].cur /\ view'[w].def = view[w].def
                         /\ view'[w].lsnap = IF w = v THEN NoSnap ELSE view[w].lsnap
                         /\ view'[w].lpc = IF w = v THEN "none" ELSE view[w].lpc
  <2>1. view' \in [View -> Views]
    BY <1>1, <1>2, <1>6
  <2>2. ASSUME NEW w \in View, w = v
        PROVE  /\ view'[w].cur = view[w].cur /\ view'[w].def = view[w].def
               /\ view'[w].lsnap = NoSnap /\ view'[w].lpc = "none"
    <3>1. PICK g \in Views : g = view[w]
      BY <1>2
    <3>2. view'[w] = [g EXCEPT !.lpc = "none", !.lsnap = NoSnap]
      BY <1>7, <2>2, <3>1
    <3> QED
      BY <1>6, <3>1, <3>2
  <2>3. \A w \in View : w # v => view'[w] = view[w]
    BY <1>7
  <2> QED
    BY <2>1, <2>2, <2>3
<1>9. TypeOK'
  BY <1>1, <1>5, <1>8 DEF IInv, TypeOK, sessionVars
<1>10. \A x \in Thread : Local(x)'
  <2>1. ~\A x \in Snap : snap[x].refs = 0
    BY <1>4
  <2>2. \A x \in Thread \ {Nobody} : Local(x)'
    BY <1>1, <1>5, <1>8, <2>1, OtherThreads DEF sessionVars
  <2> QED
    BY <2>2, SessionAssumption
<1>11. Registry'
  <2>1. Replacing' <=> Replacing
    BY <1>1 DEF Replacing
  <2> QED
    BY <1>1, <1>5, <1>8, <2>1 DEF IInv, Registry, TypeOK, Views, sessionVars
<1>12. RefsExact'
  <2> SUFFICES ASSUME NEW x \in Snap
               PROVE  snap'[x].refs = Cardinality(Users(x)') + ViewRef(x)' + LoaderRef(x)'
    BY DEF RefsExact
  <2>1. Users(x)' = Users(x) /\ ViewRef(x)' = ViewRef(x)
    BY <1>1, <1>8 DEF Users, ViewRef
  <2>2. LoaderRef(x)' = IF x = s THEN 0 ELSE LoaderRef(x)
    <3>1. \A w \in View : view[w].lsnap = s => w = v
      BY <1>3, <1>4, SessionAssumption DEF IInv, Registry
    <3> QED
      BY <1>3, <1>8, <3>1, SessionAssumption DEF LoaderRef
  <2>3. LoaderRef(s) = 1
    BY <1>3 DEF LoaderRef
  <2>4. /\ Cardinality(Users(x)) \in Nat /\ ViewRef(x) \in Nat
        /\ snap[x].refs = Cardinality(Users(x)) + ViewRef(x) + LoaderRef(x)
    <3>1. IsFiniteSet(Users(x))
      BY SessionAssumption, FS_Subset DEF Users
    <3> QED
      BY <3>1, FS_CardinalityType DEF IInv, RefsExact, ViewRef
  <2> QED
    BY <1>5, <2>1, <2>2, <2>3, <2>4
<1> QED
  BY <1>5, <1>9, <1>10, <1>11, <1>12 DEF IInv

-----------------------------------------------------------------------------
(* Making views and shutting them down. *)

LEMMA RefTypes ==
  ASSUME NEW s \in Snap
  PROVE  Cardinality(Users(s)) \in Nat /\ ViewRef(s) \in {0, 1} /\ LoaderRef(s) \in {0, 1}
<1>1. IsFiniteSet(Users(s))
  BY SessionAssumption, FS_Subset DEF Users
<1> QED
  BY <1>1, FS_CardinalityType DEF ViewRef, LoaderRef

LEMMA CreateViewEffect ==
  ASSUME IInv, NEW v \in View, NEW s \in Snap, NEW d \in Def, NEW n \in {0, 1},
         CreateView(v, s, d, n)
  PROVE  /\ view' \in [View -> Views] /\ snap' \in [Snap -> Snaps] /\ wg' \in Nat
         /\ WaitGroupExact'
         /\ \A w \in View \ {v} : view'[w] = view[w]
         /\ view'[v].cur = s /\ view'[v].lsnap = s /\ view'[v].def = d
         /\ view'[v].lpc = "start"
         /\ \A x \in Snap \ {s} : snap'[x] = snap[x]
         /\ snap'[s].refs = 2 + n /\ snap'[s].of = v /\ snap[s].refs = 0
         /\ \A x \in Snap : /\ ViewRef(x)' = IF x = s THEN 1 ELSE ViewRef(x)
                            /\ LoaderRef(x)' = IF x = s THEN 1 ELSE LoaderRef(x)
<1>1. /\ FreshView(v) /\ FreshSnap(s)
      /\ view' = [view EXCEPT ![v] = [NewView0 EXCEPT !.def = d, !.cur = s,
                                                      !.lpc = "start", !.lsnap = s]]
      /\ snap' = [snap EXCEPT ![s] = [refs |-> 2 + n, of |-> v, inited |-> FALSE,
                                      edit |-> edits]]
      /\ wg' = wg + 1
  BY DEF CreateView
<1>2. view \in [View -> Views] /\ snap \in [Snap -> Snaps] /\ wg \in Nat /\ edits \in Nat
  BY DEF IInv, TypeOK
<1>3. PICK r \in Views :
        /\ r = [NewView0 EXCEPT !.def = d, !.cur = s, !.lpc = "start", !.lsnap = s]
        /\ r.cur = s /\ r.lsnap = s /\ r.def = d /\ r.lpc = "start"
  <2>1. PICK r : r = [NewView0 EXCEPT !.def = d, !.cur = s, !.lpc = "start", !.lsnap = s]
    OBVIOUS
  <2>2. r \in Views
    BY <2>1 DEF NewView0, Views
  <2>3. r.cur = s /\ r.lsnap = s /\ r.def = d /\ r.lpc = "start"
    BY <2>1 DEF NewView0
  <2> QED
    BY <2>1, <2>2, <2>3
<1>4. PICK e \in Nat : e = edits
  BY <1>2
<1>5. PICK q \in Snaps :
        /\ q = [refs |-> 2 + n, of |-> v, inited |-> FALSE, edit |-> e]
        /\ q.refs = 2 + n /\ q.of = v
  <2>1. PICK q : q = [refs |-> 2 + n, of |-> v, inited |-> FALSE, edit |-> e]
    OBVIOUS
  <2>2. q \in Snaps
    BY <2>1 DEF Snaps
  <2>3. q.refs = 2 + n /\ q.of = v
    BY <2>1
  <2> QED
    BY <2>1, <2>2, <2>3
<1>6. /\ view' \in [View -> Views] /\ view'[v] = r
      /\ \A w \in View \ {v} : view'[w] = view[w]
  BY <1>1, <1>2, <1>3
<1>7. /\ snap' \in [Snap -> Snaps] /\ snap'[s] = q
      /\ \A x \in Snap \ {s} : snap'[x] = snap[x]
  BY <1>1, <1>2, <1>4, <1>5
<1>8. snap[s].refs = 0 /\ \A w \in View : view[w].cur # s /\ view[w].lsnap # s
  BY <1>1 DEF FreshSnap
<1>9. view[v].cur = NoSnap /\ view[v].lsnap = NoSnap
  BY <1>1 DEF FreshView, IInv, Registry
<1>10. \A x \in Snap : /\ ViewRef(x)' = IF x = s THEN 1 ELSE ViewRef(x)
                       /\ LoaderRef(x)' = IF x = s THEN 1 ELSE LoaderRef(x)
  <2> SUFFICES ASSUME NEW x \in Snap
               PROVE  /\ ViewRef(x)' = IF x = s THEN 1 ELSE ViewRef(x)
                      /\ LoaderRef(x)' = IF x = s THEN 1 ELSE LoaderRef(x)
    OBVIOUS
  <2>1. (\E w \in View : view'[w].cur = x) <=> x = s \/ \E w \in View : view[w].cur = x
    BY <1>3, <1>6, <1>9, SessionAssumption
  <2>2. (\E w \in View : view'[w].lsnap = x) <=> x = s \/ \E w \in View : view[w].lsnap = x
    BY <1>3, <1>6, <1>9, SessionAssumption
  <2> QED
    BY <2>1, <2>2 DEF ViewRef, LoaderRef
<1>11. WaitGroupExact'
  <2> DEFINE Live == {x \in Snap : snap[x].refs > 0}
  <2>1. IsFiniteSet(Live) /\ wg = Cardinality(Live) /\ s \notin Live
    BY <1>8, SessionAssumption, FS_Subset DEF IInv, WaitGroupExact
  <2>2. Live' = Live \union {s}
    BY <1>5, <1>7
  <2>3. Cardinality(Live \union {s}) = wg + 1
    BY <2>1, FS_AddElement
  <2> QED
    BY <1>1, <2>2, <2>3 DEF WaitGroupExact
<1> QED
  BY <1>1, <1>2, <1>3, <1>5, <1>6, <1>7, <1>8, <1>10, <1>11

\* A thread makes a view, and keeps n references to its snapshot.
LEMMA CreateStep ==
  ASSUME IInv, NEW t \in Thread, NEW v \in View, NEW s \in Snap, NEW d \in Def,
         NEW n \in {0, 1}, CreateView(v, s, d, n), ~down,
         \A x \in Thread \ {t} : th[x].op \notin EditOps,
         th[t].held = {}, th'[t].held = (IF n = 1 THEN {s} ELSE {}),
         th' \in [Thread -> Threads], \A x \in Thread \ {t} : th'[x] = th[x],
         th[t].pc \in {"create", "retire"} <=> th'[t].pc \in {"create", "retire"},
         UNCHANGED <<viewMu, down, edits, done>>,
         viewMap' \in [URI -> View \union {NoView, Unset}],
         \A u \in URI : viewMap'[u] = viewMap[u] \/ viewMap'[u] = v,
         views' = views \/ views' = views \union {v},
         Local(t)'
  PROVE  IInv'
<1>1. /\ view' \in [View -> Views] /\ snap' \in [Snap -> Snaps] /\ wg' \in Nat
      /\ WaitGroupExact'
      /\ \A w \in View \ {v} : view'[w] = view[w]
      /\ view'[v].cur = s /\ view'[v].lsnap = s /\ view'[v].def = d
      /\ view'[v].lpc = "start"
      /\ \A x \in Snap \ {s} : snap'[x] = snap[x]
      /\ snap'[s].refs = 2 + n /\ snap'[s].of = v /\ snap[s].refs = 0
      /\ \A x \in Snap : /\ ViewRef(x)' = IF x = s THEN 1 ELSE ViewRef(x)
                         /\ LoaderRef(x)' = IF x = s THEN 1 ELSE LoaderRef(x)
  BY CreateViewEffect
<1>2. TypeOK'
  BY <1>1 DEF IInv, TypeOK
<1>3. \A x \in Thread : Local(x)'
  <2>1. \A x \in Snap : snap[x].refs > 0 => snap'[x].of = snap[x].of
    BY <1>1
  <2>2. \A w \in View : view[w].def \in Def => view'[w].def \in Def
    BY <1>1
  <2>3. \A x \in Thread \ {t} : Local(x)'
    BY <2>1, <2>2, OtherThreads
  <2> QED
    BY <2>3
<1>4. Registry'
  <2>1. Replacing' <=> Replacing
    BY DEF Replacing
  <2>2. \A w \in View : /\ view[w].cur # s /\ view[w].lsnap # s
                        /\ view[w].cur \in Snap \union {NoSnap}
                        /\ view[w].lsnap \in Snap \union {NoSnap}
    BY DEF CreateView, FreshSnap, IInv, TypeOK, Views
  <2>3. \A w \in View : /\ view'[w].cur # NoSnap => snap'[view'[w].cur].of = w
                        /\ view'[w].lsnap # NoSnap => snap'[view'[w].lsnap].of = w
                        /\ view'[w].lpc = "none" <=> view'[w].lsnap = NoSnap
    BY <1>1, <2>2, SessionAssumption DEF IInv, Registry
  <2>4. \A w \in View : view[w].def \in Def => view'[w].def \in Def
    BY <1>1
  <2> QED
    BY <1>1, <2>1, <2>3, <2>4, SessionAssumption DEF IInv, Registry, TypeOK
<1>5. RefsExact'
  <2> SUFFICES ASSUME NEW x \in Snap
               PROVE  snap'[x].refs = Cardinality(Users(x)') + ViewRef(x)' + LoaderRef(x)'
    BY DEF RefsExact
  <2>1. /\ snap[x].refs = Cardinality(Users(x)) + ViewRef(x) + LoaderRef(x)
        /\ Cardinality(Users(x)) \in Nat /\ ViewRef(x) \in {0, 1} /\ LoaderRef(x) \in {0, 1}
    BY RefTypes DEF IInv, RefsExact
  <2>2. Cardinality(Users(x)') = IF x \in th'[t].held THEN Cardinality(Users(x)) + 1
                                 ELSE Cardinality(Users(x))
    BY UsersChange
  <2> QED
    BY <1>1, <2>1, <2>2
<1> QED
  BY <1>1, <1>2, <1>3, <1>4, <1>5 DEF IInv

LEMMA NewViewStep ==
  ASSUME IInv, NEW t \in Thread, NEW d \in Def, NewView(t, d)
  PROVE  IInv'
<1>1. /\ At(t, "idle") /\ viewMu = Nobody /\ ~down
      /\ UNCHANGED <<viewMu, down, edits, done>>
  BY DEF NewView
<1>2. PICK v \in View, s \in Snap :
        /\ CreateView(v, s, d, 1)
        /\ views' = views \union {v}
        /\ viewMap' = [viewMap EXCEPT ![FolderOf[d]] = v]
        /\ th' = [th EXCEPT ![t] = [Idle EXCEPT !.pc = "using", !.op = "request",
                                                !.held = {s}, !.began = done]]
  BY DEF NewView
<1>3. th' \in [Thread -> Threads]
  <2>1. PICK n \in Nat : n = done
    BY DEF IInv, TypeOK
  <2>2. [Idle EXCEPT !.pc = "using", !.op = "request", !.held = {s}, !.began = n]
          \in Threads
    BY DEF Idle, Threads, PCs, Ops
  <2> QED
    BY <1>2, <2>1, <2>2, ThreadsTyped
<1>4. /\ \A x \in Thread \ {t} : th'[x] = th[x]
      /\ th'[t].held = {s} /\ th'[t].pc = "using" /\ th'[t].op = "request"
      /\ th'[t].keep = {}
  BY <1>2, ThreadsTyped DEF Idle
<1>5. Local(t)'
  BY <1>4 DEF Local, Control, Holds, Locks, Visits, Editing, EditOps, At
<1>6. \A x \in Thread : th[x].op \notin EditOps
  BY <1>1, SessionAssumption DEF IInv, Local, Locks
<1>7. /\ viewMap' \in [URI -> View \union {NoView, Unset}]
      /\ \A u \in URI : viewMap'[u] = viewMap[u] \/ viewMap'[u] = v
  BY <1>2 DEF IInv, TypeOK
<1> QED
  BY <1>1, <1>2, <1>3, <1>4, <1>5, <1>6, <1>7, IdleHoldsNothing, CreateStep DEF At

\* The thread that edits views is the only one.
LEMMA OneEditor ==
  ASSUME IInv, NEW t \in Thread, th[t].op \in EditOps
  PROVE  viewMu = t /\ ~down /\ \A x \in Thread \ {t} : th[x].op \notin EditOps
BY DEF IInv, Local, Locks

LEMMA CreateNextStep ==
  ASSUME IInv, NEW t \in Thread, CreateNext(t)
  PROVE  IInv'
<1>1. At(t, "create") /\ UNCHANGED sessionVars
  BY DEF CreateNext
<1>2. th[t].op \in EditOps /\ th[t].held = {} /\ th[t] \in Threads /\ Local(t)
  BY <1>1, ThreadsTyped DEF IInv, Threads, Ops, Local, Control, Holds, EditOps, At
<1>3. CASE Goto(t, "retire") /\ UNCHANGED <<wg, view, snap>>
  <2>1. /\ th' \in [Thread -> Threads] /\ \A x \in Thread \ {t} : th'[x] = th[x]
        /\ th'[t] = [th[t] EXCEPT !.pc = "retire"]
    <3>1. PICK g \in Threads : g = th[t]
      BY ThreadsTyped
    <3>2. [g EXCEPT !.pc = "retire"] \in Threads
      BY DEF Threads, PCs
    <3> QED
      BY <1>3, <3>1, <3>2, ThreadsTyped DEF Goto
  <2>2. /\ th'[t].held = th[t].held /\ th'[t].pc = "retire" /\ th'[t].op = th[t].op
        /\ th'[t].keep = th[t].keep /\ th'[t].todo = th[t].todo
    BY <1>2, <2>1 DEF Threads
  <2>3. Local(t)'
    BY <1>1, <1>2, <1>3, <2>2
       DEF Local, Control, Holds, Locks, Visits, Editing, EditOps, At, sessionVars
  <2> QED
    BY <1>1, <1>3, <2>1, <2>2, <2>3, ThreadOnly DEF At
<1>4. ASSUME NEW d \in th[t].defs, NEW v \in View, NEW s \in Snap, CreateView(v, s, d, 0),
             th' = [th EXCEPT ![t].defs = @ \ {d}, ![t].keep = @ \union {v}]
      PROVE  IInv'
  <2>1. d \in Def
    BY <1>2, <1>4 DEF Threads
  <2>2. /\ th' \in [Thread -> Threads] /\ \A x \in Thread \ {t} : th'[x] = th[x]
        /\ th'[t] = [th[t] EXCEPT !.defs = @ \ {d}, !.keep = @ \union {v}]
    <3>1. PICK g \in Threads : g = th[t]
      BY ThreadsTyped
    <3>2. [g EXCEPT !.defs = @ \ {d}, !.keep = @ \union {v}] \in Threads
      BY DEF Threads
    <3> QED
      BY <1>4, <3>1, <3>2, ThreadsTyped
  <2>3. /\ th'[t].held = {} /\ th'[t].pc = "create" /\ th'[t].op = th[t].op
        /\ th'[t].keep = th[t].keep \union {v} /\ th'[t].todo = th[t].todo
    BY <1>1, <1>2, <2>2 DEF Threads, At
  <2>4. /\ view'[v].cur = s /\ view'[v].def = d
        /\ \A w \in View \ {v} : view'[w] = view[w]
    BY <1>4, <2>1, CreateViewEffect
  <2>5. v \notin th[t].todo
    BY <1>4 DEF CreateView, FreshView
  <2>6. Control(t)' /\ Holds(t)' /\ Locks(t)'
    BY <1>1, <1>2, <2>3 DEF Local, Control, Holds, Locks, EditOps, At, sessionVars
  <2>7. Visits(t)'
    BY <1>1, <1>2, <2>1, <2>3, <2>4, <2>5, SessionAssumption
       DEF Local, Visits, Editing, At, Threads
  <2>8. viewMap' = viewMap /\ viewMap \in [URI -> View \union {NoView, Unset}]
    BY <1>1 DEF sessionVars, IInv, TypeOK
  <2> QED
    BY <1>1, <1>2, <1>4, <2>1, <2>2, <2>3, <2>6, <2>7, <2>8, OneEditor, CreateStep
       DEF Local, At, sessionVars
<1> QED
  BY <1>3, <1>4 DEF CreateNext

LEMMA ShutdownViewEffect ==
  ASSUME IInv, NEW v \in View, ShutdownView(v)
  PROVE  /\ view' \in [View -> Views] /\ snap' \in [Snap -> Snaps] /\ wg' \in Nat
         /\ WaitGroupExact'
         /\ \A w \in View \ {v} : view'[w] = view[w]
         /\ view'[v].cur = NoSnap /\ view'[v].def = view[v].def
         /\ view'[v].lsnap = view[v].lsnap /\ view'[v].lpc = view[v].lpc
         /\ \A x \in Snap : /\ snap'[x].of = snap[x].of
                            /\ snap'[x].refs = snap[x].refs - (IF view[v].cur = x THEN 1 ELSE 0)
                            /\ ViewRef(x)' = IF view[v].cur = x THEN 0 ELSE ViewRef(x)
                            /\ view[v].cur = x => ViewRef(x) = 1 /\ snap[x].refs > 0
                            /\ LoaderRef(x)' = LoaderRef(x)
<1>1. view \in [View -> Views] /\ snap \in [Snap -> Snaps] /\ wg \in Nat
  BY DEF IInv, TypeOK
<1>2. PICK g \in Views : g = view[v]
  BY <1>1
<1>3. view' = [view EXCEPT ![v] = [g EXCEPT !.stopped = TRUE, !.cur = NoSnap]]
  BY <1>1, <1>2 DEF ShutdownView
<1>4. PICK r \in Views :
        /\ r = [g EXCEPT !.stopped = TRUE, !.cur = NoSnap]
        /\ r.cur = NoSnap /\ r.def = g.def /\ r.lsnap = g.lsnap /\ r.lpc = g.lpc
  <2>1. PICK r : r = [g EXCEPT !.stopped = TRUE, !.cur = NoSnap]
    OBVIOUS
  <2>2. r \in Views
    BY <2>1 DEF Views
  <2>3. r.cur = NoSnap /\ r.def = g.def /\ r.lsnap = g.lsnap /\ r.lpc = g.lpc
    BY <2>1 DEF Views
  <2> QED
    BY <2>1, <2>2, <2>3
<1>5. /\ view' \in [View -> Views] /\ view'[v] = r
      /\ \A w \in View \ {v} : view'[w] = view[w]
  BY <1>1, <1>3, <1>4
<1>6. \A x \in Snap : /\ ViewRef(x)' = IF view[v].cur = x THEN 0 ELSE ViewRef(x)
                      /\ view[v].cur = x => ViewRef(x) = 1 /\ snap[x].refs > 0
                      /\ LoaderRef(x)' = LoaderRef(x)
  <2> SUFFICES ASSUME NEW x \in Snap
               PROVE  /\ ViewRef(x)' = IF view[v].cur = x THEN 0 ELSE ViewRef(x)
                      /\ view[v].cur = x => ViewRef(x) = 1 /\ snap[x].refs > 0
                      /\ LoaderRef(x)' = LoaderRef(x)
    OBVIOUS
  <2>1. LoaderRef(x)' = LoaderRef(x)
    <3>1. ASSUME NEW w \in View PROVE view'[w].lsnap = view[w].lsnap
      BY <1>2, <1>4, <1>5
    <3> QED
      BY <3>1 DEF LoaderRef
  <2>2. CASE view[v].cur = x
    <3>1. \A w \in View : view[w].cur = x => w = v
      BY <2>2, SessionAssumption DEF IInv, Registry
    <3>2. ViewRef(x)' = 0
      BY <1>4, <1>5, <3>1, SessionAssumption DEF ViewRef
    <3>3. ViewRef(x) = 1 /\ snap[x].refs > 0
      BY <2>2, ReferencedAlive DEF IInv, ViewRef
    <3> QED
      BY <2>1, <2>2, <3>2, <3>3
  <2>3. CASE view[v].cur # x
    <3>1. ViewRef(x)' = ViewRef(x)
      BY <1>4, <1>5, <2>3, SessionAssumption DEF ViewRef
    <3> QED
      BY <2>1, <2>3, <3>1
  <2> QED
    BY <2>2, <2>3
<1>7. /\ snap' \in [Snap -> Snaps] /\ wg' \in Nat /\ WaitGroupExact'
      /\ \A x \in Snap : /\ snap'[x].of = snap[x].of
                         /\ snap'[x].refs = snap[x].refs - (IF view[v].cur = x THEN 1 ELSE 0)
  <2>1. CASE view[v].cur = NoSnap
    <3>1. UNCHANGED <<snap, wg>>
      BY <2>1 DEF ShutdownView
    <3>2. WaitGroupExact'
      BY <3>1, SameWaitGroup DEF IInv, SameRefs
    <3> QED
      BY <1>1, <2>1, <3>1, <3>2, SessionAssumption DEF Snaps
  <2>2. CASE view[v].cur # NoSnap
    <3>1. PICK s \in Snap : s = view[v].cur
      BY <1>1, <2>2 DEF Views
    <3>2. Decref(s) /\ snap[s].refs > 0
      BY <1>6, <2>2, <3>1 DEF ShutdownView
    <3>3. \A x \in Snap : snap[x].refs \in Nat
      BY <1>1 DEF Snaps
    <3> QED
      BY <3>1, <3>2, <3>3, DecrefEffect DEF IInv
  <2> QED
    BY <2>1, <2>2
<1> QED
  BY <1>2, <1>4, <1>5, <1>6, <1>7

\* A thread shuts down a view that it replaces, or that is active no more.
LEMMA ShutdownStep ==
  ASSUME IInv, NEW t \in Thread, NEW v \in View, ShutdownView(v),
         th' \in [Thread -> Threads], \A x \in Thread \ {t} : th'[x] = th[x],
         th'[t].held = th[t].held, UNCHANGED sessionVars,
         th[t].pc \in {"create", "retire"} <=> th'[t].pc \in {"create", "retire"},
         \A x \in Thread \ {t} : th[x].op \notin EditOps,
         v \notin views \/ Replacing,
         (\A w \in View : /\ view'[w].def = view[w].def
                          /\ w # v => view'[w].cur = view[w].cur)
             => Local(t)'
  PROVE  IInv'
<1>1. /\ view' \in [View -> Views] /\ snap' \in [Snap -> Snaps] /\ wg' \in Nat
      /\ WaitGroupExact'
      /\ \A w \in View \ {v} : view'[w] = view[w]
      /\ view'[v].cur = NoSnap /\ view'[v].def = view[v].def
      /\ view'[v].lsnap = view[v].lsnap /\ view'[v].lpc = view[v].lpc
      /\ \A x \in Snap : /\ snap'[x].of = snap[x].of
                         /\ snap'[x].refs = snap[x].refs - (IF view[v].cur = x THEN 1 ELSE 0)
                         /\ ViewRef(x)' = IF view[v].cur = x THEN 0 ELSE ViewRef(x)
                         /\ view[v].cur = x => ViewRef(x) = 1 /\ snap[x].refs > 0
                         /\ LoaderRef(x)' = LoaderRef(x)
  BY ShutdownViewEffect
<1>2. \A w \in View : /\ view'[w].def = view[w].def /\ view'[w].lsnap = view[w].lsnap
                      /\ view'[w].lpc = view[w].lpc
                      /\ w # v => view'[w].cur = view[w].cur
  BY <1>1
<1>3. TypeOK'
  BY <1>1 DEF IInv, TypeOK, sessionVars
<1>4. \A x \in Thread : Local(x)'
  <2>1. \A x \in Snap : snap[x].refs = 0 => snap'[x].refs = 0
    BY <1>1 DEF IInv, TypeOK, Snaps
  <2>2. \A x \in Thread \ {t} : Local(x)'
    BY <1>1, <1>2, <2>1, OtherThreads DEF sessionVars
  <2> QED
    BY <1>2, <2>2
<1>5. Registry'
  <2>1. Replacing' <=> Replacing
    BY DEF Replacing
  <2>2. \A w \in View : view'[w].cur # NoSnap => snap'[view'[w].cur].of = w
    BY <1>1, <1>2 DEF IInv, Registry, TypeOK, Views
  <2>3. \A w \in View : view'[w].lsnap # NoSnap => snap'[view'[w].lsnap].of = w
    BY <1>1, <1>2 DEF IInv, Registry, TypeOK, Views
  <2>4. ~Replacing => \A w \in views : view'[w].cur # NoSnap
    BY <1>2 DEF IInv, Registry, TypeOK
  <2> QED
    BY <1>2, <2>1, <2>2, <2>3, <2>4 DEF IInv, Registry, TypeOK, sessionVars
<1>6. RefsExact'
  <2> SUFFICES ASSUME NEW x \in Snap
               PROVE  snap'[x].refs = Cardinality(Users(x)') + ViewRef(x)' + LoaderRef(x)'
    BY DEF RefsExact
  <2>1. /\ snap[x].refs = Cardinality(Users(x)) + ViewRef(x) + LoaderRef(x)
        /\ Cardinality(Users(x)) \in Nat /\ ViewRef(x) \in {0, 1} /\ LoaderRef(x) \in {0, 1}
    BY RefTypes DEF IInv, RefsExact
  <2>2. Users(x)' = Users(x)
    BY DEF Users
  <2>3. /\ snap'[x].refs = snap[x].refs - (IF view[v].cur = x THEN 1 ELSE 0)
        /\ ViewRef(x)' = IF view[v].cur = x THEN 0 ELSE ViewRef(x)
        /\ view[v].cur = x => ViewRef(x) = 1
        /\ LoaderRef(x)' = LoaderRef(x)
    BY <1>1
  <2> QED
    BY <2>1, <2>2, <2>3
<1> QED
  BY <1>1, <1>3, <1>4, <1>5, <1>6 DEF IInv

LEMMA RetireStep ==
  ASSUME IInv, NEW t \in Thread, Retire(t)
  PROVE  IInv'
<1>1. At(t, "retire") /\ UNCHANGED sessionVars
  BY DEF Retire
<1>2. th[t].op \in EditOps /\ th[t].held = {} /\ th[t] \in Threads /\ Local(t)
  BY <1>1, ThreadsTyped DEF IInv, Threads, Ops, Local, Control, Holds, EditOps, At
<1>3. PICK v \in th[t].todo : ShutdownView(v) /\ th' = [th EXCEPT ![t].todo = @ \ {v}]
  BY DEF Retire
<1>4. v \in View
  BY <1>2, <1>3 DEF Threads
<1>5. th' \in [Thread -> Threads] /\ \A x \in Thread \ {t} : th'[x] = th[x]
  BY <1>3, ThreadsTyped DEF Threads
<1>6. /\ th'[t].held = {} /\ th'[t].pc = "retire" /\ th'[t].op = th[t].op
      /\ th'[t].keep = th[t].keep /\ th'[t].todo = th[t].todo \ {v}
  BY <1>1, <1>2, <1>3, ThreadsTyped DEF Threads, At
<1>7. ASSUME \A w \in View : /\ view'[w].def = view[w].def
                             /\ w # v => view'[w].cur = view[w].cur
      PROVE  Local(t)'
  <2>1. Control(t)' /\ Holds(t)' /\ Locks(t)'
    BY <1>1, <1>2, <1>6 DEF Local, Control, Holds, Locks, EditOps, At, sessionVars
  <2>2. th[t].keep \subseteq View /\ v \notin th[t].keep
    BY <1>1, <1>2, <1>3 DEF Threads, Local, Visits, At
  <2>3. Visits(t)'
    BY <1>1, <1>2, <1>6, <1>7, <2>2 DEF Local, Visits, Editing, At
  <2> QED
    BY <2>1, <2>3 DEF Local
<1> QED
  BY <1>1, <1>2, <1>3, <1>4, <1>5, <1>6, <1>7, OneEditor, ShutdownStep
     DEF At, Replacing

LEMMA StopNextStep ==
  ASSUME IInv, NEW t \in Thread, StopNext(t)
  PROVE  IInv'
<1>1. At(t, "stop") /\ UNCHANGED sessionVars
  BY DEF StopNext
<1>2. th[t].op = "shutdown" /\ th[t].held = {} /\ th[t] \in Threads /\ Local(t)
  BY <1>1, ThreadsTyped DEF IInv, Threads, Ops, Local, Control, Holds, At
<1>3. down /\ views = {} /\ \A x \in Thread : th[x].op \notin EditOps
  BY <1>2 DEF IInv, Registry, Local, Locks
<1>4. CASE Goto(t, "drain") /\ UNCHANGED <<wg, view, snap>>
  <2>1. /\ th' \in [Thread -> Threads] /\ \A x \in Thread \ {t} : th'[x] = th[x]
        /\ th'[t] = [th[t] EXCEPT !.pc = "drain"]
    <3>1. PICK g \in Threads : g = th[t]
      BY ThreadsTyped
    <3>2. [g EXCEPT !.pc = "drain"] \in Threads
      BY DEF Threads, PCs
    <3> QED
      BY <1>4, <3>1, <3>2, ThreadsTyped DEF Goto
  <2>2. /\ th'[t].held = {} /\ th'[t].pc = "drain" /\ th'[t].op = "shutdown"
        /\ th'[t].keep = th[t].keep
    BY <1>2, <2>1 DEF Threads
  <2>3. Local(t)'
    BY <1>1, <1>2, <1>3, <1>4, <2>2
       DEF Local, Control, Holds, Locks, Visits, Editing, EditOps, At, sessionVars
  <2> QED
    BY <1>1, <1>2, <1>4, <2>1, <2>2, <2>3, ThreadOnly DEF At
<1>5. ASSUME NEW v \in th[t].todo, ShutdownView(v), th' = [th EXCEPT ![t].todo = @ \ {v}]
      PROVE  IInv'
  <2>1. v \in View /\ v \notin views
    BY <1>2, <1>3, <1>5 DEF Threads
  <2>2. th' \in [Thread -> Threads] /\ \A x \in Thread \ {t} : th'[x] = th[x]
    BY <1>5, ThreadsTyped DEF Threads
  <2>3. /\ th'[t].held = {} /\ th'[t].pc = "stop" /\ th'[t].op = "shutdown"
        /\ th'[t].keep = th[t].keep
    BY <1>1, <1>2, <1>5, ThreadsTyped DEF Threads, At
  <2>4. ASSUME \A w \in View : view'[w].def = view[w].def
        PROVE  Local(t)'
    <3>1. th[t].keep \subseteq View
      BY <1>2 DEF Threads
    <3> QED
      BY <1>1, <1>2, <1>3, <2>3, <2>4, <3>1
         DEF Local, Control, Holds, Locks, Visits, Editing, EditOps, At, sessionVars
  <2> QED
    BY <1>1, <1>2, <1>3, <1>5, <2>1, <2>2, <2>3, <2>4, ShutdownStep DEF At
<1> QED
  BY <1>4, <1>5 DEF StopNext

-----------------------------------------------------------------------------
(* The steps of the calls that edit views. *)

\* The frame of a step of the only editor that changes no view and no snapshot.
LEMMA EditStep ==
  ASSUME IInv, NEW t \in Thread, ~down, \A x \in Thread \ {t} : th[x].op \notin EditOps,
         UNCHANGED <<down, wg, view, snap>>,
         TypeOK', \A x \in Thread \ {t} : th'[x] = th[x], th'[t].held = th[t].held,
         \A v \in views' : view[v].def \in Def,
         \A u \in URI : viewMap'[u] \in View => view[viewMap'[u]].def \in Def,
         th'[t].pc \in {"create", "retire"} \/ \A v \in views' : view[v].cur # NoSnap,
         Local(t)'
  PROVE  IInv'
<1>1. \A x \in Thread : Local(x)'
  BY OtherThreads
<1>2. Registry'
  <2>1. ~Replacing' => \A v \in views' : view[v].cur # NoSnap
    BY DEF Replacing
  <2> QED
    BY <2>1 DEF IInv, Registry
<1>3. RefsExact'
  BY SameHolders DEF IInv, SameRefs, SameSnaps
<1>4. WaitGroupExact'
  BY SameWaitGroup DEF IInv, SameRefs
<1> QED
  BY <1>1, <1>2, <1>3, <1>4 DEF IInv

\* While viewMu is free nobody edits, and every active view has a snapshot.
LEMMA NoEditor ==
  ASSUME IInv, viewMu = Nobody
  PROVE  /\ \A x \in Thread : th[x].op \notin EditOps
         /\ \A v \in views : view[v].def \in Def /\ view[v].cur # NoSnap
<1>1. \A x \in Thread : th[x].op \notin EditOps
  BY SessionAssumption DEF IInv, Local, Locks
<1>2. ~Replacing
  BY <1>1, ThreadsTyped
     DEF Replacing, IInv, Local, Control, EditOps, Threads, Ops, At
<1> QED
  BY <1>1, <1>2 DEF IInv, Registry

\* So it is for the editor while it does not replace views.
LEMMA EditorAtRest ==
  ASSUME IInv, NEW t \in Thread, th[t].op \in EditOps, th[t].pc \notin {"create", "retire"}
  PROVE  \A v \in views : view[v].def \in Def /\ view[v].cur # NoSnap
<1>1. ~Replacing
  BY OneEditor, ThreadsTyped
     DEF Replacing, IInv, Local, Control, EditOps, Threads, Ops, At
<1> QED
  BY <1>1 DEF IInv, Registry

LEMMA RemoveViewStep ==
  ASSUME IInv, NEW t \in Thread, NEW f \in Folder, RemoveView(t, f)
  PROVE  IInv'
<1> DEFINE gone == {v \in views : FolderOf[view[v].def] = f}
<1>1. /\ At(t, "idle") /\ viewMu = Nobody /\ ~down /\ viewMu' = t
      /\ UNCHANGED <<views, viewMap, down, edits, done, wg, view, snap>>
      /\ th' = [th EXCEPT ![t] = [Idle EXCEPT !.pc = "retire", !.op = "remove",
                                              !.todo = gone, !.keep = views \ gone]]
  BY DEF RemoveView
<1>2. views \subseteq View /\ gone \subseteq View
  BY DEF IInv, TypeOK
<1>3. [Idle EXCEPT !.pc = "retire", !.op = "remove", !.todo = gone, !.keep = views \ gone]
        \in Threads
  <2>1. PICK vs \in SUBSET View, ws \in SUBSET View : vs = gone /\ ws = views \ gone
    BY <1>2
  <2>2. [Idle EXCEPT !.pc = "retire", !.op = "remove", !.todo = vs, !.keep = ws] \in Threads
    BY DEF Idle, Threads, PCs, Ops
  <2> QED
    BY <2>1, <2>2
<1>4. /\ th' \in [Thread -> Threads] /\ \A x \in Thread \ {t} : th'[x] = th[x]
      /\ th'[t].held = {} /\ th'[t].pc = "retire" /\ th'[t].op = "remove"
      /\ th'[t].todo = gone /\ th'[t].keep = views \ gone
  BY <1>1, <1>3, ThreadsTyped DEF Idle
<1>5. Local(t)'
  BY <1>1, <1>4, NoEditor
     DEF Local, Control, Holds, Locks, Visits, Editing, EditOps, At
<1>6. TypeOK'
  BY <1>1, <1>4 DEF IInv, TypeOK
<1> QED
  BY <1>1, <1>4, <1>5, <1>6, NoEditor, IdleHoldsNothing, EditStep DEF IInv, Registry

LEMMA ResetViewStep ==
  ASSUME IInv, NEW t \in Thread, NEW u \in File, ResetView(t, u)
  PROVE  IInv'
<1>1. /\ At(t, "idle") /\ viewMu = Nobody /\ ~down
      /\ UNCHANGED <<views, down, edits, done, wg, view, snap>>
  BY DEF ResetView
<1>2. PICK v \in Best(u) :
        /\ viewMap' = [viewMap EXCEPT ![u] = v]
        /\ \/ v = NoView /\ UNCHANGED <<viewMu, th>>
           \/ /\ v # NoView
              /\ viewMu' = t
              /\ th' = [th EXCEPT ![t] = [Idle EXCEPT !.pc = "create", !.op = "reset",
                           !.defs = {view[v].def}, !.todo = {v}, !.keep = views \ {v}]]
  BY DEF ResetView
<1>3. v = NoView \/ (v \in View /\ view[v].def \in Def)
  BY BestIsView
<1>4. \A w \in URI : viewMap'[w] \in View => view[viewMap'[w]].def \in Def
  BY <1>2, <1>3, SessionAssumption DEF IInv, TypeOK, Registry
<1>5. viewMap' \in [URI -> View \union {NoView, Unset}]
  BY <1>2, <1>3 DEF IInv, TypeOK
<1>6. CASE v = NoView /\ UNCHANGED <<viewMu, th>>
  <2>1. Local(t)'
    BY <1>1, <1>6 DEF IInv, Local, Control, Holds, Locks, Visits, Editing, At
  <2>2. TypeOK'
    BY <1>1, <1>5, <1>6 DEF IInv, TypeOK
  <2> QED
    BY <1>1, <1>4, <1>6, <2>1, <2>2, NoEditor, EditStep
<1>7. CASE /\ v # NoView
           /\ viewMu' = t
           /\ th' = [th EXCEPT ![t] = [Idle EXCEPT !.pc = "create", !.op = "reset",
                        !.defs = {view[v].def}, !.todo = {v}, !.keep = views \ {v}]]
  <2>1. PICK ds \in SUBSET Def, ws \in SUBSET View : ds = {view[v].def} /\ ws = views \ {v}
    BY <1>3, <1>7 DEF IInv, TypeOK
  <2>2. [Idle EXCEPT !.pc = "create", !.op = "reset", !.defs = ds, !.todo = {v}, !.keep = ws]
          \in Threads
    BY <1>3, <1>7 DEF Idle, Threads, PCs, Ops
  <2>3. /\ th' \in [Thread -> Threads] /\ \A x \in Thread \ {t} : th'[x] = th[x]
        /\ th'[t].held = {} /\ th'[t].pc = "create" /\ th'[t].op = "reset"
        /\ th'[t].todo = {v} /\ th'[t].keep = views \ {v}
    BY <1>7, <2>1, <2>2, ThreadsTyped DEF Idle
  <2>4. Local(t)'
    BY <1>1, <1>7, <2>3, NoEditor
       DEF Local, Control, Holds, Locks, Visits, Editing, EditOps, At
  <2>5. TypeOK'
    BY <1>1, <1>5, <1>7, <2>3 DEF IInv, TypeOK
  <2> QED
    BY <1>1, <1>4, <2>3, <2>4, <2>5, NoEditor, IdleHoldsNothing, EditStep
<1> QED
  BY <1>2, <1>6, <1>7

LEMMA DidModifyFilesStep ==
  ASSUME IInv, NEW t \in Thread, DidModifyFiles(t)
  PROVE  IInv'
<1> DEFINE Same(ds) == {v \in views : view[v].def \in ds}
<1>1. /\ At(t, "idle") /\ viewMu = Nobody /\ ~down /\ viewMu' = t /\ edits' = edits + 1
      /\ UNCHANGED <<views, viewMap, down, done, wg, view, snap>>
  BY DEF DidModifyFiles
<1>2. CASE th' = [th EXCEPT ![t] = [Idle EXCEPT !.pc = "assoc", !.op = "modify"]]
  <2>1. [Idle EXCEPT !.pc = "assoc", !.op = "modify"] \in Threads
    BY DEF Idle, Threads, PCs, Ops
  <2>2. /\ th' \in [Thread -> Threads] /\ \A x \in Thread \ {t} : th'[x] = th[x]
        /\ th'[t].held = {} /\ th'[t].pc = "assoc" /\ th'[t].op = "modify"
        /\ th'[t].keep = {}
    BY <1>2, <2>1, ThreadsTyped DEF Idle
  <2>3. Local(t)'
    BY <1>1, <2>2 DEF Local, Control, Holds, Locks, Visits, Editing, EditOps, At
  <2>4. TypeOK'
    BY <1>1, <2>2 DEF IInv, TypeOK
  <2> QED
    BY <1>1, <2>2, <2>3, <2>4, NoEditor, IdleHoldsNothing, EditStep DEF IInv, Registry
<1>3. ASSUME NEW ds \in SUBSET Def, NEW same \in SUBSET views,
             th' = [th EXCEPT ![t] = [Idle EXCEPT
                       !.pc = "create", !.op = "modify",
                       !.defs = ds \ {view[v].def : v \in same},
                       !.todo = views \ same, !.keep = same]]
      PROVE  IInv'
  <2>1. PICK es \in SUBSET Def, vs \in SUBSET View, ws \in SUBSET View :
           es = ds \ {view[v].def : v \in same} /\ vs = views \ same /\ ws = same
    BY DEF IInv, TypeOK
  <2>2. [Idle EXCEPT !.pc = "create", !.op = "modify", !.defs = es, !.todo = vs, !.keep = ws]
          \in Threads
    BY DEF Idle, Threads, PCs, Ops
  <2>3. /\ th' \in [Thread -> Threads] /\ \A x \in Thread \ {t} : th'[x] = th[x]
        /\ th'[t].held = {} /\ th'[t].pc = "create" /\ th'[t].op = "modify"
        /\ th'[t].todo = views \ same /\ th'[t].keep = same
    BY <1>3, <2>1, <2>2, ThreadsTyped DEF Idle
  <2>4. Local(t)'
    BY <1>1, <2>3, NoEditor
       DEF Local, Control, Holds, Locks, Visits, Editing, EditOps, At
  <2>5. TypeOK'
    BY <1>1, <2>3 DEF IInv, TypeOK
  <2> QED
    BY <1>1, <2>3, <2>4, <2>5, NoEditor, IdleHoldsNothing, EditStep DEF IInv, Registry
<1>4. ASSUME NEW ds \in SUBSET Def,
             th' = [th EXCEPT ![t] = [Idle EXCEPT
                       !.pc = "create", !.op = "modify",
                       !.defs = ds \ {view[v].def : v \in Same(ds)},
                       !.todo = views \ Same(ds), !.keep = Same(ds)]]
      PROVE  IInv'
  <2>1. Same(ds) \in SUBSET views
    OBVIOUS
  <2> HIDE DEF Same
  <2> QED
    BY <1>3, <1>4, <2>1
<1> QED
  BY <1>2, <1>4 DEF DidModifyFiles

LEMMA InvalidateViewStep ==
  ASSUME IInv, NEW t \in Thread, InvalidateView(t)
  PROVE  IInv'
<1>1. /\ At(t, "idle") /\ viewMu = Nobody /\ viewMu' = t
      /\ UNCHANGED <<views, viewMap, down, edits, done, wg, view, snap>>
  BY DEF InvalidateView
<1>2. PICK v \in views :
        th' = [th EXCEPT ![t] = [Idle EXCEPT !.pc = "await", !.op = "invalidate",
                                             !.v = v, !.s = view[v].cur, !.began = done]]
  BY DEF InvalidateView
<1>3. ~down /\ v \in View /\ view[v].cur # NoSnap
  BY <1>1, NoEditor DEF IInv, TypeOK, Registry
<1>4. PICK s \in Snap, n \in Nat : s = view[v].cur /\ n = done
  BY <1>3 DEF IInv, TypeOK, Views
<1>5. [Idle EXCEPT !.pc = "await", !.op = "invalidate", !.v = v, !.s = s, !.began = n]
        \in Threads
  BY <1>3 DEF Idle, Threads, PCs, Ops
<1>6. /\ th' \in [Thread -> Threads] /\ \A x \in Thread \ {t} : th'[x] = th[x]
      /\ th'[t].held = {} /\ th'[t].pc = "await" /\ th'[t].op = "invalidate"
      /\ th'[t].keep = {} /\ th'[t].v = v /\ th'[t].s = s
  BY <1>2, <1>4, <1>5, ThreadsTyped DEF Idle
<1>7. Local(t)'
  BY <1>1, <1>3, <1>4, <1>6
     DEF Local, Control, Holds, Locks, Visits, Editing, EditOps, At
<1>8. TypeOK'
  BY <1>1, <1>6 DEF IInv, TypeOK
<1> QED
  BY <1>1, <1>3, <1>6, <1>7, <1>8, NoEditor, IdleHoldsNothing, EditStep DEF IInv, Registry

LEMMA CommitStep ==
  ASSUME IInv, NEW t \in Thread, Commit(t)
  PROVE  IInv'
<1>1. /\ At(t, "retire") /\ views' = th[t].keep /\ viewMap' = [u \in URI |-> Unset]
      /\ UNCHANGED <<down, edits, done, wg, view, snap>>
  BY DEF Commit
<1>2. /\ th[t].op \in EditOps /\ th[t].held = {} /\ th[t] \in Threads /\ Local(t)
      /\ ~down /\ viewMu = t
  BY <1>1, ThreadsTyped, OneEditor
     DEF IInv, Threads, Ops, Local, Control, Holds, EditOps, At
<1>3. /\ \A v \in views' : view[v].def \in Def /\ view[v].cur # NoSnap
      /\ \A u \in URI : viewMap'[u] \in View => view[viewMap'[u]].def \in Def
  BY <1>1, <1>2, SessionAssumption DEF Local, Visits, At
<1>4. /\ views' \subseteq View /\ viewMap' \in [URI -> View \union {NoView, Unset}]
  BY <1>1, <1>2 DEF Threads
<1>5. CASE Editing(t) /\ Goto(t, "assoc") /\ UNCHANGED viewMu
  <2>1. /\ th' \in [Thread -> Threads] /\ \A x \in Thread \ {t} : th'[x] = th[x]
        /\ th'[t] = [th[t] EXCEPT !.pc = "assoc"]
    <3>1. PICK g \in Threads : g = th[t]
      BY ThreadsTyped
    <3>2. [g EXCEPT !.pc = "assoc"] \in Threads
      BY DEF Threads, PCs
    <3> QED
      BY <1>5, <3>1, <3>2, ThreadsTyped DEF Goto
  <2>2. /\ th'[t].held = {} /\ th'[t].pc = "assoc" /\ th'[t].op = th[t].op
        /\ th'[t].keep = th[t].keep
    BY <1>2, <2>1 DEF Threads
  <2>3. th[t].op = "modify"
    BY <1>1, <1>2, <1>5 DEF Editing, Local, Control, At
  <2>4. Local(t)'
    BY <1>1, <1>2, <1>3, <1>5, <2>2, <2>3
       DEF Local, Control, Holds, Locks, Visits, Editing, EditOps, At
  <2>5. TypeOK'
    BY <1>1, <1>4, <1>5, <2>1 DEF IInv, TypeOK
  <2> QED
    BY <1>1, <1>2, <1>3, <2>1, <2>2, <2>4, <2>5, OneEditor, EditStep
<1>6. CASE Return(t) /\ viewMu' = Nobody
  <2>1. /\ th' \in [Thread -> Threads] /\ \A x \in Thread \ {t} : th'[x] = th[x]
        /\ th'[t].held = {} /\ th'[t].pc = "idle" /\ Local(t)'
    BY <1>6, ReturnEffect DEF IInv
  <2>2. TypeOK'
    BY <1>1, <1>4, <1>6, <2>1 DEF IInv, TypeOK
  <2> QED
    BY <1>1, <1>2, <1>3, <2>1, <2>2, OneEditor, EditStep
<1> QED
  BY <1>5, <1>6 DEF Commit

LEMMA AssociateStep ==
  ASSUME IInv, NEW t \in Thread, Associate(t)
  PROVE  IInv'
<1>1. /\ At(t, "assoc") /\ UNCHANGED <<viewMu, views, down, edits, done, wg, view, snap>>
      /\ th' = [th EXCEPT ![t].pc = "inval", ![t].keep = {}, ![t].todo = views]
  BY DEF Associate
<1>2. /\ th[t].op = "modify" /\ th[t].held = {} /\ Local(t)
  BY <1>1, ThreadsTyped DEF IInv, Threads, Ops, Local, Control, Holds, At
<1>0. PICK u \in File : \E v \in Best(u) : viewMap' = [viewMap EXCEPT ![u] = v]
  BY DEF Associate
<1>3. PICK v \in Best(u) : viewMap' = [viewMap EXCEPT ![u] = v]
  BY <1>0
<1>4. v = NoView \/ (v \in View /\ view[v].def \in Def)
  BY BestIsView
<1>5. /\ \A w \in URI : viewMap'[w] \in View => view[viewMap'[w]].def \in Def
      /\ viewMap' \in [URI -> View \union {NoView, Unset}]
  BY <1>3, <1>4, SessionAssumption DEF IInv, TypeOK, Registry
<1>6. /\ th' \in [Thread -> Threads] /\ \A x \in Thread \ {t} : th'[x] = th[x]
      /\ th'[t].held = {} /\ th'[t].pc = "inval" /\ th'[t].op = "modify"
      /\ th'[t].keep = {} /\ th'[t].todo = views
  <2>1. PICK g \in Threads, vs \in SUBSET View : g = th[t] /\ vs = views
    BY DEF IInv, TypeOK
  <2>2. [g EXCEPT !.pc = "inval", !.keep = {}, !.todo = vs] \in Threads
    BY DEF Threads, PCs
  <2>3. th' \in [Thread -> Threads]
    BY <1>1, <2>1, <2>2, ThreadsTyped
  <2> QED
    BY <1>1, <1>2, <2>1, <2>3, ThreadsTyped DEF Threads
<1>7. Local(t)'
  BY <1>1, <1>2, <1>6 DEF Local, Control, Holds, Locks, Visits, Editing, EditOps, At
<1>8. TypeOK'
  BY <1>1, <1>5, <1>6 DEF IInv, TypeOK
<1>9. \A w \in views : view[w].def \in Def /\ view[w].cur # NoSnap
  BY <1>1, <1>2, EditorAtRest DEF EditOps, At
<1> QED
  BY <1>1, <1>2, <1>5, <1>6, <1>7, <1>8, <1>9, OneEditor, EditStep DEF EditOps

LEMMA InvalidateStep ==
  ASSUME IInv, NEW t \in Thread, Invalidate(t)
  PROVE  IInv'
<1>1. At(t, "inval") /\ UNCHANGED <<sessionVars, wg, view, snap>>
  BY DEF Invalidate
<1>2. /\ th[t].op = "modify" /\ th[t].held = {} /\ Local(t)
  BY <1>1, ThreadsTyped DEF IInv, Threads, Ops, Local, Control, Holds, At
<1>3. PICK v \in th[t].todo :
        th' = [th EXCEPT ![t].pc = "await", ![t].v = v, ![t].s = view[v].cur,
                         ![t].todo = @ \ {v}]
  BY DEF Invalidate
<1>4. v \in views /\ v \in View /\ view[v].cur # NoSnap
  BY <1>1, <1>2, EditorAtRest DEF Local, Visits, EditOps, At, IInv, TypeOK
<1>5. PICK s \in Snap : s = view[v].cur
  BY <1>4 DEF IInv, TypeOK, Views
<1>6. /\ th' \in [Thread -> Threads] /\ \A x \in Thread \ {t} : th'[x] = th[x]
      /\ th'[t].held = {} /\ th'[t].pc = "await" /\ th'[t].op = "modify"
      /\ th'[t].v = v /\ th'[t].s = s /\ th'[t].keep = th[t].keep
      /\ th'[t].todo = th[t].todo \ {v}
  <2>1. PICK g \in Threads : g = th[t]
    BY ThreadsTyped
  <2>2. [g EXCEPT !.pc = "await", !.v = v, !.s = s, !.todo = @ \ {v}] \in Threads
    BY <1>4 DEF Threads, PCs
  <2>3. th' \in [Thread -> Threads]
    BY <1>3, <1>5, <2>1, <2>2, ThreadsTyped
  <2> QED
    BY <1>2, <1>3, <1>5, <2>1, <2>3, ThreadsTyped DEF Threads
<1>7. Local(t)'
  BY <1>1, <1>2, <1>4, <1>5, <1>6
     DEF Local, Control, Holds, Locks, Visits, Editing, EditOps, At, sessionVars
<1> QED
  BY <1>1, <1>2, <1>6, <1>7, ThreadOnly DEF At

LEMMA DropStep ==
  ASSUME IInv, NEW t \in Thread, Drop(t)
  PROVE  IInv'
<1>1. At(t, "drop") /\ UNCHANGED <<sessionVars, view>>
      /\ th' = [th EXCEPT ![t].pc = "inval", ![t].held = {}]
  BY DEF Drop
<1>2. th[t].op = "modify" /\ Local(t)
  BY <1>1, ThreadsTyped DEF IInv, Threads, Ops, Local, Control, At
<1>3. PICK s \in Snap : th[t].held = {s} /\ Decref(s)
  <2>1. PICK s \in Snap : th[t].held = {s}
    BY <1>1, <1>2 DEF Local, Holds, At
  <2> QED
    BY <2>1 DEF Drop
<1>4. /\ th' \in [Thread -> Threads] /\ \A x \in Thread \ {t} : th'[x] = th[x]
      /\ th'[t].held = {} /\ th'[t].pc = "inval" /\ th'[t].op = "modify"
      /\ th'[t].keep = th[t].keep /\ th'[t].todo = th[t].todo
  <2>1. PICK g \in Threads : g = th[t]
    BY ThreadsTyped
  <2>2. [g EXCEPT !.pc = "inval", !.held = {}] \in Threads
    BY DEF Threads, PCs
  <2>3. th' \in [Thread -> Threads]
    BY <1>1, <2>1, <2>2, ThreadsTyped
  <2> QED
    BY <1>1, <1>2, <2>1, <2>3, ThreadsTyped DEF Threads
<1>5. Local(t)'
  BY <1>1, <1>2, <1>4
     DEF Local, Control, Holds, Locks, Visits, Editing, EditOps, At, sessionVars
<1> QED
  BY <1>1, <1>3, <1>4, <1>5, DecrefStep DEF At

LEMMA EndModifyStep ==
  ASSUME IInv, NEW t \in Thread, EndModify(t)
  PROVE  IInv'
<1>1. /\ At(t, "inval") /\ Return(t) /\ viewMu' = Nobody /\ done' = edits
      /\ UNCHANGED <<views, viewMap, down, edits, wg, view, snap>>
  BY DEF EndModify
<1>2. th[t].op = "modify" /\ th[t].held = {}
  BY <1>1, ThreadsTyped DEF IInv, Threads, Ops, Local, Control, Holds, At
<1>3. /\ th' \in [Thread -> Threads] /\ \A x \in Thread \ {t} : th'[x] = th[x]
      /\ th'[t].held = {} /\ th'[t].pc = "idle" /\ Local(t)'
  BY <1>1, ReturnEffect DEF IInv
<1>4. TypeOK'
  BY <1>1, <1>3 DEF IInv, TypeOK
<1>5. \A w \in views : view[w].def \in Def /\ view[w].cur # NoSnap
  BY <1>1, <1>2, EditorAtRest DEF EditOps, At
<1> QED
  BY <1>1, <1>2, <1>3, <1>4, <1>5, OneEditor, EditStep DEF EditOps, IInv, Registry

\* The clone takes the view's reference from the snapshot it replaces, and the
\* caller gets one.
LEMMA SwapStep ==
  ASSUME IInv, NEW t \in Thread, Swap(t)
  PROVE  IInv'
<1> DEFINE v == th[t].v
           old == th[t].s
<1>1. At(t, "swap") /\ UNCHANGED <<views, viewMap, down, edits, done>>
  BY DEF Swap
<1>2. /\ th[t].op \in {"modify", "invalidate"} /\ th[t].op \in EditOps /\ Editing(t)
      /\ th[t].held = {} /\ th[t] \in Threads /\ Local(t)
  BY <1>1, ThreadsTyped
     DEF IInv, Threads, Ops, Local, Control, Holds, EditOps, Editing, At
<1>3. v \in View /\ old = view[v].cur /\ old \in Snap
  BY <1>1, <1>2 DEF Local, Visits, Threads, At
<1>4. PICK s \in Snap, reinit \in BOOLEAN :
        /\ FreshSnap(s)
        /\ snap' = [snap EXCEPT ![old].refs = @ - 1,
                                ![s] = [Clone(old, reinit) EXCEPT !.refs = 2]]
        /\ wg' = IF snap[old].refs = 1 THEN wg ELSE wg + 1
        /\ view' = [view EXCEPT ![v].cur = s]
        /\ IF th[t].op = "modify"
           THEN /\ th' = [th EXCEPT ![t].pc = "drop", ![t].s = NoSnap, ![t].v = NoView,
                                    ![t].held = {s}]
                /\ UNCHANGED viewMu
           ELSE Use(t, {s}) /\ viewMu' = Nobody
  BY DEF Swap
<1>5. /\ snap[s].refs = 0 /\ snap[old].refs > 0 /\ s # old /\ snap[old].of = v
      /\ \A w \in View : view[w].cur # s /\ view[w].lsnap # s
      /\ \A x \in Thread : s \notin th[x].held
  <2>1. snap[old].refs > 0
    BY <1>3, ReferencedAlive DEF IInv
  <2>2. snap[old].of = v
    BY <1>3, SessionAssumption DEF IInv, Registry
  <2>3. snap[s].refs = 0
    BY <1>4 DEF FreshSnap
  <2> QED
    BY <1>4, <2>1, <2>2, <2>3 DEF FreshSnap
<1>6. /\ snap' \in [Snap -> Snaps]
      /\ snap'[s].refs = 2 /\ snap'[s].of = v
      /\ snap'[old].refs = snap[old].refs - 1 /\ snap'[old].of = v
      /\ \A x \in Snap \ {s, old} : snap'[x] = snap[x]
  <2>1. PICK n \in Nat, i \in BOOLEAN, g \in Snaps :
           n = edits /\ i = (snap[old].inited /\ ~reinit) /\ g = snap[old]
    BY <1>3 DEF IInv, TypeOK, Snaps
  <2>2. g.refs \in Nat /\ g.refs > 0 /\ g.of = v
    BY <1>5, <2>1 DEF Snaps
  <2>3. [Clone(old, reinit) EXCEPT !.refs = 2]
          = [refs |-> 2, of |-> v, edit |-> n, inited |-> i]
    BY <1>5, <2>1 DEF Clone
  <2>4. [refs |-> 2, of |-> v, edit |-> n, inited |-> i] \in Snaps
    BY <1>3 DEF Snaps
  <2>5. [g EXCEPT !.refs = @ - 1] \in Snaps
    BY <2>2 DEF Snaps
  <2>6. snap'[s] = [refs |-> 2, of |-> v, edit |-> n, inited |-> i]
    BY <1>4, <2>3 DEF IInv, TypeOK
  <2>7. snap'[old] = [g EXCEPT !.refs = @ - 1]
    BY <1>3, <1>4, <1>5, <2>1 DEF IInv, TypeOK
  <2>8. \A x \in Snap \ {s, old} : snap'[x] = snap[x]
    BY <1>4 DEF IInv, TypeOK
  <2>9. snap' \in [Snap -> Snaps]
    <3>1. \A x \in Snap : snap'[x] \in Snaps
      BY <2>4, <2>5, <2>6, <2>7, <2>8 DEF IInv, TypeOK
    <3>2. snap' = [x \in Snap |-> snap'[x]]
      BY <1>4 DEF IInv, TypeOK
    <3> QED
      BY <3>1, <3>2
  <2>10. snap'[s].refs = 2 /\ snap'[s].of = v
    BY <2>6
  <2>11. snap'[old].refs = snap[old].refs - 1 /\ snap'[old].of = v
    BY <2>1, <2>2, <2>7 DEF Snaps
  <2> QED
    BY <2>8, <2>9, <2>10, <2>11
<1>7. /\ view' \in [View -> Views] /\ view'[v].cur = s
      /\ \A w \in View : /\ view'[w].def = view[w].def /\ view'[w].lsnap = view[w].lsnap
                         /\ view'[w].lpc = view[w].lpc
                         /\ w # v => view'[w].cur = view[w].cur
  <2>1. PICK g \in Views : g = view[v]
    BY <1>3 DEF IInv, TypeOK
  <2>2. PICK r \in Views : /\ r = [g EXCEPT !.cur = s]
                           /\ r.cur = s /\ r.def = g.def /\ r.lsnap = g.lsnap /\ r.lpc = g.lpc
    <3>1. PICK r : r = [g EXCEPT !.cur = s]
      OBVIOUS
    <3>2. r \in Views
      BY <3>1 DEF Views
    <3>3. r.cur = s /\ r.def = g.def /\ r.lsnap = g.lsnap /\ r.lpc = g.lpc
      BY <3>1 DEF Views
    <3> QED
      BY <3>1, <3>2, <3>3
  <2>3. /\ view' \in [View -> Views] /\ view'[v] = r
        /\ \A w \in View \ {v} : view'[w] = view[w]
    BY <1>3, <1>4, <2>1, <2>2 DEF IInv, TypeOK
  <2> QED
    BY <2>1, <2>2, <2>3
<1>8. /\ th' \in [Thread -> Threads] /\ \A x \in Thread \ {t} : th'[x] = th[x]
      /\ th'[t].held = {s} /\ th'[t].pc \notin {"create", "retire"}
      /\ viewMu' \in Thread \union {Nobody} /\ Local(t)'
  <2>1. CASE th[t].op = "modify"
    <3>1. th' = [th EXCEPT ![t].pc = "drop", ![t].s = NoSnap, ![t].v = NoView,
                           ![t].held = {s}] /\ UNCHANGED viewMu
      BY <1>4, <2>1
    <3>2. PICK g \in Threads : g = th[t]
      BY <1>2
    <3>3. [g EXCEPT !.pc = "drop", !.s = NoSnap, !.v = NoView, !.held = {s}] \in Threads
      BY DEF Threads, PCs
    <3>4. th' \in [Thread -> Threads] /\ \A x \in Thread \ {t} : th'[x] = th[x]
      BY <3>1, <3>2, <3>3, ThreadsTyped
    <3>5. /\ th'[t].held = {s} /\ th'[t].pc = "drop" /\ th'[t].op = "modify"
          /\ th'[t].keep = th[t].keep /\ th'[t].todo = th[t].todo
      BY <2>1, <3>1, <3>2, ThreadsTyped DEF Threads
    <3>6. th[t].keep \subseteq View
      BY <1>2 DEF Threads
    <3>7. Control(t)' /\ Holds(t)' /\ Locks(t)'
      BY <1>1, <1>2, <3>1, <3>5 DEF Local, Control, Holds, Locks, EditOps, At
    <3>8. Visits(t)'
      BY <1>1, <1>2, <1>7, <2>1, <3>5, <3>6 DEF Local, Visits, Editing, At
    <3> QED
      BY <3>1, <3>4, <3>5, <3>7, <3>8 DEF Local, IInv, TypeOK
  <2>2. CASE th[t].op # "modify"
    <3>1. Use(t, {s}) /\ viewMu' = Nobody
      BY <1>4, <2>2
    <3> QED
      BY <3>1, UseEffect DEF IInv
  <2> QED
    BY <2>1, <2>2
<1>9. wg' \in Nat /\ WaitGroupExact'
  <2> DEFINE Live == {x \in Snap : snap[x].refs > 0}
  <2>1. IsFiniteSet(Live) /\ wg = Cardinality(Live) /\ s \notin Live /\ old \in Live
    BY <1>3, <1>5, SessionAssumption, FS_Subset DEF IInv, WaitGroupExact
  <2>2. snap[old].refs \in Nat /\ wg \in Nat
    BY <1>3 DEF IInv, TypeOK, Snaps
  <2>3. CASE snap[old].refs = 1
    <3>1. Live' = (Live \ {old}) \union {s}
      BY <1>5, <1>6, <2>3
    <3>2. Cardinality(Live \ {old}) = wg - 1 /\ IsFiniteSet(Live \ {old})
      BY <2>1, FS_RemoveElement
    <3>3. Cardinality((Live \ {old}) \union {s}) = wg
      <4>1. Cardinality((Live \ {old}) \union {s}) = Cardinality(Live \ {old}) + 1
        BY <2>1, <3>2, FS_AddElement
      <4>2. wg - 1 + 1 = wg
        BY <2>2
      <4> QED
        BY <3>2, <4>1, <4>2, Zenon
    <3>4. wg' = wg
      BY <1>4, <2>3
    <3>5. Cardinality(Live') = wg'
      BY <3>1, <3>3, <3>4, Zenon
    <3>6. WaitGroupExact'
      BY <3>5 DEF WaitGroupExact
    <3> QED
      BY <2>2, <3>4, <3>6
  <2>4. CASE snap[old].refs # 1
    <3>1. Live' = Live \union {s}
      BY <1>5, <1>6, <2>2, <2>4
    <3>2. Cardinality(Live \union {s}) = wg + 1
      BY <2>1, FS_AddElement
    <3>3. wg' = wg + 1
      BY <1>4, <2>4
    <3>4. Cardinality(Live') = wg'
      BY <3>1, <3>2, <3>3
    <3>5. WaitGroupExact'
      BY <3>4 DEF WaitGroupExact
    <3> QED
      BY <2>2, <3>3, <3>5
  <2> QED
    BY <2>3, <2>4
<1>10. TypeOK'
  BY <1>1, <1>6, <1>7, <1>8, <1>9 DEF IInv, TypeOK
<1>11. ~down /\ \A x \in Thread \ {t} : th[x].op \notin EditOps
  BY <1>2, OneEditor
<1>12. \A x \in Thread : Local(x)'
  <2>1. \A x \in Snap : snap[x].refs > 0 => snap'[x].of = snap[x].of
    BY <1>5, <1>6
  <2>2. \A x \in Thread \ {t} : Local(x)'
    BY <1>7, <1>8, <1>11, <2>1, OtherThreads
  <2> QED
    BY <1>8, <2>2
<1>13. Registry'
  <2>1. \A w \in views : view[w].cur # NoSnap
    BY <1>1, <1>2, EditorAtRest DEF At
  <2>2. \A w \in views : view'[w].cur # NoSnap
    BY <1>7, <2>1, SessionAssumption DEF IInv, TypeOK
  <2>3. \A w \in View : view'[w].cur # NoSnap => snap'[view'[w].cur].of = w
    <3> SUFFICES ASSUME NEW w \in View, view'[w].cur # NoSnap
                 PROVE  snap'[view'[w].cur].of = w
      OBVIOUS
    <3>1. CASE w = v
      BY <1>6, <1>7, <3>1
    <3>2. CASE w # v
      <4>1. view[w].cur \in Snap /\ snap[view[w].cur].of = w /\ view'[w].cur = view[w].cur
        BY <1>7, <3>2 DEF IInv, TypeOK, Registry, Views
      <4> QED
        BY <1>5, <1>6, <3>2, <4>1
    <3> QED
      BY <3>1, <3>2
  <2>4. \A w \in View : view'[w].lsnap # NoSnap => snap'[view'[w].lsnap].of = w
    <3> SUFFICES ASSUME NEW w \in View, view[w].lsnap # NoSnap
                 PROVE  snap'[view[w].lsnap].of = w
      BY <1>7
    <3>1. view[w].lsnap \in Snap /\ snap[view[w].lsnap].of = w
      BY DEF IInv, TypeOK, Registry, Views
    <3> QED
      BY <1>5, <1>6, <3>1
  <2> QED
    BY <1>1, <1>7, <2>2, <2>3, <2>4 DEF IInv, Registry, TypeOK
<1>14. RefsExact'
  <2> SUFFICES ASSUME NEW x \in Snap
               PROVE  snap'[x].refs = Cardinality(Users(x)') + ViewRef(x)' + LoaderRef(x)'
    BY DEF RefsExact
  <2>1. /\ snap[x].refs = Cardinality(Users(x)) + ViewRef(x) + LoaderRef(x)
        /\ Cardinality(Users(x)) \in Nat /\ ViewRef(x) \in {0, 1} /\ LoaderRef(x) \in {0, 1}
    BY RefTypes DEF IInv, RefsExact
  <2>2. LoaderRef(x)' = LoaderRef(x)
    BY <1>7 DEF LoaderRef
  <2>3. Cardinality(Users(x)') = IF x = s THEN Cardinality(Users(x)) + 1
                                 ELSE Cardinality(Users(x))
    BY <1>2, <1>8, UsersChange
  <2>4. CASE x = s
    <3>1. ViewRef(x)' = 1
      BY <1>3, <1>7, <2>4 DEF ViewRef
    <3> QED
      BY <1>5, <1>6, <2>1, <2>2, <2>3, <2>4, <3>1
  <2>5. CASE x = old
    <3>1. \A w \in View : view[w].cur = old => w = v
      BY <1>3, <1>5, SessionAssumption DEF IInv, Registry
    <3>2. ViewRef(x)' = 0 /\ ViewRef(x) = 1
      BY <1>3, <1>5, <1>7, <2>5, <3>1 DEF ViewRef
    <3> QED
      BY <1>5, <1>6, <2>1, <2>2, <2>3, <2>5, <3>2
  <2>6. CASE x \notin {s, old}
    <3>1. ViewRef(x)' = ViewRef(x)
      BY <1>3, <1>7, <2>6 DEF ViewRef
    <3> QED
      BY <1>6, <2>1, <2>2, <2>3, <2>6, <3>1
  <2> QED
    BY <2>4, <2>5, <2>6
<1> QED
  BY <1>9, <1>10, <1>12, <1>13, <1>14 DEF IInv

-----------------------------------------------------------------------------
(* Shutdown. *)

LEMMA ShutdownCallStep ==
  ASSUME IInv, NEW t \in Thread, Shutdown(t)
  PROVE  IInv'
<1>1. /\ At(t, "idle") /\ viewMu = Nobody /\ down' = TRUE /\ views' = {}
      /\ viewMap' = [u \in URI |-> Unset]
      /\ th' = [th EXCEPT ![t] = [Idle EXCEPT !.pc = "stop", !.op = "shutdown",
                                              !.todo = views]]
      /\ UNCHANGED <<viewMu, edits, done, wg, view, snap>>
  BY DEF Shutdown
<1>2. /\ th' \in [Thread -> Threads] /\ \A x \in Thread \ {t} : th'[x] = th[x]
      /\ th'[t].held = {} /\ th'[t].pc = "stop" /\ th'[t].op = "shutdown"
      /\ th'[t].keep = {}
  <2>1. PICK vs \in SUBSET View : vs = views
    BY DEF IInv, TypeOK
  <2>2. [Idle EXCEPT !.pc = "stop", !.op = "shutdown", !.todo = vs] \in Threads
    BY DEF Idle, Threads, PCs, Ops
  <2> QED
    BY <1>1, <2>1, <2>2, ThreadsTyped DEF Idle
<1>3. Local(t)'
  BY <1>1, <1>2 DEF Local, Control, Holds, Locks, Visits, Editing, EditOps, At
<1>4. TypeOK'
  BY <1>1, <1>2 DEF IInv, TypeOK
<1>5. \A x \in Thread : Local(x)'
  BY <1>1, <1>2, <1>3, NoEditor, OtherThreads
<1>6. Registry'
  BY <1>1, SessionAssumption DEF IInv, Registry
<1>7. RefsExact'
  BY <1>1, <1>2, IdleHoldsNothing, SameHolders DEF IInv, SameRefs, SameSnaps
<1>8. WaitGroupExact'
  BY <1>1, SameWaitGroup DEF IInv, SameRefs
<1> QED
  BY <1>4, <1>5, <1>6, <1>7, <1>8 DEF IInv

LEMMA DrainStep ==
  ASSUME IInv, NEW t \in Thread, Drain(t)
  PROVE  IInv'
<1>1. /\ At(t, "drain") /\ wg = 0 /\ UNCHANGED <<sessionVars, wg, view, snap>>
      /\ th' = [th EXCEPT ![t].pc = "closed"]
  BY DEF Drain, Goto
<1>2. th[t].op = "shutdown" /\ th[t].held = {} /\ Local(t)
  BY <1>1, ThreadsTyped DEF IInv, Threads, Ops, Local, Control, Holds, At
<1>3. /\ th' \in [Thread -> Threads] /\ \A x \in Thread \ {t} : th'[x] = th[x]
      /\ th'[t].held = {} /\ th'[t].pc = "closed" /\ th'[t].op = "shutdown"
      /\ th'[t].keep = th[t].keep
  <2>1. PICK g \in Threads : g = th[t]
    BY ThreadsTyped
  <2>2. [g EXCEPT !.pc = "closed"] \in Threads
    BY DEF Threads, PCs
  <2>3. th' \in [Thread -> Threads]
    BY <1>1, <2>1, <2>2, ThreadsTyped
  <2> QED
    BY <1>1, <1>2, <2>1, <2>3, ThreadsTyped DEF Threads
<1>4. \A s \in Snap : snap[s].refs = 0
  <2> DEFINE Live == {s \in Snap : snap[s].refs > 0}
  <2>1. IsFiniteSet(Live) /\ Cardinality(Live) = 0
    BY <1>1, SessionAssumption, FS_Subset DEF IInv, WaitGroupExact
  <2>2. Live = {}
    BY <2>1, FS_EmptySet
  <2> QED
    BY <2>2 DEF IInv, TypeOK, Snaps
<1>5. Local(t)'
  BY <1>1, <1>2, <1>3, <1>4
     DEF Local, Control, Holds, Locks, Visits, Editing, EditOps, At, sessionVars
<1> QED
  BY <1>1, <1>2, <1>3, <1>5, ThreadOnly DEF At

-----------------------------------------------------------------------------
LEMMA NextStep ==
  ASSUME IInv, [Next]_vars
  PROVE  IInv'
<1>1. CASE UNCHANGED vars
  <2>1. UNCHANGED <<viewMu, views, viewMap, down, edits, done, wg, view, snap, th>>
    BY <1>1 DEF vars, sessionVars
  <2>2. TypeOK' /\ Registry'
    BY <2>1 DEF IInv, TypeOK, Registry, Replacing
  <2>3. RefsExact' /\ WaitGroupExact'
    BY <2>1 DEF IInv, RefsExact, WaitGroupExact, Users, ViewRef, LoaderRef
  <2>4. \A t \in Thread : Local(t)'
    BY <2>1 DEF IInv, Local, Control, Holds, Locks, Visits, Editing, At
  <2> QED
    BY <2>2, <2>3, <2>4 DEF IInv
<1>2. ASSUME NEW t \in Thread, Begin(t) PROVE IInv'
  BY <1>2, SnapshotOfStep, ToolCallStep, NewViewStep, RemoveViewStep, ResetViewStep,
     DidModifyFilesStep, InvalidateViewStep, ShutdownCallStep DEF Begin
<1>3. ASSUME NEW t \in Thread, Request(t) PROVE IInv'
  BY <1>3, FastSnapshotStep, ForgetStep, ListViewsStep, SearchStep, MatchStep,
     LastResortStep, CollectStep, ReleaseStep DEF Request
<1>4. ASSUME NEW t \in Thread, Initialize(t) PROVE IInv'
  BY <1>4, AwaitInitializedStep, InitBeginStep, InitEndStep DEF Initialize
<1>5. ASSUME NEW t \in Thread, Edit(t) PROVE IInv'
  BY <1>5, CreateNextStep, RetireStep, CommitStep, AssociateStep, InvalidateStep,
     SwapStep, DropStep, EndModifyStep DEF Edit
<1>6. ASSUME NEW t \in Thread, Stop(t) PROVE IInv'
  BY <1>6, StopNextStep, DrainStep DEF Stop
<1>7. ASSUME NEW v \in View, Load(v) PROVE IInv'
  BY <1>7, LoaderSkipStep, LoaderBeginStep, LoaderEndStep, LoaderReleaseStep DEF Load
<1>8. CASE Next
  BY <1>2, <1>3, <1>4, <1>5, <1>6, <1>7, <1>8, UseLoadedStep, CancelRequestStep DEF Next
<1> QED
  BY <1>1, <1>8

\* The invariant the theorems below rest on holds in every reachable state of the
\* session, its views, snapshots and goroutines (session.go, view.go, snapshot.go).
THEOREM Invariance == Spec => []IInv
<1>1. Init => IInv
  BY InitIInv
<1>2. IInv /\ [Next]_vars => IInv'
  BY NextStep
<1> QED
  BY <1>1, <1>2, PTL DEF Spec

\* Every variable keeps the type of the field it models, so that refcount
\* (snapshot.go:215-236) and snapshotWG (session.go:69-71) never become negative.
THEOREM TypeCorrect == Spec => []TypeOK
<1>1. IInv => TypeOK
  BY DEF IInv
<1> QED
  BY <1>1, Invariance, PTL

\* The refcount of a snapshot (snapshot.go:215-236) is exactly the number of
\* references that will be released, however requests, edits, loads and shutdowns
\* of views interleave: no snapshot is destroyed in use, none is leaked.
THEOREM ReferencesExact == Spec => []RefsExact
<1>1. IInv => RefsExact
  BY DEF IInv
<1> QED
  BY <1>1, Invariance, PTL

\* snapshotWG counts the snapshots that are not destroyed, through the swap of an
\* edit (view.go:806-811), createView (session.go:258) and decref.
THEOREM WaitGroupCounts == Spec => []WaitGroupExact
<1>1. IInv => WaitGroupExact
  BY DEF IInv
<1> QED
  BY <1>1, Invariance, PTL

\* Once Session.Shutdown has returned (session.go:84-101) no snapshot is alive, and
\* none comes to life: a call that began before cannot create one.
THEOREM Drains == Spec => []ShutdownDrains
<1>1. IInv => ShutdownDrains
  BY DEF IInv, Local, Locks, ShutdownDrains
<1> QED
  BY <1>1, Invariance, PTL

\* invalidateViewLocked (view.go:781-818) never meets a view that was shut down, and
\* replaces the snapshot whose initialization it awaited.
THEOREM InvalidatesCurrentSnapshot == Spec => []InvalidatesCurrent
<1>1. ASSUME IInv, NEW t \in Thread
      PROVE  /\ At(t, "inval") => \A v \in th[t].todo : view[v].cur # NoSnap
             /\ Editing(t) /\ th[t].pc \in {"await", "init", "load", "swap"} =>
                   th[t].s = view[th[t].v].cur /\ th[t].s # NoSnap
  <2>1. Local(t)
    BY <1>1 DEF IInv
  <2>2. ASSUME At(t, "inval") PROVE \A v \in th[t].todo : view[v].cur # NoSnap
    <3>1. th[t].op = "modify"
      BY <1>1, <2>1, <2>2, ThreadsTyped DEF Threads, Ops, Local, Control, At
    <3>2. th[t].todo \subseteq views
      BY <2>1, <2>2, <3>1 DEF Local, Visits, At
    <3> QED
      BY <1>1, <2>2, <3>1, <3>2, EditorAtRest DEF EditOps, At
  <2> QED
    BY <2>1, <2>2 DEF Local, Visits
<1>2. IInv => InvalidatesCurrent
  BY <1>1 DEF InvalidatesCurrent
<1> QED
  BY <1>2, Invariance, PTL
=============================================================================
