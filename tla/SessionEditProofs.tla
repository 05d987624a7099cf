-------------------------- MODULE SessionEditProofs --------------------------
(***************************************************************************)
(* What edits promise to requests: the registry of views is consistent     *)
(* between edits, a request sees every edit that had ended when it began,  *)
(* and snapshots are initialized once.  On top of SessionProofs, for every *)
(* set of threads, views, snapshots, files, folders and definitions.       *)
(***************************************************************************)
EXTENDS SessionProofs

Distinct(S) == \A v, w \in S : view[v].def = view[w].def => v = w

\* While views are replaced: those to be kept and those to be made have different
\* definitions, and any other view with a snapshot will be shut down.
Replacement(t) == th[t].pc \in {"create", "retire"} =>
    /\ Distinct(th[t].keep)
    /\ \A v \in th[t].keep : view[v].def \notin th[t].defs
    /\ \A v \in View : view[v].cur # NoSnap => v \in th[t].keep \union th[t].todo

\* The edits seen by the snapshots a request holds, and by those of the views an
\* edit has already invalidated.
Invalidates(t) == /\ th[t].op = "modify"
                  /\ th[t].pc \in {"inval", "await", "init", "load", "swap", "drop"}
Sees(t) ==
    /\ th[t].began <= done
    /\ th[t].op \in {"of", "request"} => \A s \in th[t].held : snap[s].edit >= th[t].began
    /\ th[t].op = "modify" /\ th[t].pc \in {"create", "retire", "assoc", "inval", "drop"} =>
          th[t].v = NoView
    /\ Invalidates(t) => \A v \in views \ th[t].todo :
          v # th[t].v => snap[view[v].cur].edit = edits

\* The snapshot a thread waits for, initializes or is about to clone.
Loads(t) ==
    /\ Editing(t) => ~th[t].cancelled
    /\ \A s \in th[t].held : snap[s].of \in View
    /\ th[t].pc \in {"await", "init", "load", "match", "swap"} =>
          th[t].v \in View /\ th[t].s \in Snap /\ snap[th[t].s].of = th[t].v
    /\ th[t].pc \in {"init", "load"} => view[th[t].v].iwl
    /\ At(t, "load") => view[th[t].v].sema = t /\ ~snap[th[t].s].inited
    /\ At(t, "swap") => snap[th[t].s].inited

Own(t) == Replacement(t) /\ Sees(t) /\ Loads(t)

\* Until the goroutine of createView has ended its load nobody else loads the view.
FirstLoad(v) ==
    /\ view[v].lpc \in {"start", "load"} => ~view[v].iwl /\ ~snap[view[v].lsnap].inited
    /\ view[v].lpc = "load" => view[v].sema = Loader

Active == ~down /\ ~Replacing => \A v \in View : view[v].cur # NoSnap => v \in views

EditInv ==
    /\ Distinct(views)
    /\ \A u \in URI : viewMap[u] \in views \union {NoView, Unset}
    /\ Active
    /\ done <= edits
    /\ \A v \in View : view[v].cur # NoSnap => snap[view[v].cur].edit >= done
    /\ \A t \in Thread : Own(t)
    /\ \A v \in View : FirstLoad(v)

-----------------------------------------------------------------------------
LEMMA InitEditInv == Init => EditInv
BY SessionAssumption
   DEF Init, Idle, NewView0, NewSnap0, EditInv, Distinct, Active, Own, Replacement, Sees,
       Invalidates, Loads, FirstLoad, Editing, At

\* What edits, clones and the first load tell of a snapshot stays as long as
\* anybody mentions it.
Kept == \A s \in Snap : FreshSnap(s) \/ /\ snap'[s].edit = snap[s].edit
                                        /\ snap'[s].of = snap[s].of
                                        /\ snap[s].inited => snap'[s].inited
SameData == \A s \in Snap : /\ snap'[s].edit = snap[s].edit
                            /\ snap'[s].of = snap[s].of
                            /\ snap'[s].inited = snap[s].inited

LEMMA AcquireData ==
  ASSUME IInv, NEW s, s \in Snap, Acquire(s)
  PROVE  SameData
BY DEF IInv, TypeOK, Acquire, Snaps, SameData

LEMMA DecrefData ==
  ASSUME IInv, NEW s, s \in Snap, Decref(s)
  PROVE  SameData
BY DEF IInv, TypeOK, Decref, Snaps, SameData

\* A thread that takes no step keeps what it knows.
LEMMA OtherOwn ==
  ASSUME IInv, NEW x \in Thread, Own(x), th'[x] = th[x], Kept, done <= done', done' \in Nat,
         th[x].op \in EditOps =>
            /\ edits' = edits /\ views' = views
            /\ \A v \in View : view'[v].cur = view[v].cur,
         \A v \in th[x].keep : view'[v].def = view[v].def,
         th[x].v \in View /\ view[th[x].v].iwl => view'[th[x].v].iwl,
         At(x, "load") => /\ view'[th[x].v].sema = view[th[x].v].sema
                          /\ snap'[th[x].s].inited = snap[th[x].s].inited
  PROVE  Own(x)'
<1>1. th[x] \in Threads /\ done \in Nat
  BY DEF IInv, TypeOK
<1>2. Replacement(x)'
  <2>1. th[x].pc \in {"create", "retire"} => th[x].op \in EditOps
    BY <1>1 DEF IInv, Local, Control, At, Threads, Ops, EditOps
  <2> QED
    BY <2>1 DEF Own, Replacement, Distinct
<1>3. Sees(x)'
  <2>1. th'[x].began <= done'
    BY <1>1 DEF Own, Sees, Threads
  <2>2. ASSUME NEW s \in th[x].held PROVE snap'[s].edit = snap[s].edit
    BY <1>1, <2>2 DEF Kept, FreshSnap, Threads
  <2>3. ASSUME Invalidates(x), NEW v \in views \ th[x].todo, v # th[x].v
        PROVE  snap'[view'[v].cur].edit = edits'
    <3>1. th[x].op \in EditOps /\ th[x].pc \notin {"create", "retire"}
      BY <2>3 DEF Invalidates, EditOps
    <3>2. v \in View /\ view[v].cur \in Snap
      BY <2>3, <3>1, EditorAtRest DEF IInv, TypeOK, Views
    <3>3. snap'[view[v].cur].edit = snap[view[v].cur].edit
      BY <3>2 DEF Kept, FreshSnap
    <3> QED
      BY <2>3, <3>1, <3>2, <3>3 DEF Own, Sees
  <2>4. Invalidates(x)' <=> Invalidates(x)
    BY DEF Invalidates
  <2>5. Invalidates(x) => views' = views
    BY DEF Invalidates, EditOps
  <2> QED
    BY <2>1, <2>2, <2>3, <2>4, <2>5 DEF Own, Sees
<1>4. Loads(x)'
  <2>1. \A s \in th[x].held : snap'[s].of = snap[s].of
    BY <1>1 DEF Kept, FreshSnap, Threads
  <2>2. th[x].s \in Snap => /\ snap'[th[x].s].of = snap[th[x].s].of
                            /\ snap[th[x].s].inited => snap'[th[x].s].inited
    BY DEF Kept, FreshSnap
  <2> QED
    BY <2>1, <2>2 DEF Own, Loads, Editing, At
<1> QED
  BY <1>2, <1>3, <1>4 DEF Own

\* A step of one thread that changes no view and of snapshots only their counts.
LEMMA CallFrame ==
  ASSUME IInv, EditInv, NEW t \in Thread, \A x \in Thread \ {t} : th'[x] = th[x], SameData,
         UNCHANGED <<views, down, edits, done, view>>,
         \A u \in URI : viewMap'[u] \in views \union {NoView, Unset},
         th[t].pc \in {"create", "retire"} => th'[t].pc \in {"create", "retire"},
         Own(t)'
  PROVE  EditInv'
<1>1. \A x \in Thread : Own(x)'
  <2>1. Kept /\ done <= done' /\ done' \in Nat
    BY DEF SameData, Kept, IInv, TypeOK
  <2> SUFFICES ASSUME NEW x \in Thread \ {t} PROVE Own(x)'
    OBVIOUS
  <2>2. At(x, "load") => th[x].s \in Snap
    BY DEF EditInv, Own, Loads, At
  <2> QED
    BY <2>1, <2>2, OtherOwn DEF EditInv, SameData
<1>2. Active'
  <2>1. Replacing => Replacing'
    BY DEF Replacing
  <2> QED
    BY <2>1 DEF EditInv, Active
<1>3. \A v \in View : view[v].cur # NoSnap => snap'[view[v].cur].edit >= done
  BY DEF EditInv, SameData, IInv, TypeOK, Views
<1>4. \A v \in View : FirstLoad(v)'
  BY DEF EditInv, FirstLoad, SameData, IInv, TypeOK, Views, Registry
<1> QED
  BY <1>1, <1>2, <1>3, <1>4 DEF EditInv, Distinct

\* The current snapshot of a view has seen every edit that has ended.
LEMMA CurrentSeen ==
  ASSUME IInv, EditInv, NEW v \in View, view[v].cur # NoSnap
  PROVE  /\ view[v].cur \in Snap /\ snap[view[v].cur].of = v
         /\ snap[view[v].cur].edit \in Nat /\ snap[view[v].cur].edit >= done
BY DEF IInv, TypeOK, Views, Snaps, Registry, EditInv

\* A request that neither loads nor edits.
LEMMA PlainOwn ==
  ASSUME NEW t \in Thread,
         th'[t].pc \notin {"create", "retire", "await", "init", "load", "match", "swap"},
         th'[t].op \notin {"modify", "invalidate"}, th'[t].began <= done',
         \A s \in th'[t].held : snap'[s].edit >= th'[t].began /\ snap'[s].of \in View
  PROVE  Own(t)'
BY DEF Own, Replacement, Sees, Invalidates, Loads, Editing, At

LEMMA UseOwn ==
  ASSUME TypeOK, NEW t \in Thread, NEW S, Use(t, S), th[t].began <= done',
         \A s \in S : snap'[s].edit >= th[t].began /\ snap'[s].of \in View
  PROVE  /\ Own(t)' /\ \A x \in Thread \ {t} : th'[x] = th[x]
         /\ th'[t].pc = "using"
<1>1. /\ \A x \in Thread \ {t} : th'[x] = th[x]
      /\ th'[t].pc = "using" /\ th'[t].op = "request" /\ th'[t].held = S
      /\ th'[t].began = th[t].began
  BY DEF TypeOK, Use, Idle
<1> QED
  BY <1>1, PlainOwn

LEMMA ReturnOwn ==
  ASSUME TypeOK, NEW t \in Thread, Return(t), done' \in Nat
  PROVE  /\ Own(t)' /\ \A x \in Thread \ {t} : th'[x] = th[x]
         /\ th'[t].pc = "idle"
<1>1. /\ \A x \in Thread \ {t} : th'[x] = th[x]
      /\ th'[t].pc = "idle" /\ th'[t].op = "none" /\ th'[t].held = {} /\ th'[t].began = 0
  BY DEF TypeOK, Return, Idle
<1> QED
  BY <1>1, PlainOwn

\* What a request knows of the snapshots it holds.
LEMMA HeldSeen ==
  ASSUME IInv, EditInv, NEW t \in Thread, th[t].op \in {"of", "request"}
  PROVE  /\ th[t].began \in Nat /\ th[t].began <= done
         /\ th[t].held \subseteq Snap
         /\ \A s \in th[t].held : snap[s].edit >= th[t].began /\ snap[s].of \in View
BY DEF IInv, TypeOK, Threads, EditInv, Own, Sees, Loads

\* The registry does not change either.
LEMMA MapKept ==
  ASSUME EditInv, UNCHANGED <<views, viewMap>>
  PROVE  \A u \in URI : viewMap'[u] \in views \union {NoView, Unset}
BY DEF EditInv

-----------------------------------------------------------------------------
(* The steps of a request. *)

LEMMA SnapshotOfEdit ==
  ASSUME IInv, EditInv, NEW t \in Thread, NEW u \in File, SnapshotOf(t, u)
  PROVE  EditInv'
<1>1. PICK v \in Best(u) :
        /\ viewMap' = [viewMap EXCEPT ![u] = v]
        /\ th' = [th EXCEPT ![t] = [Idle EXCEPT
                     !.pc = IF v = NoView THEN "views" ELSE "snap",
                     !.op = "of", !.v = v, !.u = u, !.began = done]]
  BY DEF SnapshotOf
<1>2. UNCHANGED <<viewMu, views, down, edits, done, wg, view, snap>> /\ At(t, "idle")
  BY DEF SnapshotOf
<1>3. v \in views \union {NoView}
  BY DEF Best, EditInv, URI
<1>4. /\ \A x \in Thread \ {t} : th'[x] = th[x]
      /\ th'[t].held = {} /\ th'[t].pc \in {"views", "snap"} /\ th'[t].op = "of"
      /\ th'[t].began = done
  BY <1>1, ThreadsTyped DEF Idle
<1>5. Own(t)'
  BY <1>2, <1>4, PlainOwn DEF IInv, TypeOK
<1>6. \A w \in URI : viewMap'[w] \in views \union {NoView, Unset}
  BY <1>1, <1>3 DEF EditInv, IInv, TypeOK
<1> QED
  BY <1>2, <1>4, <1>5, <1>6, CallFrame DEF SameData, At

\* A call takes the current snapshot of a view and goes on with it.
LEMMA UseCurrent ==
  ASSUME IInv, EditInv, NEW t \in Thread, NEW v \in View, view[v].cur # NoSnap,
         th[t].op \in {"of", "request"}, th[t].pc \notin {"create", "retire"},
         Acquire(view[v].cur), Use(t, {view[v].cur}), UNCHANGED <<sessionVars, view>>
  PROVE  EditInv'
<1>1. SameData
  BY CurrentSeen, AcquireData
<1>2. /\ view[v].cur \in Snap /\ snap'[view[v].cur].of = v
      /\ snap'[view[v].cur].edit >= th[t].began /\ th[t].began <= done'
  BY <1>1, CurrentSeen, HeldSeen DEF SameData, sessionVars, IInv, TypeOK
<1>3. /\ Own(t)' /\ \A x \in Thread \ {t} : th'[x] = th[x]
      /\ th'[t].pc = "using"
  <2>1. \A s \in {view[v].cur} : snap'[s].edit >= th[t].began /\ snap'[s].of \in View
    BY <1>2
  <2> QED
    BY <1>2, <2>1, UseOwn DEF IInv
<1> QED
  BY <1>1, <1>3, MapKept, CallFrame DEF sessionVars

LEMMA FastSnapshotEdit ==
  ASSUME IInv, EditInv, NEW t \in Thread, FastSnapshot(t)
  PROVE  EditInv'
<1>1. At(t, "snap") /\ UNCHANGED <<sessionVars, wg, view>>
  BY DEF FastSnapshot
<1>2. th[t].op = "of" /\ th[t].held = {} /\ th[t].v \in View
  BY <1>1, ThreadsTyped DEF IInv, Threads, Ops, Local, Control, Holds, Visits, At
<1>3. CASE Goto(t, "forget") /\ UNCHANGED snap
  <2>1. /\ \A x \in Thread \ {t} : th'[x] = th[x]
        /\ th'[t].held = {} /\ th'[t].pc = "forget" /\ th'[t].op = "of"
        /\ th'[t].began = th[t].began
    BY <1>2, <1>3, ThreadsTyped DEF Goto, Threads
  <2>2. Own(t)'
    BY <1>1, <1>2, <2>1, PlainOwn, HeldSeen DEF sessionVars
  <2> QED
    BY <1>1, <1>3, <2>1, <2>2, MapKept, CallFrame DEF SameData, At, sessionVars
<1>4. CASE view[th[t].v].cur # NoSnap /\ Acquire(view[th[t].v].cur)
           /\ Use(t, {view[th[t].v].cur})
  BY <1>1, <1>2, <1>4, UseCurrent DEF At
<1> QED
  BY <1>3, <1>4 DEF FastSnapshot

\* A step to another point of a request that holds the same snapshots.
LEMMA GoOnEdit ==
  ASSUME IInv, EditInv, NEW t \in Thread, th[t].op \in {"of", "request"},
         th[t].pc \notin {"create", "retire"},
         \A x \in Thread \ {t} : th'[x] = th[x],
         th'[t].op = th[t].op, th'[t].held = th[t].held, th'[t].began = th[t].began,
         th'[t].pc \notin {"create", "retire", "await", "init", "load", "match", "swap"},
         UNCHANGED <<views, down, edits, done, view, snap>>,
         \A u \in URI : viewMap'[u] \in views \union {NoView, Unset}
  PROVE  EditInv'
<1>1. Own(t)'
  BY HeldSeen, PlainOwn
<1> QED
  BY <1>1, CallFrame DEF SameData

LEMMA ForgetEdit ==
  ASSUME IInv, EditInv, NEW t \in Thread, Forget(t)
  PROVE  EditInv'
<1>1. At(t, "forget") /\ UNCHANGED <<viewMu, views, down, edits, done, wg, view, snap>>
      /\ viewMap' = [viewMap EXCEPT ![th[t].u] = IF @ = th[t].v THEN Unset ELSE @]
      /\ th' = [th EXCEPT ![t].pc = "views"]
  BY DEF Forget, Goto
<1>2. th[t].op = "of"
  BY <1>1, ThreadsTyped DEF IInv, Threads, Ops, Local, Control, At
<1>3. /\ \A x \in Thread \ {t} : th'[x] = th[x]
      /\ th'[t].pc = "views"
      /\ th'[t].op = th[t].op /\ th'[t].held = th[t].held /\ th'[t].began = th[t].began
  BY <1>1, ThreadsTyped DEF Threads
<1>4. \A u \in URI : viewMap'[u] \in views \union {NoView, Unset}
  BY <1>1 DEF EditInv, IInv, TypeOK
<1> QED
  BY <1>1, <1>2, <1>3, <1>4, GoOnEdit DEF At

LEMMA ListViewsEdit ==
  ASSUME IInv, EditInv, NEW t \in Thread, ListViews(t)
  PROVE  EditInv'
<1>1. At(t, "views") /\ UNCHANGED <<sessionVars, wg, view, snap>>
      /\ th' = [th EXCEPT ![t].pc = "search", ![t].v = NoView,
                          ![t].todo = views, ![t].keep = views]
  BY DEF ListViews
<1>2. th[t].op = "of"
  BY <1>1, ThreadsTyped DEF IInv, Threads, Ops, Local, Control, At
<1>3. /\ \A x \in Thread \ {t} : th'[x] = th[x]
      /\ th'[t].pc = "search"
      /\ th'[t].op = th[t].op /\ th'[t].held = th[t].held /\ th'[t].began = th[t].began
  BY <1>1, ThreadsTyped DEF Threads
<1> QED
  BY <1>1, <1>2, <1>3, MapKept, GoOnEdit DEF At, sessionVars

LEMMA SearchEdit ==
  ASSUME IInv, EditInv, NEW t \in Thread, Search(t)
  PROVE  EditInv'
<1>1. At(t, "search") /\ UNCHANGED <<sessionVars, wg, view>>
  BY DEF Search
<1>2. th[t].op = "of" /\ th[t].held = {} /\ th[t].todo \subseteq View
  BY <1>1, ThreadsTyped DEF IInv, Threads, Ops, Local, Control, Holds, At
<1>3. CASE th' = [th EXCEPT ![t].pc = "last", ![t].todo = th[t].keep] /\ UNCHANGED snap
  <2>1. /\ \A x \in Thread \ {t} : th'[x] = th[x]
        /\ th'[t].pc = "last"
        /\ th'[t].op = th[t].op /\ th'[t].held = th[t].held /\ th'[t].began = th[t].began
    BY <1>3, ThreadsTyped DEF Threads
  <2> QED
    BY <1>1, <1>2, <1>3, <2>1, MapKept, GoOnEdit DEF At, sessionVars
<1>4. ASSUME NEW v \in th[t].todo, th' = [th EXCEPT ![t].todo = @ \ {v}], UNCHANGED snap
      PROVE  EditInv'
  <2>1. /\ \A x \in Thread \ {t} : th'[x] = th[x]
        /\ th'[t].pc = "search"
        /\ th'[t].op = th[t].op /\ th'[t].held = th[t].held /\ th'[t].began = th[t].began
    BY <1>1, <1>4, ThreadsTyped DEF Threads, At
  <2> QED
    BY <1>1, <1>2, <1>4, <2>1, MapKept, GoOnEdit DEF At, sessionVars
<1>5. ASSUME NEW v \in th[t].todo, view[v].cur # NoSnap, Acquire(view[v].cur),
             th' = [th EXCEPT ![t].pc = "await", ![t].held = {view[v].cur}, ![t].v = v,
                              ![t].s = view[v].cur, ![t].todo = @ \ {v}]
      PROVE  EditInv'
  <2>1. v \in View /\ SameData
    BY <1>2, <1>5, CurrentSeen, AcquireData
  <2>2. PICK s \in Snap : s = view[v].cur /\ snap'[s].of = v /\ snap'[s].edit >= th[t].began
                          /\ th[t].began <= done'
    BY <1>1, <1>2, <1>5, <2>1, CurrentSeen, HeldSeen DEF SameData, sessionVars, IInv, TypeOK
  <2>3. /\ \A x \in Thread \ {t} : th'[x] = th[x]
        /\ th'[t].pc = "await" /\ th'[t].op = "of" /\ th'[t].held = {s}
        /\ th'[t].v = v /\ th'[t].s = s /\ th'[t].began = th[t].began
    BY <1>2, <1>5, <2>2, ThreadsTyped DEF Threads
  <2>4. Own(t)'
    BY <2>1, <2>2, <2>3 DEF Own, Replacement, Sees, Invalidates, Loads, Editing, At
  <2> QED
    BY <1>1, <2>1, <2>3, <2>4, MapKept, CallFrame DEF At, sessionVars
<1> QED
  BY <1>3, <1>4, <1>5 DEF Search

\* A request releases a snapshot and goes on, or returns.
LEMMA ReleaseEdit ==
  ASSUME IInv, EditInv, NEW t \in Thread, Release(t)
  PROVE  EditInv'
<1>1. PICK s \in th[t].held :
        /\ Decref(s)
        /\ IF th[t].held = {s} THEN Return(t) ELSE Use(t, th[t].held \ {s})
  BY DEF Release
<1>2. At(t, "using") /\ UNCHANGED <<sessionVars, view>>
  BY DEF Release
<1>3. th[t].op = "request"
  BY <1>2, ThreadsTyped DEF IInv, Threads, Ops, Local, Control, At
<1>4. SameData
  BY <1>1, <1>3, HeldSeen, DecrefData
<1>5. CASE Return(t)
  <2>1. /\ Own(t)' /\ \A x \in Thread \ {t} : th'[x] = th[x]
        /\ th'[t].pc = "idle"
    BY <1>2, <1>5, ReturnOwn DEF IInv, TypeOK, sessionVars
  <2> QED
    BY <1>2, <1>4, <2>1, MapKept, CallFrame DEF At, sessionVars
<1>6. CASE Use(t, th[t].held \ {s})
  <2>1. \A x \in th[t].held \ {s} : snap'[x].edit >= th[t].began /\ snap'[x].of \in View
    BY <1>3, <1>4, HeldSeen DEF SameData
  <2>2. /\ Own(t)' /\ \A x \in Thread \ {t} : th'[x] = th[x]
        /\ th'[t].pc = "using"
    BY <1>2, <1>3, <1>6, <2>1, HeldSeen, UseOwn DEF IInv, sessionVars
  <2> QED
    BY <1>2, <1>4, <2>2, MapKept, CallFrame DEF At, sessionVars
<1> QED
  BY <1>1, <1>5, <1>6

LEMMA MatchEdit ==
  ASSUME IInv, EditInv, NEW t \in Thread, Match(t)
  PROVE  EditInv'
<1>1. At(t, "match") /\ UNCHANGED <<sessionVars, view>>
  BY DEF Match
<1>2. PICK s \in Snap : s = th[t].s /\ th[t].held = {s} /\ th[t].op = "of"
  BY <1>1, ThreadsTyped DEF IInv, Threads, Ops, Local, Control, Holds, At
<1>3. CASE Decref(th[t].s) /\ Return(t)
  <2>1. SameData
    BY <1>2, <1>3, DecrefData
  <2>2. /\ Own(t)' /\ \A x \in Thread \ {t} : th'[x] = th[x]
        /\ th'[t].pc = "idle"
    BY <1>1, <1>3, ReturnOwn DEF IInv, TypeOK, sessionVars
  <2> QED
    BY <1>1, <2>1, <2>2, MapKept, CallFrame DEF At, sessionVars
<1>4. CASE Use(t, {th[t].s}) /\ UNCHANGED <<wg, snap>>
  <2>1. \A x \in {th[t].s} : snap'[x].edit >= th[t].began /\ snap'[x].of \in View
    BY <1>2, <1>4, HeldSeen
  <2>2. /\ Own(t)' /\ \A x \in Thread \ {t} : th'[x] = th[x]
        /\ th'[t].pc = "using"
    BY <1>1, <1>2, <1>4, <2>1, HeldSeen, UseOwn DEF IInv, sessionVars
  <2> QED
    BY <1>1, <1>4, <2>2, MapKept, CallFrame DEF SameData, At, sessionVars
<1>5. CASE /\ Decref(th[t].s)
           /\ th' = [th EXCEPT ![t].pc = "search", ![t].held = {}, ![t].s = NoSnap,
                               ![t].v = NoView]
  <2>1. SameData
    BY <1>2, <1>5, DecrefData
  <2>2. /\ \A x \in Thread \ {t} : th'[x] = th[x]
        /\ th'[t].pc = "search" /\ th'[t].op = "of" /\ th'[t].held = {}
        /\ th'[t].began = th[t].began
    BY <1>2, <1>5, ThreadsTyped DEF Threads
  <2>3. Own(t)'
    BY <1>1, <1>2, <2>2, HeldSeen, PlainOwn DEF sessionVars
  <2> QED
    BY <1>1, <2>1, <2>2, <2>3, MapKept, CallFrame DEF At, sessionVars
<1> QED
  BY <1>3, <1>4, <1>5 DEF Match

LEMMA LastResortEdit ==
  ASSUME IInv, EditInv, NEW t \in Thread, LastResort(t)
  PROVE  EditInv'
<1>1. At(t, "last") /\ UNCHANGED <<sessionVars, wg, view>>
  BY DEF LastResort
<1>2. th[t].op = "of" /\ th[t].todo \subseteq View
  BY <1>1, ThreadsTyped DEF IInv, Threads, Ops, Local, Control, At
<1>3. CASE Return(t) /\ UNCHANGED snap
  <2>1. /\ Own(t)' /\ \A x \in Thread \ {t} : th'[x] = th[x]
        /\ th'[t].pc = "idle"
    BY <1>1, <1>3, ReturnOwn DEF IInv, TypeOK, sessionVars
  <2> QED
    BY <1>1, <1>3, <2>1, MapKept, CallFrame DEF SameData, At, sessionVars
<1>4. ASSUME NEW v \in th[t].todo, th' = [th EXCEPT ![t].todo = @ \ {v}], UNCHANGED snap
      PROVE  EditInv'
  <2>1. /\ \A x \in Thread \ {t} : th'[x] = th[x]
        /\ th'[t].pc = "last"
        /\ th'[t].op = th[t].op /\ th'[t].held = th[t].held /\ th'[t].began = th[t].began
    BY <1>1, <1>4, ThreadsTyped DEF Threads, At
  <2> QED
    BY <1>1, <1>2, <1>4, <2>1, MapKept, GoOnEdit DEF At, sessionVars
<1>5. ASSUME NEW v \in th[t].todo, view[v].cur # NoSnap, Acquire(view[v].cur),
             Use(t, {view[v].cur})
      PROVE  EditInv'
  BY <1>1, <1>2, <1>5, UseCurrent DEF At
<1> QED
  BY <1>3, <1>4, <1>5 DEF LastResort

LEMMA ToolCallEdit ==
  ASSUME IInv, EditInv, NEW t \in Thread, ToolCall(t)
  PROVE  EditInv'
<1>1. PICK vs \in SUBSET views :
        th' = [th EXCEPT ![t] = [Idle EXCEPT !.pc = "collect", !.op = "request",
                                             !.todo = vs, !.began = done]]
  BY DEF ToolCall
<1>2. At(t, "idle") /\ UNCHANGED <<sessionVars, wg, view, snap>>
  BY DEF ToolCall
<1>3. /\ \A x \in Thread \ {t} : th'[x] = th[x]
      /\ th'[t].pc = "collect" /\ th'[t].op = "request" /\ th'[t].held = {}
      /\ th'[t].began = done
  BY <1>1, ThreadsTyped DEF Idle
<1>4. Own(t)'
  BY <1>2, <1>3, PlainOwn DEF IInv, TypeOK, sessionVars
<1> QED
  BY <1>2, <1>3, <1>4, MapKept, CallFrame DEF SameData, At, sessionVars

LEMMA CollectEdit ==
  ASSUME IInv, EditInv, NEW t \in Thread, Collect(t)
  PROVE  EditInv'
<1>1. At(t, "collect") /\ UNCHANGED <<sessionVars, wg, view>>
  BY DEF Collect
<1>2. th[t].op = "request" /\ th[t].todo \subseteq View
  BY <1>1, ThreadsTyped DEF IInv, Threads, Ops, Local, Control, At
<1>3. CASE Return(t) /\ UNCHANGED snap
  <2>1. /\ Own(t)' /\ \A x \in Thread \ {t} : th'[x] = th[x]
        /\ th'[t].pc = "idle"
    BY <1>1, <1>3, ReturnOwn DEF IInv, TypeOK, sessionVars
  <2> QED
    BY <1>1, <1>3, <2>1, MapKept, CallFrame DEF SameData, At, sessionVars
<1>4. CASE Use(t, th[t].held) /\ UNCHANGED snap
  <2>1. /\ Own(t)' /\ \A x \in Thread \ {t} : th'[x] = th[x]
        /\ th'[t].pc = "using"
    BY <1>1, <1>2, <1>4, HeldSeen, UseOwn DEF IInv, sessionVars
  <2> QED
    BY <1>1, <1>4, <2>1, MapKept, CallFrame DEF SameData, At, sessionVars
<1>5. ASSUME NEW v \in th[t].todo, SameData,
             th' = [th EXCEPT ![t].todo = @ \ {v},
                              ![t].held = IF view[v].cur = NoSnap THEN @
                                          ELSE @ \union {view[v].cur}]
      PROVE  EditInv'
  <2>1. SameData
    BY <1>5
  <2>2. /\ \A x \in Thread \ {t} : th'[x] = th[x]
        /\ th'[t].pc = "collect" /\ th'[t].op = "request" /\ th'[t].began = th[t].began
        /\ th'[t].held = IF view[v].cur = NoSnap THEN th[t].held
                         ELSE th[t].held \union {view[v].cur}
    BY <1>1, <1>2, <1>5, ThreadsTyped DEF Threads, At
  <2>3. \A s \in th'[t].held : snap'[s].edit >= th[t].began /\ snap'[s].of \in View
    <3>1. \A s \in th[t].held : snap'[s].edit >= th[t].began /\ snap'[s].of \in View
      BY <1>2, <2>1, HeldSeen DEF SameData
    <3>2. view[v].cur # NoSnap => /\ snap'[view[v].cur].edit >= th[t].began
                                  /\ snap'[view[v].cur].of \in View
      BY <1>2, <2>1, HeldSeen, CurrentSeen DEF SameData, IInv, TypeOK
    <3> QED
      BY <2>2, <3>1, <3>2
  <2>4. Own(t)'
    BY <1>1, <1>2, <2>2, <2>3, HeldSeen, PlainOwn DEF sessionVars
  <2> QED
    BY <1>1, <2>1, <2>2, <2>4, MapKept, CallFrame DEF At, sessionVars
<1>6. ASSUME NEW v \in th[t].todo, view[v].cur = NoSnap, UNCHANGED snap,
             th' = [th EXCEPT ![t].todo = @ \ {v},
                              ![t].held = IF view[v].cur = NoSnap THEN @
                                          ELSE @ \union {view[v].cur}]
      PROVE  EditInv'
  BY <1>5, <1>6 DEF SameData
<1>7. ASSUME NEW v \in th[t].todo, view[v].cur # NoSnap, Acquire(view[v].cur),
             th' = [th EXCEPT ![t].todo = @ \ {v},
                              ![t].held = IF view[v].cur = NoSnap THEN @
                                          ELSE @ \union {view[v].cur}]
      PROVE  EditInv'
  <2>1. SameData
    BY <1>2, <1>7, CurrentSeen, AcquireData
  <2> QED
    BY <1>5, <1>7, <2>1
<1> QED
  BY <1>3, <1>4, <1>6, <1>7 DEF Collect

LEMMA UseLoadedEdit ==
  ASSUME IInv, EditInv, NEW t \in Thread, UseLoaded(t)
  PROVE  EditInv'
<1>1. PICK s \in th[t].held :
        th' = [th EXCEPT ![t].pc = "await", ![t].s = s, ![t].v = snap[s].of]
  BY DEF UseLoaded
<1>2. At(t, "using") /\ UNCHANGED <<sessionVars, wg, view, snap>>
  BY DEF UseLoaded
<1>3. th[t].op = "request"
  BY <1>2, ThreadsTyped DEF IInv, Threads, Ops, Local, Control, At
<1>4. /\ \A x \in Thread \ {t} : th'[x] = th[x]
      /\ th'[t].pc = "await" /\ th'[t].op = "request" /\ th'[t].held = th[t].held
      /\ th'[t].v = snap[s].of /\ th'[t].s = s /\ th'[t].began = th[t].began
  BY <1>1, <1>3, ThreadsTyped DEF Threads
<1>5. Own(t)'
  BY <1>2, <1>3, <1>4, HeldSeen
     DEF Own, Replacement, Sees, Invalidates, Loads, Editing, At, sessionVars
<1> QED
  BY <1>2, <1>4, <1>5, MapKept, CallFrame DEF SameData, At, sessionVars

LEMMA CancelRequestEdit ==
  ASSUME IInv, EditInv, NEW t \in Thread, CancelRequest(t)
  PROVE  EditInv'
<1>1. /\ th[t].op \in {"of", "request"} /\ th[t].pc \in {"await", "init", "load", "match"}
      /\ th' = [th EXCEPT ![t].cancelled = TRUE] /\ UNCHANGED <<sessionVars, wg, view, snap>>
  BY DEF CancelRequest
<1>2. /\ \A x \in Thread \ {t} : th'[x] = th[x]
      /\ th'[t].pc = th[t].pc /\ th'[t].op = th[t].op /\ th'[t].held = th[t].held
      /\ th'[t].v = th[t].v /\ th'[t].s = th[t].s /\ th'[t].began = th[t].began
  BY <1>1, ThreadsTyped DEF Threads
<1>3. Own(t)'
  BY <1>1, <1>2
     DEF EditInv, Own, Replacement, Sees, Invalidates, Loads, Editing, At, sessionVars
<1> QED
  BY <1>1, <1>2, <1>3, MapKept, CallFrame DEF SameData, sessionVars

-----------------------------------------------------------------------------
(* Initialization. *)

\* A step that loads a view's snapshot, or starts or ends to.
LEMMA LoadFrame ==
  ASSUME IInv, EditInv, UNCHANGED sessionVars,
         \A s \in Snap : snap'[s].edit = snap[s].edit /\ snap'[s].of = snap[s].of,
         \A v \in View : view'[v].cur = view[v].cur /\ view'[v].def = view[v].def,
         \A t \in Thread : th[t].pc \in {"create", "retire"}
                              => th'[t].pc \in {"create", "retire"},
         \A t \in Thread : Own(t)', \A v \in View : FirstLoad(v)'
  PROVE  EditInv'
<1>1. Active'
  <2>1. Replacing => Replacing'
    BY DEF Replacing
  <2> QED
    BY <2>1 DEF EditInv, Active, sessionVars
<1>2. \A v \in View : view'[v].cur # NoSnap => snap'[view'[v].cur].edit >= done
  BY DEF EditInv, IInv, TypeOK, Views
<1>3. Distinct(views)
  BY DEF EditInv
<1>4. Distinct(views)'
  BY <1>3 DEF Distinct, IInv, TypeOK, sessionVars
<1> QED
  BY <1>1, <1>2, <1>4 DEF EditInv, sessionVars

\* AwaitInitialized is over: a request goes on, an edit swaps the snapshot, which is
\* then initialized.
LEMMA AfterInitOwn ==
  ASSUME IInv, EditInv, NEW t \in Thread, th[t].pc \in {"await", "init", "load"},
         AfterInit(t), UNCHANGED sessionVars,
         \A s \in Snap : snap'[s].edit = snap[s].edit /\ snap'[s].of = snap[s].of,
         \A v \in View : view'[v].cur = view[v].cur,
         Editing(t) => snap'[th[t].s].inited
  PROVE  /\ Own(t)' /\ \A x \in Thread \ {t} : th'[x] = th[x]
         /\ th'[t].pc \notin {"create", "retire"}
<1>1. /\ th[t] \in Threads /\ Own(t) /\ th[t].v \in View /\ th[t].s \in Snap
      /\ th[t].began <= done
  BY ThreadsTyped DEF EditInv, Own, Loads, Sees
<1>2. CASE th[t].op = "request"
  <2>1. Use(t, th[t].held)
    BY <1>2 DEF AfterInit
  <2>2. \A s \in th[t].held : snap'[s].edit >= th[t].began /\ snap'[s].of \in View
    BY <1>2, HeldSeen
  <2> QED
    BY <1>1, <2>1, <2>2, UseOwn DEF IInv, sessionVars
<1>3. CASE th[t].op # "request"
  <2>1. PICK l \in {"swap", "match"} :
          /\ th' = [th EXCEPT ![t].pc = l]
          /\ l = IF Editing(t) THEN "swap" ELSE "match"
    BY <1>3 DEF AfterInit, Goto
  <2>2. /\ \A x \in Thread \ {t} : th'[x] = th[x]
        /\ th'[t].pc = l /\ th'[t].op = th[t].op /\ th'[t].held = th[t].held
        /\ th'[t].v = th[t].v /\ th'[t].s = th[t].s /\ th'[t].began = th[t].began
        /\ th'[t].todo = th[t].todo /\ th'[t].cancelled = th[t].cancelled
    BY <1>1, <2>1, ThreadsTyped DEF Threads
  <2>3. Replacement(t)'
    BY <2>2 DEF Replacement
  <2>4. Sees(t)'
    <3>1. \A s \in th[t].held : snap'[s].edit = snap[s].edit
      BY <1>1 DEF Threads
    <3>2. Invalidates(t)' => Invalidates(t)
      BY <2>2 DEF Invalidates
    <3>3. Invalidates(t) => \A v \in views : view[v].cur \in Snap /\ view'[v].cur = view[v].cur
      <4>1. Invalidates(t) => th[t].op \in EditOps /\ th[t].pc \notin {"create", "retire"}
        BY DEF Invalidates, EditOps
      <4> QED
        BY <4>1, EditorAtRest DEF IInv, TypeOK, Views
    <3> QED
      BY <1>1, <2>2, <3>1, <3>2, <3>3 DEF Own, Sees, sessionVars
  <2>5. Loads(t)'
    <3>1. \A s \in th[t].held : snap'[s].of = snap[s].of
      BY <1>1 DEF Threads
    <3> QED
      BY <1>1, <2>1, <2>2, <3>1 DEF Own, Loads, Editing, At
  <2> QED
    BY <2>2, <2>3, <2>4, <2>5 DEF Own
<1> QED
  BY <1>2, <1>3

\* A thread goes on to wait for initializationSema, or to load.
LEMMA GotoLoadOwn ==
  ASSUME IInv, EditInv, NEW t \in Thread, NEW l \in {"init", "load"},
         th[t].pc \in {"await", "init"}, Goto(t, l), UNCHANGED <<sessionVars, snap>>,
         \A v \in View : view'[v].cur = view[v].cur,
         view'[th[t].v].iwl,
         l = "load" => view'[th[t].v].sema = t /\ ~snap[th[t].s].inited
  PROVE  /\ Own(t)' /\ \A x \in Thread \ {t} : th'[x] = th[x]
         /\ th'[t].pc = l
<1>1. /\ th[t] \in Threads /\ Own(t) /\ th[t].v \in View /\ th[t].s \in Snap
  BY ThreadsTyped DEF EditInv, Own, Loads
<1>2. /\ \A x \in Thread \ {t} : th'[x] = th[x]
      /\ th'[t].pc = l /\ th'[t].op = th[t].op /\ th'[t].held = th[t].held
      /\ th'[t].v = th[t].v /\ th'[t].s = th[t].s /\ th'[t].began = th[t].began
      /\ th'[t].todo = th[t].todo /\ th'[t].cancelled = th[t].cancelled
  BY <1>1, ThreadsTyped DEF Goto, Threads
<1>3. Sees(t)'
  <2>1. Invalidates(t)' => Invalidates(t)
    BY <1>2 DEF Invalidates
  <2>2. Invalidates(t) => \A v \in views : view'[v].cur = view[v].cur
    BY DEF IInv, TypeOK
  <2> QED
    BY <1>1, <1>2, <2>1, <2>2 DEF Own, Sees, sessionVars
<1>4. Loads(t)'
  BY <1>1, <1>2 DEF Own, Loads, Editing, At
<1> QED
  BY <1>2, <1>3, <1>4 DEF Own, Replacement

LEMMA AwaitInitializedEdit ==
  ASSUME IInv, EditInv, NEW t \in Thread, AwaitInitialized(t)
  PROVE  EditInv'
<1>1. At(t, "await") /\ UNCHANGED <<sessionVars, wg, view, snap>>
  BY DEF AwaitInitialized
<1>2. CASE th[t].cancelled /\ AfterInit(t)
  <2>1. ~Editing(t)
    BY <1>2 DEF EditInv, Own, Loads
  <2> QED
    BY <1>1, <1>2, <2>1, AfterInitOwn, MapKept, CallFrame DEF SameData, At, sessionVars
<1>3. CASE view[th[t].v].iwl /\ Goto(t, "init")
  <2>1. /\ Own(t)' /\ \A x \in Thread \ {t} : th'[x] = th[x]
        /\ th'[t].pc = "init"
    BY <1>1, <1>3, GotoLoadOwn DEF At
  <2> QED
    BY <1>1, <2>1, MapKept, CallFrame DEF SameData, At, sessionVars
<1> QED
  BY <1>2, <1>3 DEF AwaitInitialized

\* What a step on initializationSema does to the view.
LEMMA SemaData ==
  ASSUME IInv, NEW w \in View, NEW q \in Thread \union {Nobody, Loader},
         view' = [view EXCEPT ![w].sema = q]
  PROVE  \A v \in View : /\ view'[v].cur = view[v].cur /\ view'[v].def = view[v].def
                         /\ view'[v].iwl = view[v].iwl /\ view'[v].lpc = view[v].lpc
                         /\ view'[v].lsnap = view[v].lsnap
                         /\ view'[v].sema = IF v = w THEN q ELSE view[v].sema
<1>1. \A g \in Views : LET h == [g EXCEPT !.sema = q] IN
        /\ h.cur = g.cur /\ h.def = g.def /\ h.iwl = g.iwl /\ h.lpc = g.lpc
        /\ h.lsnap = g.lsnap /\ h.sema = q
  BY DEF Views
<1>2. view \in [View -> Views]
  BY DEF IInv, TypeOK
<1>3. \A v \in View : view'[v] = IF v = w THEN [view[v] EXCEPT !.sema = q] ELSE view[v]
  BY <1>2
<1> QED
  BY <1>1, <1>2, <1>3

LEMMA InitBeginEdit ==
  ASSUME IInv, EditInv, NEW t \in Thread, InitBegin(t)
  PROVE  EditInv'
<1>1. At(t, "init") /\ UNCHANGED <<sessionVars, wg, snap>>
  BY DEF InitBegin
<1>2. CASE /\ AfterInit(t) /\ UNCHANGED view
           /\ th[t].cancelled \/ snap[th[t].s].inited
  <2>1. Editing(t) => snap[th[t].s].inited
    BY <1>2 DEF EditInv, Own, Loads
  <2> QED
    BY <1>1, <1>2, <2>1, AfterInitOwn, MapKept, CallFrame DEF SameData, At, sessionVars
<1>3. CASE /\ view[th[t].v].sema = Nobody /\ ~snap[th[t].s].inited
           /\ view' = [view EXCEPT ![th[t].v].sema = t] /\ Goto(t, "load")
  <2>1. PICK w \in View : w = th[t].v /\ view[w].iwl
    BY <1>1 DEF EditInv, Own, Loads, At
  <2>2. \A v \in View : /\ view'[v].cur = view[v].cur /\ view'[v].def = view[v].def
                        /\ view'[v].iwl = view[v].iwl /\ view'[v].lpc = view[v].lpc
                        /\ view'[v].lsnap = view[v].lsnap
                        /\ view'[v].sema = IF v = w THEN t ELSE view[v].sema
    <3>1. view' = [view EXCEPT ![w].sema = t] /\ t \in Thread \union {Nobody, Loader}
      BY <1>3, <2>1
    <3> QED
      BY <3>1, SemaData
  <2>3. /\ Own(t)' /\ \A x \in Thread \ {t} : th'[x] = th[x]
        /\ th'[t].pc = "load"
    BY <1>1, <1>3, <2>1, <2>2, GotoLoadOwn DEF At
  <2>4. ASSUME NEW x \in Thread \ {t} PROVE Own(x)'
    <3>1. Own(x) /\ th[x] \in Threads
      BY ThreadsTyped DEF EditInv
    <3>2. At(x, "load") => th[x].v \in View /\ view'[th[x].v].sema = view[th[x].v].sema
      BY <1>3, <2>1, <2>2, <3>1, SessionAssumption DEF Own, Loads, At
    <3>3. \A v \in th[x].keep : view'[v].def = view[v].def
      BY <2>2, <3>1 DEF Threads
    <3>4. Kept /\ done <= done' /\ done' \in Nat
      BY <1>1 DEF Kept, IInv, TypeOK, sessionVars
    <3> QED
      BY <1>1, <2>2, <2>3, <3>1, <3>2, <3>3, <3>4, OtherOwn DEF sessionVars
  <2>5. \A v \in View : FirstLoad(v)'
    BY <1>1, <1>3, <2>1, <2>2, SessionAssumption DEF EditInv, FirstLoad
  <2> QED
    BY <1>1, <2>2, <2>3, <2>4, <2>5, LoadFrame DEF At
<1> QED
  BY <1>2, <1>3 DEF InitBegin

\* What the end of a load does to snapshots.
LEMMA InitedData ==
  ASSUME IInv, NEW s \in Snap, snap' = [snap EXCEPT ![s].inited = TRUE] \/ UNCHANGED snap
  PROVE  \A x \in Snap : /\ snap'[x].edit = snap[x].edit /\ snap'[x].of = snap[x].of
                         /\ snap[x].inited => snap'[x].inited
                         /\ x # s => snap'[x].inited = snap[x].inited
<1>1. \A g \in Snaps : LET h == [g EXCEPT !.inited = TRUE] IN
        h.edit = g.edit /\ h.of = g.of /\ h.inited
  BY DEF Snaps
<1>2. snap \in [Snap -> Snaps]
  BY DEF IInv, TypeOK
<1>3. CASE snap' = [snap EXCEPT ![s].inited = TRUE]
  <2>1. \A x \in Snap :
          snap'[x] = IF x = s THEN [snap[x] EXCEPT !.inited = TRUE] ELSE snap[x]
    BY <1>2, <1>3
  <2> QED
    BY <1>1, <1>2, <2>1
<1> QED
  BY <1>3

LEMMA InitEndEdit ==
  ASSUME IInv, EditInv, NEW t \in Thread, InitEnd(t)
  PROVE  EditInv'
<1>1. /\ At(t, "load") /\ AfterInit(t) /\ UNCHANGED <<sessionVars, wg>>
      /\ view' = [view EXCEPT ![th[t].v].sema = Nobody]
      /\ \/ snap' = [snap EXCEPT ![th[t].s].inited = TRUE]
         \/ th[t].cancelled /\ UNCHANGED snap
  BY DEF InitEnd
<1>2. PICK w \in View, s \in Snap : /\ w = th[t].v /\ s = th[t].s /\ snap[s].of = w
                                    /\ view[w].iwl /\ view[w].sema = t
  BY <1>1 DEF EditInv, Own, Loads, At
<1>3. \A v \in View : /\ view'[v].cur = view[v].cur /\ view'[v].def = view[v].def
                      /\ view'[v].iwl = view[v].iwl /\ view'[v].lpc = view[v].lpc
                      /\ view'[v].lsnap = view[v].lsnap
                      /\ view'[v].sema = IF v = w THEN Nobody ELSE view[v].sema
  <2>1. view' = [view EXCEPT ![w].sema = Nobody] /\ Nobody \in Thread \union {Nobody, Loader}
    BY <1>1, <1>2
  <2> QED
    BY <2>1, SemaData
<1>4. \A x \in Snap : /\ snap'[x].edit = snap[x].edit /\ snap'[x].of = snap[x].of
                      /\ snap[x].inited => snap'[x].inited
                      /\ x # s => snap'[x].inited = snap[x].inited
  BY <1>1, <1>2, InitedData
<1>5. /\ Own(t)' /\ \A x \in Thread \ {t} : th'[x] = th[x]
      /\ th'[t].pc \notin {"create", "retire"}
  <2>1. Editing(t) => snap'[s].inited
    <3>1. Editing(t) => ~th[t].cancelled
      BY DEF EditInv, Own, Loads
    <3>2. ~th[t].cancelled => snap' = [snap EXCEPT ![s].inited = TRUE]
      BY <1>1, <1>2
    <3>3. snap' = [snap EXCEPT ![s].inited = TRUE] => snap'[s] = [snap[s] EXCEPT !.inited = TRUE]
      BY DEF IInv, TypeOK
    <3>4. \A g \in Snaps : [g EXCEPT !.inited = TRUE].inited
      BY DEF Snaps
    <3>5. snap[s] \in Snaps
      BY DEF IInv, TypeOK
    <3> QED
      BY <3>1, <3>2, <3>3, <3>4, <3>5
  <2> QED
    BY <1>1, <1>2, <1>3, <1>4, <2>1, AfterInitOwn DEF At
<1>6. ASSUME NEW x \in Thread \ {t} PROVE Own(x)'
  <2>1. Own(x) /\ th[x] \in Threads
    BY ThreadsTyped DEF EditInv
  <2>2. At(x, "load") => /\ th[x].v \in View /\ th[x].v # w /\ th[x].s \in Snap \ {s}
    BY <1>2, <2>1 DEF Own, Loads, At
  <2>3. \A v \in th[x].keep : view'[v].def = view[v].def
    BY <1>3, <2>1 DEF Threads
  <2>4. Kept /\ done <= done' /\ done' \in Nat
    BY <1>1, <1>4 DEF Kept, IInv, TypeOK, sessionVars
  <2> QED
    BY <1>1, <1>3, <1>4, <1>5, <2>1, <2>2, <2>3, <2>4, OtherOwn DEF sessionVars
<1>7. ASSUME NEW v \in View PROVE FirstLoad(v)'
  <2>1. view[v].lpc \in {"start", "load"} => view[v].lsnap \in Snap \ {s}
    BY <1>2 DEF EditInv, FirstLoad, IInv, TypeOK, Views, Registry
  <2>2. view[v].lpc = "load" => v # w
    BY <1>2, SessionAssumption DEF EditInv, FirstLoad
  <2> QED
    BY <1>3, <1>4, <2>1, <2>2 DEF EditInv, FirstLoad
<1> QED
  BY <1>1, <1>3, <1>4, <1>5, <1>6, <1>7, LoadFrame DEF At

\* The goroutine of createView.
LEMMA LoaderEdit ==
  ASSUME IInv, EditInv, UNCHANGED <<sessionVars, th>>, NEW w \in View, Kept,
         \A s \in Snap : snap'[s].edit = snap[s].edit /\ snap'[s].of = snap[s].of,
         \A v \in View : /\ view'[v].cur = view[v].cur /\ view'[v].def = view[v].def
                         /\ view[v].iwl => view'[v].iwl
                         /\ v # w => view'[v] = view[v],
         \A t \in Thread : At(t, "load") /\ th[t].v = w => view'[w].sema = view[w].sema,
         \A s \in Snap : snap'[s].inited # snap[s].inited
                            => s = view[w].lsnap /\ view[w].lpc = "load",
         FirstLoad(w)'
  PROVE  EditInv'
<1>1. ASSUME NEW t \in Thread PROVE Own(t)'
  <2>1. Own(t) /\ th[t] \in Threads
    BY ThreadsTyped DEF EditInv
  <2>2. At(t, "load") => /\ th[t].v \in View /\ th[t].s \in Snap
                         /\ view'[th[t].v].sema = view[th[t].v].sema
                         /\ snap'[th[t].s].inited = snap[th[t].s].inited
    <3> SUFFICES ASSUME At(t, "load")
                 PROVE  /\ th[t].v \in View /\ th[t].s \in Snap
                        /\ view'[th[t].v].sema = view[th[t].v].sema
                        /\ snap'[th[t].s].inited = snap[th[t].s].inited
      OBVIOUS
    <3>1. /\ th[t].v \in View /\ th[t].s \in Snap /\ snap[th[t].s].of = th[t].v
          /\ view[th[t].v].iwl
      BY <2>1 DEF Own, Loads, At
    <3>2. view[w].lpc = "load" => view[w].lsnap # th[t].s
      BY <3>1 DEF EditInv, FirstLoad, IInv, Registry, TypeOK, Views
    <3> QED
      BY <3>1, <3>2
  <2>3. \A v \in th[t].keep : view'[v].def = view[v].def
    BY <2>1 DEF Threads
  <2>4. done <= done' /\ done' \in Nat
    BY DEF IInv, TypeOK, sessionVars
  <2> QED
    BY <2>1, <2>2, <2>3, <2>4, OtherOwn DEF sessionVars
<1>2. ASSUME NEW v \in View PROVE FirstLoad(v)'
  <2>1. CASE v = w
    BY <2>1
  <2>2. CASE v # w
    <3>1. view'[v] = view[v]
      BY <2>2
    <3>2. view[v].lpc \in {"start", "load"} =>
             view[v].lsnap \in Snap /\ snap[view[v].lsnap].of = v
      BY DEF IInv, Registry, TypeOK, Views
    <3>3. view[w].lpc = "load" => snap[view[w].lsnap].of = w
      BY DEF IInv, Registry, TypeOK, Views
    <3> QED
      BY <2>2, <3>1, <3>2, <3>3 DEF EditInv, FirstLoad
  <2> QED
    BY <2>1, <2>2
<1> QED
  BY <1>1, <1>2, LoadFrame

LEMMA LoaderSkipEdit ==
  ASSUME IInv, EditInv, NEW v \in View, LoaderSkip(v)
  PROVE  EditInv'
<1>1. /\ view' = [view EXCEPT ![v].lpc = "release"] /\ UNCHANGED <<sessionVars, wg, snap, th>>
  BY DEF LoaderSkip
<1>2. \A g \in Views : LET h == [g EXCEPT !.lpc = "release"] IN
        /\ h.cur = g.cur /\ h.def = g.def /\ h.iwl = g.iwl /\ h.sema = g.sema
        /\ h.lpc = "release"
  BY DEF Views
<1>3. \A w \in View : view'[w] = IF w = v THEN [view[w] EXCEPT !.lpc = "release"]
                                 ELSE view[w]
  BY <1>1 DEF IInv, TypeOK
<1>4. /\ \A w \in View : /\ view'[w].cur = view[w].cur /\ view'[w].def = view[w].def
                         /\ view'[w].iwl = view[w].iwl /\ view'[w].sema = view[w].sema
      /\ view'[v].lpc = "release"
  BY <1>2, <1>3 DEF IInv, TypeOK
<1> QED
  BY <1>1, <1>3, <1>4, LoaderEdit DEF Kept, FirstLoad

LEMMA LoaderBeginEdit ==
  ASSUME IInv, EditInv, NEW v \in View, LoaderBegin(v)
  PROVE  EditInv'
<1>1. /\ view[v].lpc = "start" /\ UNCHANGED <<sessionVars, wg, snap, th>>
      /\ view' = [view EXCEPT ![v].lpc = "load", ![v].sema = Loader]
  BY DEF LoaderBegin
<1>2. \A g \in Views : LET h == [g EXCEPT !.lpc = "load", !.sema = Loader] IN
        /\ h.cur = g.cur /\ h.def = g.def /\ h.iwl = g.iwl /\ h.lsnap = g.lsnap
        /\ h.lpc = "load" /\ h.sema = Loader
  BY DEF Views
<1>3. \A w \in View : view'[w] = IF w = v
                                 THEN [view[w] EXCEPT !.lpc = "load", !.sema = Loader]
                                 ELSE view[w]
  BY <1>1 DEF IInv, TypeOK
<1>4. /\ \A w \in View : /\ view'[w].cur = view[w].cur /\ view'[w].def = view[w].def
                         /\ view'[w].iwl = view[w].iwl /\ view'[w].lsnap = view[w].lsnap
      /\ view'[v].lpc = "load" /\ view'[v].sema = Loader
  <2>1. \A w \in View : view[w] \in Views
    BY DEF IInv, TypeOK
  <2>2. view'[v].lpc = "load" /\ view'[v].sema = Loader
    BY <1>2, <1>3, <2>1
  <2> QED
    BY <1>2, <1>3, <2>1, <2>2
<1>5. ~view[v].iwl /\ ~snap[view[v].lsnap].inited
  BY <1>1 DEF EditInv, FirstLoad
<1>6. \A t \in Thread : At(t, "load") => th[t].v # v
  BY <1>5 DEF EditInv, Own, Loads, At
<1>7. FirstLoad(v)'
  BY <1>1, <1>4, <1>5 DEF FirstLoad
<1> QED
  BY <1>1, <1>3, <1>4, <1>6, <1>7, LoaderEdit DEF Kept

LEMMA LoaderEndEdit ==
  ASSUME IInv, EditInv, NEW v \in View, LoaderEnd(v)
  PROVE  EditInv'
<1>1. /\ view[v].lpc = "load" /\ UNCHANGED <<sessionVars, wg, th>>
      /\ view' = [view EXCEPT ![v].lpc = "release", ![v].sema = Nobody, ![v].iwl = TRUE]
      /\ \/ snap' = [snap EXCEPT ![view[v].lsnap].inited = TRUE]
         \/ UNCHANGED snap
  BY DEF LoaderEnd
<1>2. \A g \in Views :
        LET h == [g EXCEPT !.lpc = "release", !.sema = Nobody, !.iwl = TRUE] IN
        h.cur = g.cur /\ h.def = g.def /\ h.iwl /\ h.lpc = "release"
  BY DEF Views
<1>3. \A w \in View :
        view'[w] = IF w = v
                   THEN [view[w] EXCEPT !.lpc = "release", !.sema = Nobody, !.iwl = TRUE]
                   ELSE view[w]
  BY <1>1 DEF IInv, TypeOK
<1>4. /\ \A w \in View : /\ view'[w].cur = view[w].cur /\ view'[w].def = view[w].def
                         /\ view[w].iwl => view'[w].iwl
                         /\ w # v => view'[w] = view[w]
      /\ view'[v].lpc = "release"
  <2> SUFFICES ASSUME NEW w \in View
               PROVE  /\ view'[w].cur = view[w].cur /\ view'[w].def = view[w].def
                      /\ view[w].iwl => view'[w].iwl
                      /\ w # v => view'[w] = view[w]
                      /\ view'[v].lpc = "release"
    OBVIOUS
  <2>1. view[w] \in Views /\ view[v] \in Views
    BY DEF IInv, TypeOK
  <2> QED
    BY <1>2, <1>3, <2>1
<1>5. PICK s \in Snap : s = view[v].lsnap
  BY <1>1 DEF IInv, TypeOK, Views, Registry
<1>6. \A x \in Snap : /\ snap'[x].edit = snap[x].edit /\ snap'[x].of = snap[x].of
                      /\ snap[x].inited => snap'[x].inited
                      /\ x # s => snap'[x].inited = snap[x].inited
  BY <1>1, <1>5, InitedData
<1>7. \A t \in Thread : At(t, "load") => th[t].v # v
  BY <1>1, SessionAssumption DEF EditInv, FirstLoad, Own, Loads, At
<1>8. Kept /\ FirstLoad(v)'
  BY <1>4, <1>6 DEF Kept, FirstLoad
<1> QED
  BY <1>1, <1>4, <1>5, <1>6, <1>7, <1>8, LoaderEdit

LEMMA LoaderReleaseEdit ==
  ASSUME IInv, EditInv, NEW v \in View, LoaderRelease(v)
  PROVE  EditInv'
<1>1. /\ view[v].lpc = "release" /\ Decref(view[v].lsnap) /\ UNCHANGED <<sessionVars, th>>
      /\ view' = [view EXCEPT ![v].lpc = "none", ![v].lsnap = NoSnap]
  BY DEF LoaderRelease
<1>2. \A g \in Views : LET h == [g EXCEPT !.lpc = "none", !.lsnap = NoSnap] IN
        /\ h.cur = g.cur /\ h.def = g.def /\ h.iwl = g.iwl /\ h.sema = g.sema
        /\ h.lpc = "none"
  BY DEF Views
<1>3. \A w \in View : view'[w] = IF w = v
                                 THEN [view[w] EXCEPT !.lpc = "none", !.lsnap = NoSnap]
                                 ELSE view[w]
  BY <1>1 DEF IInv, TypeOK
<1>4. /\ \A w \in View : /\ view'[w].cur = view[w].cur /\ view'[w].def = view[w].def
                         /\ view'[w].iwl = view[w].iwl /\ view'[w].sema = view[w].sema
      /\ view'[v].lpc = "none"
  BY <1>2, <1>3 DEF IInv, TypeOK
<1>5. SameData
  BY <1>1, DecrefData DEF IInv, TypeOK, Views, Registry
<1>6. Kept /\ FirstLoad(v)'
  BY <1>4, <1>5 DEF Kept, SameData, FirstLoad
<1>7. \A s \in Snap : /\ snap'[s].edit = snap[s].edit /\ snap'[s].of = snap[s].of
                      /\ snap'[s].inited = snap[s].inited
  BY <1>5 DEF SameData
<1>8. \A w \in View \ {v} : view'[w] = view[w]
  BY <1>3
<1> QED
  BY <1>1, <1>4, <1>6, <1>7, <1>8, LoaderEdit

-----------------------------------------------------------------------------
(* Views are made. *)

LEMMA CreateData ==
  ASSUME IInv, NEW v \in View, NEW s \in Snap, NEW d \in Def, NEW n \in Nat,
         CreateView(v, s, d, n)
  PROVE  /\ FreshView(v) /\ FreshSnap(s) /\ Kept
         /\ \A x \in Snap \ {s} : snap'[x] = snap[x]
         /\ snap'[s].of = v /\ snap'[s].edit = edits /\ ~snap'[s].inited
         /\ \A w \in View \ {v} : view'[w] = view[w]
         /\ view'[v].def = d /\ view'[v].cur = s /\ view'[v].lsnap = s
         /\ view'[v].lpc = "start" /\ ~view'[v].iwl
<1>1. /\ FreshView(v) /\ FreshSnap(s)
      /\ view' = [view EXCEPT ![v] = [NewView0 EXCEPT !.def = d, !.cur = s,
                                                      !.lpc = "start", !.lsnap = s]]
      /\ snap' = [snap EXCEPT ![s] = [refs |-> 2 + n, of |-> v, inited |-> FALSE,
                                      edit |-> edits]]
  BY DEF CreateView
<1>2. /\ \A x \in Snap \ {s} : snap'[x] = snap[x]
      /\ snap'[s] = [refs |-> 2 + n, of |-> v, inited |-> FALSE, edit |-> edits]
      /\ \A w \in View \ {v} : view'[w] = view[w]
      /\ view'[v] = [NewView0 EXCEPT !.def = d, !.cur = s, !.lpc = "start", !.lsnap = s]
  BY <1>1 DEF IInv, TypeOK
<1>3. Kept
  BY <1>1, <1>2 DEF Kept
<1>4. view'[v] = [def |-> d, cur |-> s, iwl |-> FALSE, stopped |-> FALSE,
                  sema |-> Nobody, lpc |-> "start", lsnap |-> s]
  BY <1>2 DEF NewView0
<1>5. /\ view'[v].def = d /\ view'[v].cur = s /\ view'[v].lsnap = s
      /\ view'[v].lpc = "start" /\ ~view'[v].iwl
  BY <1>4
<1>6. snap'[s].of = v /\ snap'[s].edit = edits /\ ~snap'[s].inited
  BY <1>2
<1> QED
  BY <1>1, <1>2, <1>3, <1>5, <1>6

\* What everybody else keeps when t makes a view.
LEMMA CreateOthers ==
  ASSUME IInv, EditInv, NEW t \in Thread, NEW v \in View, NEW s \in Snap, NEW d \in Def,
         NEW n \in Nat, CreateView(v, s, d, n), UNCHANGED <<edits, done>>,
         \A x \in Thread \ {t} : th'[x] = th[x] /\ th[x].op \notin EditOps
  PROVE  /\ \A x \in Thread \ {t} : Own(x)'
         /\ \A w \in View : FirstLoad(w)'
         /\ \A w \in View : view'[w].cur # NoSnap => snap'[view'[w].cur].edit >= done'
<1>1. /\ FreshView(v) /\ FreshSnap(s) /\ Kept
      /\ \A x \in Snap \ {s} : snap'[x] = snap[x]
      /\ snap'[s].of = v /\ snap'[s].edit = edits /\ ~snap'[s].inited
      /\ \A w \in View \ {v} : view'[w] = view[w]
      /\ view'[v].def = d /\ view'[v].cur = s /\ view'[v].lsnap = s
      /\ view'[v].lpc = "start" /\ ~view'[v].iwl
  BY CreateData
<1>2. ASSUME NEW x \in Thread \ {t} PROVE Own(x)'
  <2>1. Own(x) /\ th[x] \in Threads
    BY ThreadsTyped DEF EditInv
  <2>2. th[x].v # v /\ v \notin th[x].keep /\ th[x].s # s
    BY <1>1 DEF FreshView, FreshSnap
  <2>3. At(x, "load") => th[x].v \in View \ {v} /\ th[x].s \in Snap \ {s}
    BY <2>1, <2>2 DEF Own, Loads, At
  <2>4. \A w \in th[x].keep : view'[w].def = view[w].def
    BY <1>1, <2>1, <2>2 DEF Threads
  <2>5. th[x].v \in View => view'[th[x].v] = view[th[x].v]
    BY <1>1, <2>2
  <2>6. done <= done' /\ done' \in Nat
    BY DEF IInv, TypeOK
  <2> QED
    BY <1>1, <2>1, <2>3, <2>4, <2>5, <2>6, OtherOwn
<1>3. ASSUME NEW w \in View PROVE FirstLoad(w)'
  <2>1. CASE w = v
    BY <1>1, <2>1 DEF FirstLoad
  <2>2. CASE w # v
    <3>1. view[w].lpc \in {"start", "load"} => view[w].lsnap \in Snap \ {s}
      BY <1>1 DEF FreshSnap, IInv, Registry, TypeOK, Views
    <3> QED
      BY <1>1, <2>2, <3>1 DEF EditInv, FirstLoad
  <2> QED
    BY <2>1, <2>2
<1>4. ASSUME NEW w \in View, view'[w].cur # NoSnap
      PROVE  snap'[view'[w].cur].edit >= done
  <2>1. CASE w = v
    BY <1>1, <2>1 DEF EditInv, IInv, TypeOK
  <2>2. CASE w # v
    <3>1. view'[w].cur = view[w].cur /\ view[w].cur \in Snap \ {s}
      BY <1>1, <1>4, <2>2 DEF FreshSnap, IInv, TypeOK, Views
    <3> QED
      BY <1>1, <1>4, <3>1 DEF EditInv
  <2> QED
    BY <2>1, <2>2
<1> QED
  BY <1>2, <1>3, <1>4

LEMMA NewViewEdit ==
  ASSUME IInv, EditInv, NEW t \in Thread, NEW d \in Def, NewView(t, d)
  PROVE  EditInv'
<1>1. /\ At(t, "idle") /\ viewMu = Nobody /\ ~down
      /\ \A v \in views : FolderOf[view[v].def] # FolderOf[d]
      /\ UNCHANGED <<viewMu, down, edits, done>>
  BY DEF NewView
<1>2. PICK v \in View, s \in Snap :
        /\ CreateView(v, s, d, 1) /\ views' = views \union {v}
        /\ viewMap' = [viewMap EXCEPT ![FolderOf[d]] = v]
        /\ th' = [th EXCEPT ![t] = [Idle EXCEPT !.pc = "using", !.op = "request",
                                                !.held = {s}, !.began = done]]
  BY DEF NewView
<1>3. /\ FreshView(v) /\ FreshSnap(s) /\ Kept
      /\ \A x \in Snap \ {s} : snap'[x] = snap[x]
      /\ snap'[s].of = v /\ snap'[s].edit = edits /\ ~snap'[s].inited
      /\ \A w \in View \ {v} : view'[w] = view[w]
      /\ view'[v].def = d /\ view'[v].cur = s
  BY <1>2, CreateData
<1>4. /\ \A x \in Thread \ {t} : th'[x] = th[x]
      /\ th'[t].pc = "using" /\ th'[t].op = "request" /\ th'[t].held = {s}
      /\ th'[t].began = done
  BY <1>2, ThreadsTyped DEF Idle
<1>5. Own(t)'
  BY <1>1, <1>3, <1>4, PlainOwn DEF EditInv, IInv, TypeOK
<1>6. /\ \A x \in Thread \ {t} : Own(x)'
      /\ \A w \in View : FirstLoad(w)'
      /\ \A w \in View : view'[w].cur # NoSnap => snap'[view'[w].cur].edit >= done'
  BY <1>1, <1>2, <1>4, NoEditor, CreateOthers
<1>7. Distinct(views)'
  <2>1. \A w \in views : w # v /\ w \in View
    BY <1>3 DEF FreshView, IInv, TypeOK
  <2>2. \A w \in views : view[w].def # d
    BY <1>1
  <2>3. Distinct(views)
    BY DEF EditInv
  <2> QED
    BY <1>2, <1>3, <2>1, <2>2, <2>3 DEF Distinct
<1>8. Active'
  <2>1. Replacing => Replacing'
    BY <1>1, <1>4 DEF Replacing, At
  <2> QED
    BY <1>1, <1>2, <1>3, <2>1 DEF EditInv, Active
<1>9. \A u \in URI : viewMap'[u] \in views' \union {NoView, Unset}
  <2>1. viewMap \in [URI -> View \union {NoView, Unset}]
    BY DEF IInv, TypeOK
  <2> QED
    BY <1>2, <2>1 DEF EditInv
<1> QED
  BY <1>1, <1>5, <1>6, <1>7, <1>8, <1>9 DEF EditInv

LEMMA CreateNextEdit ==
  ASSUME IInv, EditInv, NEW t \in Thread, CreateNext(t)
  PROVE  EditInv'
<1>1. At(t, "create") /\ UNCHANGED sessionVars
  BY DEF CreateNext
<1>2. th[t].op \in EditOps /\ th[t].held = {} /\ th[t] \in Threads /\ Own(t)
  BY <1>1, ThreadsTyped
     DEF IInv, Threads, Ops, Local, Control, Holds, EditOps, At, EditInv
<1>3. CASE Goto(t, "retire") /\ UNCHANGED <<wg, view, snap>>
  <2>1. /\ \A x \in Thread \ {t} : th'[x] = th[x]
        /\ th'[t].pc = "retire" /\ th'[t].op = th[t].op /\ th'[t].held = {}
        /\ th'[t].v = th[t].v /\ th'[t].began = th[t].began /\ th'[t].keep = th[t].keep
        /\ th'[t].todo = th[t].todo /\ th'[t].defs = th[t].defs
        /\ th'[t].cancelled = th[t].cancelled
    BY <1>2, <1>3, ThreadsTyped DEF Goto, Threads
  <2>2. Own(t)'
    BY <1>1, <1>2, <1>3, <2>1
       DEF Own, Replacement, Distinct, Sees, Invalidates, Loads, Editing, EditOps, At,
           sessionVars
  <2> QED
    BY <1>1, <1>3, <2>1, <2>2, MapKept, CallFrame DEF SameData, sessionVars
<1>4. ASSUME NEW d \in th[t].defs, NEW v \in View, NEW s \in Snap, CreateView(v, s, d, 0),
             th' = [th EXCEPT ![t].defs = @ \ {d}, ![t].keep = @ \union {v}]
      PROVE  EditInv'
  <2>1. d \in Def
    BY <1>2, <1>4 DEF Threads
  <2>2. /\ FreshView(v) /\ FreshSnap(s) /\ Kept
        /\ \A x \in Snap \ {s} : snap'[x] = snap[x]
        /\ \A w \in View \ {v} : view'[w] = view[w]
        /\ view'[v].def = d /\ view'[v].cur = s
    BY <1>4, <2>1, CreateData
  <2>3. /\ \A x \in Thread \ {t} : th'[x] = th[x]
        /\ th'[t].pc = "create" /\ th'[t].op = th[t].op /\ th'[t].held = {}
        /\ th'[t].v = th[t].v /\ th'[t].began = th[t].began
        /\ th'[t].keep = th[t].keep \union {v} /\ th'[t].todo = th[t].todo
        /\ th'[t].defs = th[t].defs \ {d} /\ th'[t].cancelled = th[t].cancelled
    BY <1>1, <1>2, <1>4, ThreadsTyped DEF Threads, At
  <2>4. Replacement(t)'
    <3>1. th[t].keep \subseteq View /\ v \notin th[t].keep
      BY <1>2, <2>2 DEF Threads, FreshView
    <3>2. Replacement(t) /\ th[t].pc \in {"create", "retire"}
      BY <1>1, <1>2 DEF Own, At
    <3>3. Distinct(th[t].keep)'
      <4>1. /\ \A w \in th[t].keep : view'[w].def = view[w].def /\ view[w].def # d
            /\ view'[v].def = d
        BY <1>4, <2>2, <3>1, <3>2 DEF Replacement
      <4>2. Distinct(th[t].keep)
        BY <3>2 DEF Replacement
      <4> QED
        BY <2>3, <4>1, <4>2 DEF Distinct
    <3>4. \A w \in th'[t].keep : view'[w].def \notin th'[t].defs
      BY <1>4, <2>2, <2>3, <3>1, <3>2 DEF Replacement
    <3>5. \A w \in View : view'[w].cur # NoSnap => w \in th'[t].keep \union th'[t].todo
      BY <2>2, <2>3, <3>2 DEF Replacement
    <3> QED
      BY <3>3, <3>4, <3>5 DEF Replacement
  <2>5. Sees(t)' /\ Loads(t)'
    BY <1>1, <1>2, <2>3
       DEF Own, Sees, Invalidates, Loads, Editing, EditOps, At, sessionVars
  <2>6. /\ \A x \in Thread \ {t} : Own(x)'
        /\ \A w \in View : FirstLoad(w)'
        /\ \A w \in View : view'[w].cur # NoSnap => snap'[view'[w].cur].edit >= done'
    BY <1>1, <1>2, <1>4, <2>1, <2>3, OneEditor, CreateOthers DEF sessionVars
  <2>7. Distinct(views)'
    <3>1. \A w \in views : w # v /\ w \in View
      BY <2>2 DEF FreshView, IInv, TypeOK
    <3>2. Distinct(views)
      BY DEF EditInv
    <3> QED
      BY <1>1, <2>2, <3>1, <3>2 DEF Distinct, sessionVars
  <2>8. Active'
    BY <2>3 DEF Active, Replacing
  <2> QED
    BY <1>1, <2>4, <2>5, <2>6, <2>7, <2>8 DEF EditInv, Own, sessionVars
<1> QED
  BY <1>3, <1>4 DEF CreateNext

-----------------------------------------------------------------------------
(* Views are shut down. *)

LEMMA ShutdownData ==
  ASSUME IInv, NEW v \in View, ShutdownView(v)
  PROVE  /\ SameData /\ \A w \in View \ {v} : view'[w] = view[w]
         /\ view'[v].cur = NoSnap /\ view'[v].def = view[v].def
         /\ view'[v].iwl = view[v].iwl /\ view'[v].sema = view[v].sema
         /\ view'[v].lpc = view[v].lpc /\ view'[v].lsnap = view[v].lsnap
<1>1. SameData
  <2>1. CASE view[v].cur # NoSnap
    <3>1. Decref(view[v].cur) /\ view[v].cur \in Snap
      BY <2>1 DEF ShutdownView, IInv, TypeOK, Views
    <3> QED
      BY <3>1, DecrefData
  <2>2. CASE view[v].cur = NoSnap
    BY <2>2 DEF ShutdownView, SameData
  <2> QED
    BY <2>1, <2>2
<1>2. \A g \in Views : LET h == [g EXCEPT !.stopped = TRUE, !.cur = NoSnap] IN
        /\ h.cur = NoSnap /\ h.def = g.def /\ h.iwl = g.iwl /\ h.sema = g.sema
        /\ h.lpc = g.lpc /\ h.lsnap = g.lsnap
  BY DEF Views
<1>3. view' = [view EXCEPT ![v].stopped = TRUE, ![v].cur = NoSnap]
  BY DEF ShutdownView
<1>4. /\ \A w \in View \ {v} : view'[w] = view[w]
      /\ view'[v] = [view[v] EXCEPT !.stopped = TRUE, !.cur = NoSnap]
      /\ view[v] \in Views
  BY <1>3 DEF IInv, TypeOK
<1> QED
  BY <1>1, <1>2, <1>4

\* What stays when t shuts a view down.
LEMMA ShutdownOthers ==
  ASSUME IInv, EditInv, NEW t \in Thread, NEW v \in View, ShutdownView(v),
         UNCHANGED sessionVars,
         \A x \in Thread \ {t} : th'[x] = th[x] /\ th[x].op \notin EditOps
  PROVE  /\ \A x \in Thread \ {t} : Own(x)'
         /\ \A w \in View : FirstLoad(w)'
         /\ \A w \in View : view'[w].cur # NoSnap => snap'[view'[w].cur].edit >= done'
         /\ Distinct(views)'
<1>1. /\ SameData /\ \A w \in View \ {v} : view'[w] = view[w]
      /\ view'[v].cur = NoSnap /\ view'[v].def = view[v].def
      /\ view'[v].iwl = view[v].iwl /\ view'[v].sema = view[v].sema
      /\ view'[v].lpc = view[v].lpc /\ view'[v].lsnap = view[v].lsnap
  BY ShutdownData
<1>2. ASSUME NEW x \in Thread \ {t} PROVE Own(x)'
  <2>1. Own(x) /\ th[x] \in Threads
    BY ThreadsTyped DEF EditInv
  <2>2. At(x, "load") => th[x].v \in View /\ th[x].s \in Snap
    BY <2>1 DEF Own, Loads, At
  <2>3. \A w \in th[x].keep : view'[w].def = view[w].def
    BY <1>1, <2>1 DEF Threads
  <2>4. /\ th[x].v \in View => view'[th[x].v].iwl = view[th[x].v].iwl
        /\ th[x].v \in View => view'[th[x].v].sema = view[th[x].v].sema
        /\ th[x].s \in Snap => snap'[th[x].s].inited = snap[th[x].s].inited
    BY <1>1 DEF SameData
  <2>5. Kept /\ done <= done' /\ done' \in Nat
    BY <1>1 DEF Kept, SameData, IInv, TypeOK, sessionVars
  <2> QED
    BY <2>1, <2>2, <2>3, <2>4, <2>5, OtherOwn
<1>3. ASSUME NEW w \in View PROVE FirstLoad(w)'
  <2>1. /\ view'[w].iwl = view[w].iwl /\ view'[w].sema = view[w].sema
        /\ view'[w].lpc = view[w].lpc /\ view'[w].lsnap = view[w].lsnap
    BY <1>1
  <2>2. view[w].lpc \in {"start", "load"} =>
           snap'[view[w].lsnap].inited = snap[view[w].lsnap].inited
    BY <1>1 DEF SameData, IInv, Registry, TypeOK, Views
  <2> QED
    BY <2>1, <2>2 DEF EditInv, FirstLoad
<1>4. ASSUME NEW w \in View, view'[w].cur # NoSnap
      PROVE  snap'[view'[w].cur].edit >= done'
  <2>1. view'[w].cur = view[w].cur /\ view[w].cur \in Snap
    BY <1>1, <1>4 DEF IInv, TypeOK, Views
  <2> QED
    BY <1>1, <1>4, <2>1 DEF EditInv, SameData, sessionVars
<1>5. Distinct(views)'
  <2>1. Distinct(views) /\ views \subseteq View
    BY DEF EditInv, IInv, TypeOK
  <2>2. \A w \in View : view'[w].def = view[w].def
    BY <1>1
  <2> QED
    BY <2>1, <2>2 DEF Distinct, sessionVars
<1> QED
  BY <1>2, <1>3, <1>4, <1>5

LEMMA RetireEdit ==
  ASSUME IInv, EditInv, NEW t \in Thread, Retire(t)
  PROVE  EditInv'
<1>1. At(t, "retire") /\ UNCHANGED sessionVars
  BY DEF Retire
<1>2. th[t].op \in EditOps /\ th[t].held = {} /\ th[t] \in Threads /\ Own(t)
  BY <1>1, ThreadsTyped
     DEF IInv, Threads, Ops, Local, Control, Holds, EditOps, At, EditInv
<1>3. PICK v \in th[t].todo : ShutdownView(v) /\ th' = [th EXCEPT ![t].todo = @ \ {v}]
  BY DEF Retire
<1>4. v \in View
  BY <1>2 DEF Threads
<1>5. /\ \A x \in Thread \ {t} : th'[x] = th[x]
      /\ th'[t].pc = "retire" /\ th'[t].op = th[t].op /\ th'[t].held = {}
      /\ th'[t].v = th[t].v /\ th'[t].began = th[t].began /\ th'[t].keep = th[t].keep
      /\ th'[t].todo = th[t].todo \ {v} /\ th'[t].defs = th[t].defs
      /\ th'[t].cancelled = th[t].cancelled
  BY <1>1, <1>2, <1>3, ThreadsTyped DEF Threads, At
<1>6. /\ \A w \in View \ {v} : view'[w] = view[w]
      /\ view'[v].cur = NoSnap /\ view'[v].def = view[v].def
  BY <1>3, <1>4, ShutdownData
<1>7. /\ \A x \in Thread \ {t} : Own(x)'
      /\ \A w \in View : FirstLoad(w)'
      /\ \A w \in View : view'[w].cur # NoSnap => snap'[view'[w].cur].edit >= done'
      /\ Distinct(views)'
  BY <1>1, <1>2, <1>3, <1>4, <1>5, OneEditor, ShutdownOthers
<1>8. Replacement(t)'
  <2>1. Replacement(t) /\ th[t].pc = "retire" /\ th[t].keep \subseteq View
    BY <1>1, <1>2 DEF Own, At, Threads
  <2>2. \A w \in View : view'[w].def = view[w].def
    BY <1>6
  <2>3. Distinct(th[t].keep)' /\ \A w \in th'[t].keep : view'[w].def \notin th'[t].defs
    BY <1>5, <2>1, <2>2 DEF Replacement, Distinct
  <2>4. \A w \in View : view'[w].cur # NoSnap => w \in th'[t].keep \union th'[t].todo
    BY <1>5, <1>6, <2>1 DEF Replacement
  <2> QED
    BY <2>3, <2>4 DEF Replacement
<1>9. Sees(t)' /\ Loads(t)'
  BY <1>1, <1>2, <1>5
     DEF Own, Sees, Invalidates, Loads, Editing, EditOps, At, sessionVars
<1>10. Active'
  BY <1>5 DEF Active, Replacing
<1> QED
  BY <1>1, <1>7, <1>8, <1>9, <1>10 DEF EditInv, Own, sessionVars

LEMMA StopNextEdit ==
  ASSUME IInv, EditInv, NEW t \in Thread, StopNext(t)
  PROVE  EditInv'
<1>1. At(t, "stop") /\ UNCHANGED sessionVars
  BY DEF StopNext
<1>2. /\ th[t].op = "shutdown" /\ th[t].held = {} /\ th[t] \in Threads /\ Own(t)
      /\ down /\ \A x \in Thread : th[x].op \notin EditOps
  BY <1>1, ThreadsTyped
     DEF IInv, Threads, Ops, Local, Control, Holds, Locks, At, EditInv
<1>3. CASE Goto(t, "drain") /\ UNCHANGED <<wg, view, snap>>
  <2>1. /\ \A x \in Thread \ {t} : th'[x] = th[x]
        /\ th'[t].pc = "drain" /\ th'[t].op = "shutdown" /\ th'[t].held = {}
        /\ th'[t].began = th[t].began
    BY <1>2, <1>3, ThreadsTyped DEF Goto, Threads
  <2>2. Own(t)'
    BY <1>1, <1>2, <2>1, PlainOwn DEF Own, Sees, sessionVars
  <2> QED
    BY <1>1, <1>3, <2>1, <2>2, MapKept, CallFrame DEF SameData, At, sessionVars
<1>4. ASSUME NEW v \in th[t].todo, ShutdownView(v), th' = [th EXCEPT ![t].todo = @ \ {v}]
      PROVE  EditInv'
  <2>1. v \in View
    BY <1>2 DEF Threads
  <2>2. /\ \A x \in Thread \ {t} : th'[x] = th[x]
        /\ th'[t].pc = "stop" /\ th'[t].op = "shutdown" /\ th'[t].held = {}
        /\ th'[t].began = th[t].began
    BY <1>1, <1>2, <1>4, ThreadsTyped DEF Threads, At
  <2>3. Own(t)'
    BY <1>1, <1>2, <2>2, PlainOwn DEF Own, Sees, sessionVars
  <2>4. /\ \A x \in Thread \ {t} : Own(x)'
        /\ \A w \in View : FirstLoad(w)'
        /\ \A w \in View : view'[w].cur # NoSnap => snap'[view'[w].cur].edit >= done'
        /\ Distinct(views)'
    BY <1>1, <1>2, <1>4, <2>1, <2>2, ShutdownOthers
  <2>5. Active'
    BY <1>1, <1>2 DEF Active, sessionVars
  <2> QED
    BY <1>1, <2>3, <2>4, <2>5 DEF EditInv, sessionVars
<1> QED
  BY <1>3, <1>4 DEF StopNext

LEMMA DrainEdit ==
  ASSUME IInv, EditInv, NEW t \in Thread, Drain(t)
  PROVE  EditInv'
<1>1. At(t, "drain") /\ UNCHANGED <<sessionVars, wg, view, snap>>
      /\ th' = [th EXCEPT ![t].pc = "closed"]
  BY DEF Drain, Goto
<1>2. th[t].op = "shutdown" /\ th[t].held = {} /\ Own(t) /\ th[t] \in Threads
  BY <1>1, ThreadsTyped DEF IInv, Threads, Ops, Local, Control, Holds, At, EditInv
<1>3. /\ \A x \in Thread \ {t} : th'[x] = th[x]
      /\ th'[t].pc = "closed" /\ th'[t].op = "shutdown" /\ th'[t].held = {}
      /\ th'[t].began = th[t].began
  BY <1>1, <1>2, ThreadsTyped DEF Threads
<1>4. Own(t)'
  BY <1>1, <1>2, <1>3, PlainOwn DEF Own, Sees, sessionVars
<1> QED
  BY <1>1, <1>3, <1>4, MapKept, CallFrame DEF SameData, At, sessionVars

LEMMA ShutdownCallEdit ==
  ASSUME IInv, EditInv, NEW t \in Thread, Shutdown(t)
  PROVE  EditInv'
<1>1. /\ At(t, "idle") /\ viewMu = Nobody /\ down' = TRUE /\ views' = {}
      /\ viewMap' = [u \in URI |-> Unset]
      /\ th' = [th EXCEPT ![t] = [Idle EXCEPT !.pc = "stop", !.op = "shutdown",
                                              !.todo = views]]
      /\ UNCHANGED <<viewMu, edits, done, wg, view, snap>>
  BY DEF Shutdown
<1>2. /\ \A x \in Thread \ {t} : th'[x] = th[x]
      /\ th'[t].pc = "stop" /\ th'[t].op = "shutdown" /\ th'[t].held = {}
      /\ th'[t].began = 0
  BY <1>1, ThreadsTyped DEF Idle
<1>3. Own(t)'
  BY <1>1, <1>2, PlainOwn DEF IInv, TypeOK
<1>4. ASSUME NEW x \in Thread \ {t} PROVE Own(x)'
  <2>1. Own(x) /\ th[x].op \notin EditOps
    BY <1>1, NoEditor DEF EditInv
  <2>2. Kept /\ done <= done' /\ done' \in Nat
    BY <1>1 DEF Kept, IInv, TypeOK
  <2> QED
    BY <1>1, <1>2, <2>1, <2>2, OtherOwn
<1>5. Distinct(views)' /\ Active' /\ \A u \in URI : viewMap'[u] = Unset
  BY <1>1 DEF Distinct, Active
<1>6. \A v \in View : FirstLoad(v)'
  BY <1>1 DEF EditInv, FirstLoad
<1> QED
  BY <1>1, <1>3, <1>4, <1>5, <1>6 DEF EditInv

-----------------------------------------------------------------------------
(* Calls that take viewMu. *)

\* While nobody holds viewMu the views with a snapshot are the active ones.
LEMMA AllActive ==
  ASSUME IInv, EditInv, ~down, viewMu = Nobody
  PROVE  ~Replacing /\ \A v \in View : view[v].cur # NoSnap => v \in views
<1>1. ~Replacing
  BY NoEditor, ThreadsTyped
     DEF Replacing, IInv, Local, Control, EditOps, Threads, Ops, At
<1> QED
  BY <1>1 DEF EditInv, Active

LEMMA BeginFrame ==
  ASSUME IInv, EditInv, NEW t \in Thread, \A x \in Thread \ {t} : th'[x] = th[x],
         viewMu = Nobody, UNCHANGED <<views, down, done, view, snap>>,
         edits' \in {edits, edits + 1},
         \A u \in URI : viewMap'[u] \in views \union {NoView, Unset},
         Own(t)'
  PROVE  EditInv'
<1>1. ASSUME NEW x \in Thread \ {t} PROVE Own(x)'
  <2>1. Own(x) /\ th[x].op \notin EditOps
    BY NoEditor DEF EditInv
  <2>2. Kept /\ done <= done' /\ done' \in Nat
    BY DEF Kept, IInv, TypeOK
  <2> QED
    BY <2>1, <2>2, OtherOwn
<1>2. Active'
  BY AllActive DEF Active
<1>3. done' <= edits'
  BY DEF EditInv, IInv, TypeOK
<1>4. Distinct(views)'
  BY DEF EditInv, Distinct
<1> QED
  BY <1>1, <1>2, <1>3, <1>4 DEF EditInv, FirstLoad

LEMMA RemoveViewEdit ==
  ASSUME IInv, EditInv, NEW t \in Thread, NEW f \in Folder, RemoveView(t, f)
  PROVE  EditInv'
<1> DEFINE gone == {v \in views : FolderOf[view[v].def] = f}
<1>1. /\ viewMu = Nobody /\ ~down
      /\ UNCHANGED <<views, viewMap, down, edits, done, wg, view, snap>>
      /\ th' = [th EXCEPT ![t] = [Idle EXCEPT !.pc = "retire", !.op = "remove",
                                              !.todo = gone, !.keep = views \ gone]]
  BY DEF RemoveView
<1>2. /\ \A x \in Thread \ {t} : th'[x] = th[x]
      /\ th'[t].pc = "retire" /\ th'[t].op = "remove" /\ th'[t].held = {}
      /\ th'[t].todo = gone /\ th'[t].keep = views \ gone /\ th'[t].defs = {}
      /\ th'[t].began = 0
  BY <1>1, ThreadsTyped DEF Idle
<1> HIDE DEF gone
<1>3. Replacement(t)'
  BY <1>1, <1>2, AllActive DEF EditInv, Replacement, Distinct
<1>4. Own(t)'
  BY <1>1, <1>2, <1>3 DEF Own, Sees, Invalidates, Loads, Editing, At, IInv, TypeOK
<1> QED
  BY <1>1, <1>2, <1>4, MapKept, BeginFrame

LEMMA ResetViewEdit ==
  ASSUME IInv, EditInv, NEW t \in Thread, NEW u \in File, ResetView(t, u)
  PROVE  EditInv'
<1>1. /\ At(t, "idle") /\ viewMu = Nobody /\ ~down
      /\ UNCHANGED <<views, down, edits, done, wg, view, snap>>
  BY DEF ResetView
<1>2. PICK v \in Best(u) :
        /\ viewMap' = [viewMap EXCEPT ![u] = v]
        /\ \/ v = NoView /\ UNCHANGED <<viewMu, th>>
           \/ /\ v # NoView
              /\ viewMu' = t
              /\ th' = [th EXCEPT ![t] = [Idle EXCEPT !.pc = "create", !.op = "reset",
                           !.defs = {view[v].def}, !.todo = {v}, !.keep = views \ {v}]]
  BY DEF ResetView
<1>3. v \in views \union {NoView}
  BY DEF Best, EditInv, URI
<1>4. \A w \in URI : viewMap'[w] \in views \union {NoView, Unset}
  BY <1>2, <1>3 DEF EditInv, IInv, TypeOK
<1>5. CASE v = NoView /\ UNCHANGED <<viewMu, th>>
  <2>1. Own(t)'
    BY <1>1, <1>5 DEF EditInv, Own, Replacement, Distinct, Sees, Invalidates, Loads,
                      Editing, At
  <2> QED
    BY <1>1, <1>4, <1>5, <2>1, BeginFrame
<1>6. CASE /\ v # NoView
           /\ th' = [th EXCEPT ![t] = [Idle EXCEPT !.pc = "create", !.op = "reset",
                        !.defs = {view[v].def}, !.todo = {v}, !.keep = views \ {v}]]
  <2>1. /\ \A x \in Thread \ {t} : th'[x] = th[x]
        /\ th'[t].pc = "create" /\ th'[t].op = "reset" /\ th'[t].held = {}
        /\ th'[t].todo = {v} /\ th'[t].keep = views \ {v} /\ th'[t].defs = {view[v].def}
        /\ th'[t].began = 0
    BY <1>6, ThreadsTyped DEF Idle
  <2>2. v \in views /\ Distinct(views)
    BY <1>3, <1>6 DEF EditInv
  <2>3. Replacement(t)'
    BY <1>1, <2>1, <2>2, AllActive DEF Replacement, Distinct
  <2>4. Own(t)'
    BY <1>1, <2>1, <2>3 DEF Own, Sees, Invalidates, Loads, Editing, At, IInv, TypeOK
  <2> QED
    BY <1>1, <1>4, <2>1, <2>4, BeginFrame
<1> QED
  BY <1>2, <1>5, <1>6

LEMMA DidModifyFilesEdit ==
  ASSUME IInv, EditInv, NEW t \in Thread, DidModifyFiles(t)
  PROVE  EditInv'
<1> DEFINE Same(ds) == {v \in views : view[v].def \in ds}
<1>1. /\ viewMu = Nobody /\ ~down /\ edits' = edits + 1
      /\ UNCHANGED <<views, viewMap, down, done, wg, view, snap>>
  BY DEF DidModifyFiles
<1>2. CASE th' = [th EXCEPT ![t] = [Idle EXCEPT !.pc = "assoc", !.op = "modify"]]
  <2>1. /\ \A x \in Thread \ {t} : th'[x] = th[x]
        /\ th'[t].pc = "assoc" /\ th'[t].op = "modify" /\ th'[t].held = {}
        /\ th'[t].v = NoView /\ th'[t].began = 0 /\ th'[t].cancelled = FALSE
    BY <1>2, ThreadsTyped DEF Idle
  <2>2. Own(t)'
    BY <1>1, <2>1
       DEF Own, Replacement, Sees, Invalidates, Loads, Editing, At, IInv, TypeOK
  <2> QED
    BY <1>1, <2>1, <2>2, MapKept, BeginFrame
<1>3. ASSUME NEW ds \in SUBSET Def, NEW same \in SUBSET views,
             th' = [th EXCEPT ![t] = [Idle EXCEPT
                       !.pc = "create", !.op = "modify",
                       !.defs = ds \ {view[v].def : v \in same},
                       !.todo = views \ same, !.keep = same]]
      PROVE  EditInv'
  <2>1. /\ \A x \in Thread \ {t} : th'[x] = th[x]
        /\ th'[t].pc = "create" /\ th'[t].op = "modify" /\ th'[t].held = {}
        /\ th'[t].todo = views \ same /\ th'[t].keep = same
        /\ th'[t].defs = ds \ {view[v].def : v \in same}
        /\ th'[t].v = NoView /\ th'[t].began = 0 /\ th'[t].cancelled = FALSE
    BY <1>3, ThreadsTyped DEF Idle
  <2>2. Replacement(t)'
    <3>1. Distinct(views) /\ \A v \in View : view[v].cur # NoSnap => v \in views
      BY <1>1, AllActive DEF EditInv
    <3> QED
      BY <1>1, <2>1, <3>1 DEF Replacement, Distinct
  <2>3. Own(t)'
    BY <1>1, <2>1, <2>2 DEF Own, Sees, Invalidates, Loads, Editing, At, IInv, TypeOK
  <2> QED
    BY <1>1, <2>1, <2>3, MapKept, BeginFrame
<1>4. ASSUME NEW ds \in SUBSET Def,
             th' = [th EXCEPT ![t] = [Idle EXCEPT
                       !.pc = "create", !.op = "modify",
                       !.defs = ds \ {view[v].def : v \in Same(ds)},
                       !.todo = views \ Same(ds), !.keep = Same(ds)]]
      PROVE  EditInv'
  <2>1. Same(ds) \in SUBSET views
    OBVIOUS
  <2> HIDE DEF Same
  <2> QED
    BY <1>3, <1>4, <2>1
<1> QED
  BY <1>2, <1>4 DEF DidModifyFiles

LEMMA InvalidateViewEdit ==
  ASSUME IInv, EditInv, NEW t \in Thread, InvalidateView(t)
  PROVE  EditInv'
<1>1. /\ viewMu = Nobody
      /\ UNCHANGED <<views, viewMap, down, edits, done, wg, view, snap>>
  BY DEF InvalidateView
<1>2. PICK v \in views :
        th' = [th EXCEPT ![t] = [Idle EXCEPT !.pc = "await", !.op = "invalidate",
                                             !.v = v, !.s = view[v].cur, !.began = done]]
  BY DEF InvalidateView
<1>3. v \in View /\ view[v].cur # NoSnap
  BY <1>1, NoEditor DEF IInv, TypeOK
<1>4. view[v].cur \in Snap /\ snap[view[v].cur].of = v
  BY <1>3, CurrentSeen
<1>5. /\ \A x \in Thread \ {t} : th'[x] = th[x]
      /\ th'[t].pc = "await" /\ th'[t].op = "invalidate" /\ th'[t].held = {}
      /\ th'[t].v = v /\ th'[t].s = view[v].cur /\ th'[t].began = done
      /\ th'[t].cancelled = FALSE
  BY <1>2, ThreadsTyped DEF Idle
<1>6. Own(t)'
  BY <1>1, <1>3, <1>4, <1>5
     DEF Own, Replacement, Sees, Invalidates, Loads, Editing, At, IInv, TypeOK
<1> QED
  BY <1>1, <1>5, <1>6, MapKept, BeginFrame

-----------------------------------------------------------------------------
(* The steps of an edit. *)

LEMMA CommitEdit ==
  ASSUME IInv, EditInv, NEW t \in Thread, Commit(t)
  PROVE  EditInv'
<1>1. /\ At(t, "retire") /\ th[t].todo = {} /\ views' = th[t].keep
      /\ viewMap' = [u \in URI |-> Unset]
      /\ UNCHANGED <<down, edits, done, wg, view, snap>>
      /\ \/ Editing(t) /\ Goto(t, "assoc")
         \/ ~Editing(t) /\ Return(t)
  BY DEF Commit
<1>2. /\ th[t].op \in EditOps /\ th[t].held = {} /\ th[t] \in Threads /\ Own(t)
      /\ Replacement(t)
  BY <1>1, ThreadsTyped
     DEF IInv, Threads, Ops, Local, Control, Holds, EditOps, At, EditInv, Own
<1>3. Own(t)' /\ \A x \in Thread \ {t} : th'[x] = th[x]
  <2>1. CASE Editing(t) /\ Goto(t, "assoc")
    <3>1. th[t].op = "modify"
      BY <1>1, <1>2, <2>1 DEF Editing, IInv, Local, Control, At
    <3>2. /\ \A x \in Thread \ {t} : th'[x] = th[x]
          /\ th'[t].pc = "assoc" /\ th'[t].op = "modify" /\ th'[t].held = {}
          /\ th'[t].v = th[t].v /\ th'[t].began = th[t].began
          /\ th'[t].cancelled = th[t].cancelled
      BY <1>2, <2>1, <3>1, ThreadsTyped DEF Goto, Threads
    <3>3. Own(t)'
      BY <1>1, <1>2, <3>1, <3>2
         DEF Own, Replacement, Sees, Invalidates, Loads, Editing, At
    <3> QED
      BY <3>2, <3>3
  <2>2. CASE Return(t)
    BY <1>1, <2>2, ReturnOwn DEF IInv, TypeOK
  <2> QED
    BY <1>1, <2>1, <2>2
<1>4. ASSUME NEW x \in Thread \ {t} PROVE Own(x)'
  <2>1. Own(x) /\ th[x].op \notin EditOps
    BY <1>2, OneEditor DEF EditInv
  <2>2. Kept /\ done <= done' /\ done' \in Nat
    BY <1>1 DEF Kept, IInv, TypeOK
  <2> QED
    BY <1>1, <1>3, <2>1, <2>2, OtherOwn
<1>5. Distinct(views)' /\ Active'
  BY <1>1, <1>2 DEF Replacement, Distinct, Active, At
<1>6. \A u \in URI : viewMap'[u] = Unset
  BY <1>1
<1> QED
  BY <1>1, <1>3, <1>4, <1>5, <1>6 DEF EditInv, FirstLoad

LEMMA AssociateEdit ==
  ASSUME IInv, EditInv, NEW t \in Thread, Associate(t)
  PROVE  EditInv'
<1>1. /\ At(t, "assoc") /\ UNCHANGED <<viewMu, views, down, edits, done, wg, view, snap>>
      /\ th' = [th EXCEPT ![t].pc = "inval", ![t].keep = {}, ![t].todo = views]
  BY DEF Associate
<1>2. /\ th[t].op = "modify" /\ th[t].held = {} /\ th[t] \in Threads /\ Own(t)
  BY <1>1, ThreadsTyped DEF IInv, Threads, Ops, Local, Control, Holds, At, EditInv
<1>3. PICK u \in File : \E v \in Best(u) : viewMap' = [viewMap EXCEPT ![u] = v]
  BY DEF Associate
<1>4. PICK v \in Best(u) : viewMap' = [viewMap EXCEPT ![u] = v]
  BY <1>3
<1>5. \A w \in URI : viewMap'[w] \in views \union {NoView, Unset}
  <2>1. v \in views \union {NoView, Unset}
    BY DEF Best, EditInv, URI
  <2> QED
    BY <1>4, <2>1 DEF EditInv, IInv, TypeOK
<1>6. /\ \A x \in Thread \ {t} : th'[x] = th[x]
      /\ th'[t].pc = "inval" /\ th'[t].op = "modify" /\ th'[t].held = {}
      /\ th'[t].v = th[t].v /\ th'[t].began = th[t].began /\ th'[t].todo = views
      /\ th'[t].cancelled = th[t].cancelled
  BY <1>1, <1>2, ThreadsTyped DEF Threads
<1>7. Own(t)'
  BY <1>1, <1>2, <1>6 DEF Own, Replacement, Sees, Invalidates, Loads, Editing, At
<1> QED
  BY <1>1, <1>5, <1>6, <1>7, CallFrame DEF SameData, At

LEMMA InvalidateEdit ==
  ASSUME IInv, EditInv, NEW t \in Thread, Invalidate(t)
  PROVE  EditInv'
<1>1. At(t, "inval") /\ UNCHANGED <<sessionVars, wg, view, snap>>
  BY DEF Invalidate
<1>2. /\ th[t].op = "modify" /\ th[t].held = {} /\ th[t] \in Threads /\ Own(t)
  BY <1>1, ThreadsTyped DEF IInv, Threads, Ops, Local, Control, Holds, At, EditInv
<1>3. PICK v \in th[t].todo :
        th' = [th EXCEPT ![t].pc = "await", ![t].v = v, ![t].s = view[v].cur,
                         ![t].todo = @ \ {v}]
  BY DEF Invalidate
<1>4. v \in View /\ view[v].cur # NoSnap
  BY <1>1, <1>2, EditorAtRest DEF IInv, TypeOK, Local, Visits, EditOps, At
<1>5. view[v].cur \in Snap /\ snap[view[v].cur].of = v
  BY <1>4, CurrentSeen
<1>6. /\ \A x \in Thread \ {t} : th'[x] = th[x]
      /\ th'[t].pc = "await" /\ th'[t].op = "modify" /\ th'[t].held = {}
      /\ th'[t].v = v /\ th'[t].s = view[v].cur /\ th'[t].began = th[t].began
      /\ th'[t].todo = th[t].todo \ {v} /\ th'[t].cancelled = th[t].cancelled
  BY <1>2, <1>3, ThreadsTyped DEF Threads
<1>7. Sees(t)'
  <2>1. /\ th[t].v = NoView /\ th[t].began <= done
        /\ \A w \in views \ th[t].todo : w # th[t].v => snap[view[w].cur].edit = edits
    BY <1>1, <1>2 DEF Own, Sees, Invalidates, At
  <2>2. \A w \in views : w # NoView
    BY SessionAssumption DEF IInv, TypeOK
  <2> QED
    BY <1>1, <1>6, <2>1, <2>2 DEF Sees, sessionVars
<1>8. Own(t)'
  BY <1>1, <1>2, <1>4, <1>5, <1>6, <1>7 DEF Own, Replacement, Loads, Editing, At
<1> QED
  BY <1>1, <1>6, <1>8, MapKept, CallFrame DEF SameData, At, sessionVars

LEMMA DropEdit ==
  ASSUME IInv, EditInv, NEW t \in Thread, Drop(t)
  PROVE  EditInv'
<1>1. At(t, "drop") /\ UNCHANGED <<sessionVars, view>>
      /\ th' = [th EXCEPT ![t].pc = "inval", ![t].held = {}]
  BY DEF Drop
<1>2. /\ th[t].op = "modify" /\ th[t] \in Threads /\ Own(t)
  BY <1>1, ThreadsTyped DEF IInv, Threads, Ops, Local, Control, At, EditInv
<1>3. PICK s \in th[t].held : Decref(s)
  BY DEF Drop
<1>4. SameData
  BY <1>2, <1>3, DecrefData DEF Threads
<1>5. /\ \A x \in Thread \ {t} : th'[x] = th[x]
      /\ th'[t].pc = "inval" /\ th'[t].op = "modify" /\ th'[t].held = {}
      /\ th'[t].v = th[t].v /\ th'[t].began = th[t].began /\ th'[t].todo = th[t].todo
      /\ th'[t].cancelled = th[t].cancelled
  BY <1>1, <1>2, ThreadsTyped DEF Threads
<1>6. Sees(t)'
  <2>1. /\ th[t].v = NoView /\ th[t].began <= done
        /\ \A w \in views \ th[t].todo : w # th[t].v => snap[view[w].cur].edit = edits
    BY <1>1, <1>2 DEF Own, Sees, Invalidates, At
  <2>2. \A w \in views : view[w].cur \in Snap
    BY <1>1, <1>2, EditorAtRest DEF EditOps, At, IInv, TypeOK, Views
  <2> QED
    BY <1>1, <1>4, <1>5, <2>1, <2>2 DEF Sees, SameData, sessionVars
<1>7. Own(t)'
  BY <1>1, <1>2, <1>5, <1>6 DEF Own, Replacement, Loads, Editing, At
<1> QED
  BY <1>1, <1>4, <1>5, <1>7, MapKept, CallFrame DEF At, sessionVars

\* When DidModifyFiles returns, every snapshot that can be taken has seen its edit.
LEMMA EndModifyEdit ==
  ASSUME IInv, EditInv, NEW t \in Thread, EndModify(t)
  PROVE  EditInv'
<1>1. /\ At(t, "inval") /\ th[t].todo = {} /\ Return(t) /\ done' = edits
      /\ UNCHANGED <<views, viewMap, down, edits, wg, view, snap>>
  BY DEF EndModify
<1>2. th[t].op = "modify" /\ th[t].op \in EditOps /\ Own(t)
  BY <1>1, ThreadsTyped DEF IInv, Threads, Ops, Local, Control, At, EditInv, EditOps
<1>3. done' \in Nat /\ done <= done'
  BY <1>1 DEF EditInv, IInv, TypeOK
<1>4. /\ Own(t)' /\ \A x \in Thread \ {t} : th'[x] = th[x]
      /\ th'[t].pc = "idle"
  BY <1>1, <1>3, ReturnOwn DEF IInv
<1>5. ASSUME NEW x \in Thread \ {t} PROVE Own(x)'
  <2>1. Own(x) /\ th[x].op \notin EditOps
    BY <1>2, OneEditor DEF EditInv
  <2>2. Kept
    BY <1>1 DEF Kept
  <2> QED
    BY <1>1, <1>3, <1>4, <2>1, <2>2, OtherOwn
<1>6. ~Replacing /\ ~down
  BY <1>1, <1>2, OneEditor, ThreadsTyped
     DEF Replacing, IInv, Local, Control, EditOps, Threads, Ops, At
<1>7. ASSUME NEW v \in View, view[v].cur # NoSnap PROVE snap[view[v].cur].edit >= edits
  <2>1. v \in views
    BY <1>6, <1>7 DEF EditInv, Active
  <2>2. th[t].v = NoView /\ v # NoView
    BY <1>1, <1>2, SessionAssumption DEF Own, Sees, At
  <2>3. snap[view[v].cur].edit = edits
    BY <1>1, <1>2, <2>1, <2>2 DEF Own, Sees, Invalidates, At
  <2> QED
    BY <2>3 DEF IInv, TypeOK
<1>8. Active'
  BY <1>1, <1>6 DEF EditInv, Active
<1>9. done' <= edits' /\ Distinct(views)'
  BY <1>1 DEF EditInv, Distinct, IInv, TypeOK
<1> QED
  BY <1>1, <1>4, <1>5, <1>7, <1>8, <1>9 DEF EditInv, FirstLoad

LEMMA SwapEdit ==
  ASSUME IInv, EditInv, NEW t \in Thread, Swap(t)
  PROVE  EditInv'
<1> DEFINE v == th[t].v  old == th[t].s
<1>1. At(t, "swap") /\ UNCHANGED <<views, viewMap, down, edits, done>>
  BY DEF Swap
<1>2. /\ th[t].op \in {"modify", "invalidate"} /\ th[t].op \in EditOps
      /\ th[t] \in Threads /\ Own(t)
  BY <1>1, ThreadsTyped DEF IInv, Threads, Ops, Local, Control, EditOps, At, EditInv
<1>3. /\ v \in View /\ old \in Snap /\ view[v].cur = old /\ old # NoSnap
      /\ snap[old].of = v
  BY <1>1, <1>2 DEF IInv, Local, Visits, Editing, At, Own, Loads
<1>4. PICK s \in Snap, reinit \in BOOLEAN :
        /\ FreshSnap(s)
        /\ snap' = [snap EXCEPT ![old].refs = @ - 1,
                                ![s] = [Clone(old, reinit) EXCEPT !.refs = 2]]
        /\ view' = [view EXCEPT ![v].cur = s]
        /\ IF th[t].op = "modify"
           THEN th' = [th EXCEPT ![t].pc = "drop", ![t].s = NoSnap, ![t].v = NoView,
                                 ![t].held = {s}]
           ELSE Use(t, {s})
  BY DEF Swap
<1>5. s # old
  BY <1>3, <1>4 DEF FreshSnap
<1>6. /\ snap'[s].of = v /\ snap'[s].edit = edits
      /\ \A x \in Snap \ {s} : /\ snap'[x].edit = snap[x].edit /\ snap'[x].of = snap[x].of
                               /\ snap'[x].inited = snap[x].inited
  <2>1. snap'[s] = [Clone(old, reinit) EXCEPT !.refs = 2]
    BY <1>4 DEF IInv, TypeOK
  <2>2. snap'[s].of = v /\ snap'[s].edit = edits
    BY <1>3, <2>1 DEF Clone
  <2>3. \A x \in Snap \ {s, old} : snap'[x] = snap[x]
    BY <1>4 DEF IInv, TypeOK
  <2>4. snap'[old] = [snap[old] EXCEPT !.refs = @ - 1] /\ snap[old] \in Snaps
    BY <1>3, <1>4, <1>5 DEF IInv, TypeOK
  <2>5. \A g \in Snaps : LET h == [g EXCEPT !.refs = @ - 1] IN
          h.edit = g.edit /\ h.of = g.of /\ h.inited = g.inited
    BY DEF Snaps
  <2> QED
    BY <2>2, <2>3, <2>4, <2>5
<1>7. /\ view'[v].cur = s
      /\ \A w \in View : /\ view'[w].def = view[w].def /\ view'[w].lsnap = view[w].lsnap
                         /\ view'[w].lpc = view[w].lpc /\ view'[w].iwl = view[w].iwl
                         /\ view'[w].sema = view[w].sema
                         /\ w # v => view'[w].cur = view[w].cur
  <2>1. \A g \in Views : LET h == [g EXCEPT !.cur = s] IN
          /\ h.cur = s /\ h.def = g.def /\ h.lsnap = g.lsnap /\ h.lpc = g.lpc
          /\ h.iwl = g.iwl /\ h.sema = g.sema
    BY DEF Views
  <2>2. /\ view'[v] = [view[v] EXCEPT !.cur = s] /\ view[v] \in Views
        /\ \A w \in View \ {v} : view'[w] = view[w]
    BY <1>3, <1>4 DEF IInv, TypeOK
  <2>3. /\ view'[v].cur = s /\ view'[v].def = view[v].def
        /\ view'[v].lsnap = view[v].lsnap /\ view'[v].lpc = view[v].lpc
        /\ view'[v].iwl = view[v].iwl /\ view'[v].sema = view[v].sema
    BY <2>1, <2>2
  <2> QED
    BY <2>2, <2>3
<1>8. Kept /\ done <= done' /\ done' \in Nat /\ edits \in Nat /\ done <= edits
  BY <1>1, <1>4, <1>6 DEF Kept, IInv, TypeOK, EditInv
<1>9. /\ Own(t)' /\ \A x \in Thread \ {t} : th'[x] = th[x]
      /\ th'[t].pc \notin {"create", "retire"}
  <2>1. CASE th[t].op = "modify"
    <3>1. /\ \A x \in Thread \ {t} : th'[x] = th[x]
          /\ th'[t].pc = "drop" /\ th'[t].op = "modify" /\ th'[t].held = {s}
          /\ th'[t].v = NoView /\ th'[t].began = th[t].began /\ th'[t].todo = th[t].todo
          /\ th'[t].cancelled = th[t].cancelled
      BY <1>2, <1>4, <2>1, ThreadsTyped DEF Threads
    <3>2. Sees(t)'
      <4>1. ASSUME NEW w \in views \ th[t].todo PROVE snap'[view'[w].cur].edit = edits
        <5>1. CASE w = v
          BY <1>6, <1>7, <5>1
        <5>2. CASE w # v
          <6>1. snap[view[w].cur].edit = edits
            BY <1>1, <1>2, <2>1, <4>1, <5>2 DEF Own, Sees, Invalidates, At
          <6>2. view'[w].cur = view[w].cur /\ view[w].cur \in Snap \ {s}
            BY <1>1, <1>2, <1>4, <1>7, <4>1, <5>2, EditorAtRest
               DEF FreshSnap, At, IInv, TypeOK, Views
          <6> QED
            BY <1>6, <6>1, <6>2
        <5> QED
          BY <5>1, <5>2
      <4> QED
        BY <1>1, <1>2, <3>1, <4>1 DEF Own, Sees
    <3>3. Own(t)'
      BY <1>2, <1>3, <1>6, <2>1, <3>1, <3>2
         DEF Own, Replacement, Loads, Editing, At
    <3> QED
      BY <3>1, <3>3
  <2>2. CASE th[t].op # "modify"
    <3>1. th[t].began <= done' /\ th[t].began \in Nat
      BY <1>1, <1>2 DEF Own, Sees, Threads
    <3>2. \A x \in {s} : snap'[x].edit >= th[t].began /\ snap'[x].of \in View
      BY <1>1, <1>3, <1>6, <1>8, <3>1 DEF IInv, TypeOK
    <3>3. Use(t, {s})
      BY <1>4, <2>2
    <3>4. /\ Own(t)' /\ \A x \in Thread \ {t} : th'[x] = th[x]
          /\ th'[t].pc = "using"
      BY <3>1, <3>2, <3>3, UseOwn DEF IInv
    <3> QED
      BY <3>4
  <2> QED
    BY <2>1, <2>2
<1>10. ASSUME NEW x \in Thread \ {t} PROVE Own(x)'
  <2>1. Own(x) /\ th[x] \in Threads /\ th[x].op \notin EditOps
    BY <1>2, OneEditor, ThreadsTyped DEF EditInv
  <2>2. At(x, "load") => th[x].v \in View /\ th[x].s \in Snap \ {s}
    BY <1>4, <2>1 DEF Own, Loads, At, FreshSnap
  <2>3. \A w \in th[x].keep : view'[w].def = view[w].def
    BY <1>7, <2>1 DEF Threads
  <2> QED
    BY <1>1, <1>6, <1>7, <1>8, <1>9, <2>1, <2>2, <2>3, OtherOwn
<1>11. ASSUME NEW w \in View PROVE FirstLoad(w)'
  <2>1. view[w].lpc \in {"start", "load"} => view[w].lsnap \in Snap \ {s}
    BY <1>4 DEF FreshSnap, IInv, Registry, TypeOK, Views
  <2> QED
    BY <1>6, <1>7, <2>1 DEF EditInv, FirstLoad
<1>12. ASSUME NEW w \in View, view'[w].cur # NoSnap
       PROVE  snap'[view'[w].cur].edit >= done
  <2>1. CASE w = v
    BY <1>1, <1>6, <1>7, <1>8, <2>1 DEF IInv, TypeOK
  <2>2. CASE w # v
    <3>1. view'[w].cur = view[w].cur /\ view[w].cur \in Snap \ {s}
      BY <1>4, <1>7, <1>12, <2>2 DEF FreshSnap, IInv, TypeOK, Views
    <3> QED
      BY <1>6, <1>12, <3>1 DEF EditInv
  <2> QED
    BY <2>1, <2>2
<1>13. Active'
  <2>1. Replacing => Replacing'
    BY <1>1, <1>9 DEF Replacing, At
  <2>2. \A w \in View : view'[w].cur # NoSnap => view[w].cur # NoSnap
    BY <1>3, <1>7
  <2> QED
    BY <1>1, <2>1, <2>2 DEF EditInv, Active
<1>14. Distinct(views)'
  <2>1. Distinct(views) /\ views \subseteq View
    BY DEF EditInv, IInv, TypeOK
  <2> QED
    BY <1>1, <1>7, <2>1 DEF Distinct
<1> QED
  BY <1>1, <1>8, <1>9, <1>10, <1>11, <1>12, <1>13, <1>14 DEF EditInv

-----------------------------------------------------------------------------
LEMMA NextEdit ==
  ASSUME IInv, EditInv, [Next]_vars
  PROVE  EditInv'
<1>1. CASE UNCHANGED vars
  BY <1>1 DEF vars, sessionVars, EditInv, Distinct, Active, Replacing, Own, Replacement,
              Sees, Invalidates, Loads, FirstLoad, Editing, At
<1>2. ASSUME NEW t \in Thread, Begin(t) PROVE EditInv'
  BY <1>2, SnapshotOfEdit, ToolCallEdit, NewViewEdit, RemoveViewEdit, ResetViewEdit,
     DidModifyFilesEdit, InvalidateViewEdit, ShutdownCallEdit DEF Begin
<1>3. ASSUME NEW t \in Thread, Request(t) PROVE EditInv'
  BY <1>3, FastSnapshotEdit, ForgetEdit, ListViewsEdit, SearchEdit, MatchEdit,
     LastResortEdit, CollectEdit, ReleaseEdit DEF Request
<1>4. ASSUME NEW t \in Thread, Initialize(t) PROVE EditInv'
  BY <1>4, AwaitInitializedEdit, InitBeginEdit, InitEndEdit DEF Initialize
<1>5. ASSUME NEW t \in Thread, Edit(t) PROVE EditInv'
  BY <1>5, CreateNextEdit, RetireEdit, CommitEdit, AssociateEdit, InvalidateEdit,
     SwapEdit, DropEdit, EndModifyEdit DEF Edit
<1>6. ASSUME NEW t \in Thread, Stop(t) PROVE EditInv'
  BY <1>6, StopNextEdit, DrainEdit DEF Stop
<1>7. ASSUME NEW v \in View, Load(v) PROVE EditInv'
  BY <1>7, LoaderSkipEdit, LoaderBeginEdit, LoaderEndEdit, LoaderReleaseEdit DEF Load
<1>8. CASE Next
  BY <1>2, <1>3, <1>4, <1>5, <1>6, <1>7, <1>8, UseLoadedEdit, CancelRequestEdit DEF Next
<1> QED
  BY <1>1, <1>8

\* Both invariants hold in every reachable state (session.go, view.go, snapshot.go).
THEOREM EditInvariance == Spec => []EditInv
<1>1. Init => EditInv
  BY InitEditInv
<1>2. IInv /\ EditInv /\ [Next]_vars => EditInv'
  BY NextEdit
<1> QED
  BY <1>1, <1>2, Invariance, PTL DEF Spec

\* Between edits every active view has a current snapshot, no two active views have
\* the same definition (session.go:595), and files are associated with active views
\* only (session.go:67), however edits replaced the views.
THEOREM RegistryStaysConsistent == Spec => []RegistryConsistent
<1>1. IInv /\ EditInv => RegistryConsistent
  BY NoEditor DEF EditInv, Distinct, RegistryConsistent
<1> QED
  BY <1>1, Invariance, EditInvariance, PTL

\* A request holds no snapshot older than the edits it must see.
LEMMA SeenByRequests ==
  ASSUME IInv, EditInv
  PROVE  RequestsSeeEdits
<1>1. ASSUME NEW t \in Thread, At(t, "using")
      PROVE  \A s \in th[t].held : snap[s].edit >= th[t].began
  <2>1. th[t].op = "request"
    BY <1>1, ThreadsTyped DEF IInv, Threads, Ops, Local, Control, At
  <2> QED
    BY <1>1, <2>1, HeldSeen
<1> QED
  BY <1>1 DEF RequestsSeeEdits

\* A request that begins after DidModifyFiles has returned works on a snapshot that has
\* seen the edit (session.go:382-454, 784-953).
THEOREM EditsAreSeen == Spec => []RequestsSeeEdits
<1>1. IInv /\ EditInv => RequestsSeeEdits
  BY SeenByRequests
<1> QED
  BY <1>1, Invariance, EditInvariance, PTL

\* A snapshot is initialized by one goroutine at a time and at most once
\* (snapshot.go:97-100), and cloned only when it is initialized (view.go:801).
THEOREM LoadsHappenOnce == Spec => []InitializedOnce
<1>1. IInv /\ EditInv => InitializedOnce
  BY DEF EditInv, Own, Loads, FirstLoad, InitializedOnce, At
<1> QED
  BY <1>1, Invariance, EditInvariance, PTL

-----------------------------------------------------------------------------
(* Nobody waits in vain.  That a load which goes on ends is fairness, and left to TLC; *)
(* that there is one for whoever waits is the invariant proved here.                   *)

\* The load that the view's waiters wait for can go on, and needs no lock.
LoadGoesOn(v) == \/ view[v].lpc = "load"
                 \/ view[v].lpc = "start" /\ view[v].sema = Nobody
                 \/ \E x \in Thread : At(x, "load") /\ th[x].v = v

NobodyWaitsInVain ==
    /\ viewMu # Nobody => th[viewMu].op \in EditOps
    /\ \A t \in Thread : At(t, "await") =>
          /\ view[th[t].v].iwl \/ view[th[t].v].stopped \/ LoadGoesOn(th[t].v)
          /\ Editing(t) => ~view[th[t].v].stopped
    /\ \A t \in Thread : At(t, "init") =>
          view[th[t].v].sema = Nobody \/ LoadGoesOn(th[t].v)

\* Whoever is in initializationSema is loading; a view's first load is not given up unless
\* the view is shut down.
Loaded(v) == view[v].iwl \/ view[v].stopped \/ view[v].lpc \in {"start", "load"}
Semaphore(v) ==
    /\ view[v].sema \in Thread => At(view[v].sema, "load") /\ th[view[v].sema].v = v
    /\ view[v].sema = Loader => view[v].lpc = "load"
    /\ view[v].cur # NoSnap => ~view[v].stopped
WaitInv ==
    /\ viewMu # Nobody => th[viewMu].op \in EditOps
    /\ \A v \in View : Semaphore(v)
    /\ \A s \in Snap : snap[s].of \in View => Loaded(snap[s].of)

LEMMA InitWaits == Init => WaitInv
BY SessionAssumption
   DEF Init, NewView0, NewSnap0, WaitInv, Semaphore, Loaded

\* Who holds viewMu after a step of t.
HandsOver(t) == \/ viewMu' = Nobody
                \/ viewMu' = t /\ th'[t].op \in EditOps
                \/ viewMu' = viewMu /\ (th[t].op \in EditOps => th'[t].op \in EditOps)

LEMMA HolderWaits ==
  ASSUME IInv, WaitInv, NEW t \in Thread, \A x \in Thread \ {t} : th'[x] = th[x], HandsOver(t)
  PROVE  viewMu' # Nobody => th'[viewMu'].op \in EditOps
<1>1. viewMu \in Thread \union {Nobody}
  BY DEF IInv, TypeOK
<1> QED
  BY <1>1 DEF WaitInv, HandsOver

\* A step of t that loads nothing.
LEMMA CallWaits ==
  ASSUME IInv, WaitInv, NEW t \in Thread, \A x \in Thread \ {t} : th'[x] = th[x],
         HandsOver(t), UNCHANGED view, \A s \in Snap : snap'[s].of = snap[s].of,
         At(t, "load") => th'[t].pc = "load" /\ th'[t].v = th[t].v
  PROVE  WaitInv'
<1>1. viewMu' # Nobody => th'[viewMu'].op \in EditOps
  BY HolderWaits
<1>2. ASSUME NEW v \in View PROVE Semaphore(v)'
  <2>1. ASSUME NEW x \in Thread, view[v].sema = x PROVE At(x, "load")' /\ th'[x].v = v
    BY <2>1 DEF WaitInv, Semaphore, At
  <2> QED
    BY <2>1 DEF WaitInv, Semaphore
<1>3. ASSUME NEW s \in Snap, snap'[s].of \in View PROVE Loaded(snap[s].of)'
  BY <1>3 DEF WaitInv, Loaded
<1> QED
  BY <1>1, <1>2, <1>3 DEF WaitInv

\* The calls and the steps of requests and edits that load nothing and change no view.
LEMMA PlainStepWaits ==
  ASSUME IInv, WaitInv, NEW t \in Thread,
         \/ \E u \in File : SnapshotOf(t, u) \/ ResetView(t, u)
         \/ \E f \in Folder : RemoveView(t, f)
         \/ ToolCall(t) \/ DidModifyFiles(t) \/ InvalidateView(t) \/ Shutdown(t)
         \/ Request(t) \/ AwaitInitialized(t) \/ Commit(t) \/ Associate(t) \/ Invalidate(t)
         \/ Drop(t) \/ EndModify(t) \/ Drain(t) \/ UseLoaded(t) \/ CancelRequest(t)
  PROVE  WaitInv'
<1>1. /\ th \in [Thread -> Threads] /\ Control(t)
      /\ th[t].op \in EditOps => viewMu = t
      /\ snap \in [Snap -> Snaps] /\ th[t].held \subseteq Snap /\ view \in [View -> Views]
      /\ views \subseteq View
  BY DEF IInv, TypeOK, Local, Locks, Threads
<1>2. view' = view /\ (UNCHANGED snap \/ \E x : Acquire(x) \/ Decref(x))
  <2>1. CASE \E u \in File : SnapshotOf(t, u) \/ ResetView(t, u)
    BY <2>1 DEF SnapshotOf, ResetView
  <2>2. CASE \/ \E f \in Folder : RemoveView(t, f)
             \/ ToolCall(t) \/ DidModifyFiles(t) \/ InvalidateView(t) \/ Shutdown(t)
    BY <2>2 DEF RemoveView, ToolCall, DidModifyFiles, InvalidateView, Shutdown
  <2>3. CASE FastSnapshot(t) \/ Forget(t) \/ ListViews(t) \/ Search(t)
    BY <2>3 DEF FastSnapshot, Forget, ListViews, Search
  <2>4. CASE Match(t) \/ LastResort(t) \/ Collect(t) \/ Release(t)
    BY <2>4 DEF Match, LastResort, Collect, Release
  <2>5. CASE AwaitInitialized(t) \/ Commit(t) \/ Associate(t) \/ Invalidate(t)
    BY <2>5 DEF AwaitInitialized, Commit, Associate, Invalidate
  <2>6. CASE Drop(t) \/ EndModify(t) \/ Drain(t) \/ UseLoaded(t) \/ CancelRequest(t)
    BY <2>6 DEF Drop, EndModify, Drain, UseLoaded, CancelRequest
  <2> QED
    BY <2>1, <2>2, <2>3, <2>4, <2>5, <2>6 DEF Request
<1>3. \A s \in Snap : snap'[s].of = snap[s].of
  BY <1>1, <1>2 DEF Acquire, Decref, Snaps
<1> DEFINE Moves == /\ \A x \in Thread \ {t} : th'[x] = th[x]
                    /\ HandsOver(t)
                    /\ At(t, "load") => th'[t].pc = "load" /\ th'[t].v = th[t].v
<1>4. At(t, "idle") => th[t].op \notin EditOps
  BY <1>1 DEF Control, At, Threads, Ops, EditOps
<1>5. CASE \/ \E u \in File : SnapshotOf(t, u) \/ ResetView(t, u)
           \/ \E f \in Folder : RemoveView(t, f)
           \/ ToolCall(t) \/ DidModifyFiles(t) \/ InvalidateView(t) \/ Shutdown(t)
  <2>1. At(t, "idle") /\ \A x \in Thread \ {t} : th'[x] = th[x]
    BY <1>1, <1>5 DEF SnapshotOf, ResetView, RemoveView, ToolCall, DidModifyFiles, InvalidateView,
                      Shutdown
  <2>2. viewMu' = viewMu \/ (viewMu' = t /\ th'[t].op \in EditOps)
    <3>1. CASE \E u \in File : SnapshotOf(t, u) \/ ResetView(t, u)
      BY <1>1, <3>1 DEF SnapshotOf, ResetView, Idle, EditOps
    <3>2. CASE \/ \E f \in Folder : RemoveView(t, f)
               \/ ToolCall(t) \/ Shutdown(t)
      BY <1>1, <3>2 DEF RemoveView, ToolCall, Shutdown, Idle, EditOps, sessionVars
    <3>3. CASE DidModifyFiles(t) \/ InvalidateView(t)
      BY <1>1, <3>3 DEF DidModifyFiles, InvalidateView, Idle, EditOps
    <3> QED
      BY <1>5, <3>1, <3>2, <3>3
  <2>3. Moves
    BY <1>4, <2>1, <2>2 DEF HandsOver, At
  <2> QED
    BY <1>2, <1>3, <2>3, CallWaits
<1>6. CASE Request(t)
  <2>0. /\ th[t].op \notin EditOps /\ th[t].pc # "load"
    BY <1>1, <1>6 DEF Request, FastSnapshot, Forget, ListViews, Search, Match, LastResort, Collect,
                      Release, At, Control, Threads, Ops, EditOps
  <2>1. viewMu' = viewMu /\ \A x \in Thread \ {t} : th'[x] = th[x]
    BY <1>1, <1>6 DEF Request, FastSnapshot, Forget, ListViews, Search, Match, LastResort, Collect,
                      Release, Goto, Return, Use, sessionVars
  <2>2. Moves
    BY <2>0, <2>1 DEF At, HandsOver
  <2> QED
    BY <1>2, <1>3, <2>2, CallWaits
<1>7. CASE AwaitInitialized(t)
  <2>1. viewMu' = viewMu /\ At(t, "await") /\ (AfterInit(t) \/ Goto(t, "init"))
    BY <1>7 DEF AwaitInitialized, sessionVars
  <2>2. Moves
    BY <1>1, <2>1 DEF AfterInit, Goto, Use, At, HandsOver, EditOps, Control, Editing, Threads, Ops
  <2> QED
    BY <1>2, <1>3, <2>2, CallWaits
<1>8. CASE Commit(t)
  <2>1. Moves
    BY <1>1, <1>8 DEF Commit, Goto, Return, At, HandsOver, Threads
  <2> QED
    BY <1>2, <1>3, <2>1, CallWaits
<1>9. CASE Associate(t) \/ Invalidate(t) \/ Drop(t) \/ Drain(t) \/ UseLoaded(t) \/ CancelRequest(t)
  <2>1. viewMu' = viewMu /\ \A x \in Thread \ {t} : th'[x] = th[x]
    BY <1>1, <1>9
       DEF Associate, Invalidate, Drop, Drain, UseLoaded, CancelRequest, Goto, sessionVars
  <2>2. th'[t].op = th[t].op
    <3>1. CASE Associate(t) \/ Drain(t)
      BY <1>1, <3>1 DEF Associate, Drain, Goto, Threads
    <3>2. CASE Invalidate(t)
      <4>1. PICK w \in th[t].todo :
               th' = [th EXCEPT ![t].pc = "await", ![t].v = w, ![t].s = view[w].cur,
                                ![t].todo = @ \ {w}]
        BY <3>2 DEF Invalidate
      <4> QED
        BY <1>1, <4>1 DEF Threads
    <3>3. CASE Drop(t)
      BY <1>1, <3>3 DEF Drop, Threads
    <3>4. CASE UseLoaded(t)
      BY <1>1, <3>4 DEF UseLoaded, Threads
    <3>5. CASE CancelRequest(t)
      BY <1>1, <3>5 DEF CancelRequest, Threads
    <3> QED
      BY <1>9, <3>1, <3>2, <3>3, <3>4, <3>5
  <2>3. At(t, "load") => th'[t].pc = "load" /\ th'[t].v = th[t].v
    <3>1. CASE CancelRequest(t)
      BY <1>1, <3>1 DEF CancelRequest, At, Threads
    <3> QED
      BY <1>9, <3>1 DEF Associate, Invalidate, Drop, Drain, UseLoaded, At
  <2>4. Moves
    BY <2>1, <2>2, <2>3 DEF HandsOver
  <2> QED
    BY <1>2, <1>3, <2>4, CallWaits
<1>10. CASE EndModify(t)
  <2>1. Moves
    BY <1>1, <1>10 DEF EndModify, Return, At, HandsOver
  <2> QED
    BY <1>2, <1>3, <2>1, CallWaits
<1> QED
  BY <1>5, <1>6, <1>7, <1>8, <1>9, <1>10

-----------------------------------------------------------------------------
\* A step that changes one view v, and no thread but t.
LEMMA ViewWaits ==
  ASSUME IInv, WaitInv, NEW v \in View, \A w \in View \ {v} : view'[w] = view[w],
         viewMu' # Nobody => th'[viewMu'].op \in EditOps,
         \A x \in Thread : At(x, "load") /\ th[x].v # v =>
            th'[x].pc = "load" /\ th'[x].v = th[x].v,
         Semaphore(v)', Loaded(v) => Loaded(v)',
         \A s \in Snap : \/ snap'[s].of = snap[s].of
                         \/ snap'[s].of = v /\ Loaded(v)'
  PROVE  WaitInv'
<1>1. ASSUME NEW w \in View \ {v} PROVE Semaphore(w)'
  <2>1. ASSUME NEW x \in Thread, view[w].sema = x PROVE At(x, "load")' /\ th'[x].v = w
    BY <2>1 DEF WaitInv, Semaphore, At
  <2> QED
    BY <2>1 DEF WaitInv, Semaphore
<1>2. ASSUME NEW s \in Snap, (snap[s].of \in View)' PROVE Loaded(snap[s].of)'
  <2>1. CASE snap'[s].of = v
    <3>1. Loaded(v)'
      BY <2>1 DEF WaitInv
    <3> QED
      BY <2>1, <3>1 DEF Loaded
  <2>2. CASE snap'[s].of # v
    BY <1>2, <2>2 DEF WaitInv, Loaded
  <2> QED
    BY <2>1, <2>2
<1> QED
  BY <1>1, <1>2 DEF WaitInv

\* initialize enters and leaves initializationSema.
LEMMA InitializeWaits ==
  ASSUME IInv, EditInv, WaitInv, NEW t \in Thread, InitBegin(t) \/ InitEnd(t)
  PROVE  WaitInv'
<1>0. PICK v \in View : v = th[t].v
  BY DEF EditInv, Own, Loads, At, InitBegin, InitEnd
<1>1. /\ th \in [Thread -> Threads] /\ Control(t) /\ view \in [View -> Views]
      /\ snap \in [Snap -> Snaps] /\ viewMu' = viewMu
      /\ th[t].s \in Snap
  BY DEF IInv, TypeOK, Local, EditInv, Own, Loads, At, InitBegin, InitEnd, sessionVars
<1>2. CASE th'[t].pc # "load" /\ UNCHANGED <<view, snap>> /\ AfterInit(t) /\ InitBegin(t)
  <2>1. /\ ~At(t, "load") /\ HandsOver(t) /\ \A x \in Thread \ {t} : th'[x] = th[x]
    BY <1>0, <1>1, <1>2
       DEF AfterInit, Goto, Use, At, HandsOver, EditOps, InitBegin, Threads, Control, Ops, Editing
  <2> QED
    BY <1>2, <2>1, CallWaits
<1>3. CASE /\ InitBegin(t) /\ view' = [view EXCEPT ![v].sema = t] /\ Goto(t, "load")
  <2>1. /\ \A w \in View \ {v} : view'[w] = view[w]
        /\ view'[v] = [view[v] EXCEPT !.sema = t]
        /\ \A x \in Thread \ {t} : th'[x] = th[x]
        /\ th'[t].pc = "load" /\ th'[t].v = v /\ th'[t].op = th[t].op
        /\ snap' = snap /\ At(t, "init")
    BY <1>0, <1>1, <1>3 DEF Goto, InitBegin, Threads
  <2>2. HandsOver(t)
    BY <1>0, <1>1, <2>1 DEF HandsOver
  <2>3. viewMu' # Nobody => th'[viewMu'].op \in EditOps
    BY <2>1, <2>2, HolderWaits
  <2>4. /\ view'[v].sema = t /\ view'[v].lpc = view[v].lpc /\ view'[v].cur = view[v].cur
        /\ view'[v].stopped = view[v].stopped /\ view'[v].iwl = view[v].iwl
    BY <1>0, <1>1, <2>1 DEF Views
  <2>5. Semaphore(v)'
    BY <1>0, <1>1, <2>1, <2>4, SessionAssumption DEF Semaphore, WaitInv, At
  <2>6. Loaded(v) => Loaded(v)'
    BY <2>4 DEF Loaded
  <2> QED
    BY <1>0, <1>1, <2>1, <2>3, <2>5, <2>6, ViewWaits DEF At
<1>4. CASE InitEnd(t)
  <2>1. /\ \A w \in View \ {v} : view'[w] = view[w]
        /\ view'[v] = [view[v] EXCEPT !.sema = Nobody]
        /\ \A s \in Snap : snap'[s].of = snap[s].of
        /\ At(t, "load") /\ AfterInit(t)
    BY <1>0, <1>1, <1>4 DEF InitEnd, Snaps
  <2>2. HandsOver(t) /\ \A x \in Thread \ {t} : th'[x] = th[x]
    BY <1>0, <1>1, <2>1 DEF AfterInit, Goto, Use, At, HandsOver, EditOps, Threads
  <2>3. viewMu' # Nobody => th'[viewMu'].op \in EditOps
    BY <2>2, HolderWaits
  <2>4. /\ view'[v].sema = Nobody /\ view'[v].lpc = view[v].lpc /\ view'[v].cur = view[v].cur
        /\ view'[v].stopped = view[v].stopped /\ view'[v].iwl = view[v].iwl
    BY <1>0, <1>1, <2>1 DEF Views
  <2>5. Semaphore(v)'
    BY <1>0, <1>1, <2>4, SessionAssumption DEF Semaphore, WaitInv
  <2>6. Loaded(v) => Loaded(v)'
    BY <2>4 DEF Loaded
  <2>7. \A x \in Thread : At(x, "load") /\ th[x].v # v => th'[x].pc = "load" /\ th'[x].v = th[x].v
    BY <1>0, <2>2 DEF At
  <2> QED
    BY <1>0, <1>1, <2>1, <2>3, <2>5, <2>6, <2>7, ViewWaits
<1>5. InitBegin(t) => \/ UNCHANGED <<view, snap>> /\ AfterInit(t) /\ th'[t].pc # "load"
                      \/ view' = [view EXCEPT ![v].sema = t] /\ Goto(t, "load")
  <2>1. ASSUME AfterInit(t) PROVE th'[t].pc # "load"
    <3>1. CASE th[t].op = "request"
      <4>1. th'[t].pc = "using"
        BY <1>1, <2>1, <3>1 DEF AfterInit, Use, Idle
      <4> QED
        BY <4>1
    <3>2. CASE th[t].op # "request"
      <4>1. th'[t].pc = IF Editing(t) THEN "swap" ELSE "match"
        BY <1>1, <2>1, <3>2 DEF AfterInit, Goto, Threads
      <4> QED
        BY <4>1
    <3> QED
      BY <3>1, <3>2
  <2> QED
    BY <1>0, <2>1 DEF InitBegin
<1> QED
  BY <1>2, <1>3, <1>4, <1>5

\* The goroutine of createView.
LEMMA LoadWaits ==
  ASSUME IInv, WaitInv, NEW v \in View, Load(v)
  PROVE  WaitInv'
<1>1. /\ view \in [View -> Views] /\ snap \in [Snap -> Snaps] /\ UNCHANGED <<viewMu, th>>
      /\ \A s \in Snap : snap'[s].of = snap[s].of
      /\ \A w \in View \ {v} : view'[w] = view[w]
  <2>1. view \in [View -> Views] /\ snap \in [Snap -> Snaps]
    BY DEF IInv, TypeOK
  <2> QED
    BY <2>1 DEF Load, LoaderSkip, LoaderBegin, LoaderEnd, LoaderRelease, Decref, sessionVars, Snaps
<1>2. /\ view'[v].cur = view[v].cur /\ view'[v].stopped = view[v].stopped
      /\ \/ /\ view[v].lpc = "start" /\ view[v].stopped
            /\ view'[v].lpc = "release" /\ view'[v].sema = view[v].sema
         \/ view'[v].lpc = "load" /\ view'[v].sema = Loader
         \/ view'[v].sema = Nobody /\ view'[v].iwl
         \/ /\ view[v].lpc = "release" /\ view'[v].lpc = "none"
            /\ view'[v].sema = view[v].sema /\ view'[v].iwl = view[v].iwl
  <2>1. CASE LoaderSkip(v)
    BY <1>1, <2>1 DEF LoaderSkip, Views
  <2>2. CASE LoaderBegin(v)
    BY <1>1, <2>2 DEF LoaderBegin, Views
  <2>3. CASE LoaderEnd(v)
    BY <1>1, <2>3 DEF LoaderEnd, Views
  <2>4. CASE LoaderRelease(v)
    BY <1>1, <2>4 DEF LoaderRelease, Views
  <2> QED
    BY <2>1, <2>2, <2>3, <2>4 DEF Load
<1>3. Semaphore(v)'
  BY <1>1, <1>2, SessionAssumption DEF Semaphore, WaitInv, At
<1>4. Loaded(v) => Loaded(v)'
  BY <1>2 DEF Loaded
<1> QED
  BY <1>1, <1>3, <1>4, ViewWaits DEF WaitInv, At

\* A view is made.
LEMMA CreateWaits ==
  ASSUME IInv, EditInv, WaitInv, NEW t \in Thread, \A x \in Thread \ {t} : th'[x] = th[x],
         HandsOver(t), ~At(t, "load"), NEW v \in View, NEW s \in Snap, NEW d, NEW n,
         CreateView(v, s, d, n)
  PROVE  WaitInv'
<1>1. /\ \A w \in View \ {v} : view'[w] = view[w]
      /\ view'[v].lpc = "start" /\ view'[v].sema = Nobody /\ ~view'[v].stopped
      /\ \A r \in Snap : snap'[r].of = snap[r].of \/ snap'[r].of = v
  BY DEF IInv, TypeOK, CreateView, NewView0
<1>2. viewMu' # Nobody => th'[viewMu'].op \in EditOps
  BY HolderWaits
<1>3. Semaphore(v)' /\ Loaded(v)'
  BY <1>1, SessionAssumption DEF Semaphore, Loaded
<1>4. \A x \in Thread : At(x, "load") => th'[x].pc = "load" /\ th'[x].v = th[x].v
  BY DEF At
<1> QED
  BY <1>1, <1>2, <1>3, <1>4, ViewWaits

\* A view is shut down; whoever waits for its load may then wait for its context only.
LEMMA ShutdownWaits ==
  ASSUME IInv, WaitInv, NEW t \in Thread, \A x \in Thread \ {t} : th'[x] = th[x],
         HandsOver(t), ~At(t, "load"), NEW v \in View, ShutdownView(v)
  PROVE  WaitInv'
<1>1. view \in [View -> Views] /\ snap \in [Snap -> Snaps]
  BY DEF IInv, TypeOK
<1>2. /\ \A w \in View \ {v} : view'[w] = view[w]
      /\ view'[v] = [view[v] EXCEPT !.stopped = TRUE, !.cur = NoSnap]
      /\ \A r \in Snap : snap'[r].of = snap[r].of
  BY <1>1 DEF ShutdownView, Decref, Snaps
<1>3. /\ view'[v].sema = view[v].sema /\ view'[v].lpc = view[v].lpc
      /\ view'[v].stopped /\ view'[v].cur = NoSnap
  BY <1>1, <1>2 DEF Views
<1>4. \A x \in Thread : At(x, "load") => th'[x].pc = "load" /\ th'[x].v = th[x].v
  BY DEF At
<1>5. Semaphore(v)'
  BY <1>3, <1>4 DEF WaitInv, Semaphore, At
<1>6. Loaded(v)'
  BY <1>3 DEF Loaded
<1> QED
  BY <1>2, <1>4, <1>5, <1>6, HolderWaits, ViewWaits

\* A snapshot is replaced; its view is not shut down, since viewMu is held.
LEMMA SwapWaits ==
  ASSUME IInv, EditInv, WaitInv, NEW t \in Thread, Swap(t)
  PROVE  WaitInv'
<1>0. PICK v \in View, old \in Snap : v = th[t].v /\ old = th[t].s
  BY DEF EditInv, Own, Loads, At, Swap
<1>1. /\ th \in [Thread -> Threads] /\ view \in [View -> Views] /\ snap \in [Snap -> Snaps]
      /\ snap[old].of = v /\ old = view[v].cur /\ old # NoSnap /\ th[t].op \in EditOps
  <2>1. /\ th \in [Thread -> Threads] /\ view \in [View -> Views] /\ snap \in [Snap -> Snaps]
    BY DEF IInv, TypeOK
  <2>2. snap[old].of = v /\ At(t, "swap")
    BY <1>0 DEF EditInv, Own, Loads, At, Swap
  <2>3. Editing(t)
    BY <2>1, <2>2 DEF IInv, Local, Control, At, Editing, Threads, Ops
  <2>4. old = view[v].cur
    BY <1>0, <2>2, <2>3 DEF IInv, Local, Visits, At
  <2> QED
    BY <2>1, <2>2, <2>3, <2>4, SessionAssumption DEF Editing, EditOps
<1>2. PICK s \in Snap, reinit \in BOOLEAN :
         /\ snap' = [snap EXCEPT ![old].refs = @ - 1, ![s] = [Clone(old, reinit) EXCEPT !.refs = 2]]
         /\ view' = [view EXCEPT ![v].cur = s]
  BY <1>0 DEF Swap
<1>3. /\ \A w \in View \ {v} : view'[w] = view[w]
      /\ view'[v] = [view[v] EXCEPT !.cur = s]
      /\ \A r \in Snap : snap'[r].of = snap[r].of \/ snap'[r].of = v
  BY <1>0, <1>1, <1>2 DEF Clone, Snaps
<1>4. /\ view'[v].sema = view[v].sema /\ view'[v].lpc = view[v].lpc
      /\ view'[v].stopped = view[v].stopped /\ view'[v].iwl = view[v].iwl
  BY <1>0, <1>1, <1>3 DEF Views
<1>5. /\ \A x \in Thread \ {t} : th'[x] = th[x]
      /\ ~At(t, "load") /\ HandsOver(t)
  BY <1>0, <1>1 DEF Swap, Use, At, HandsOver, Threads
<1>6. \A x \in Thread : At(x, "load") => th'[x].pc = "load" /\ th'[x].v = th[x].v
  BY <1>5 DEF At
<1>7. Semaphore(v)'
  BY <1>0, <1>1, <1>4, <1>6 DEF WaitInv, Semaphore, At
<1>8. Loaded(v) /\ (Loaded(v) => Loaded(v)')
  BY <1>0, <1>1, <1>4 DEF WaitInv, Loaded
<1> QED
  BY <1>0, <1>1, <1>3, <1>5, <1>6, <1>7, <1>8, HolderWaits, ViewWaits

LEMMA NextWaits ==
  ASSUME IInv, EditInv, WaitInv, [Next]_vars
  PROVE  WaitInv'
<1>1. CASE UNCHANGED vars
  BY <1>1 DEF vars, sessionVars, WaitInv, Semaphore, Loaded, At
<1>2. ASSUME NEW t \in Thread, NEW d \in Def, NewView(t, d) PROVE WaitInv'
  <2>1. /\ viewMu' = viewMu /\ At(t, "idle") /\ viewMu = Nobody
        /\ \A x \in Thread \ {t} : th'[x] = th[x]
        /\ \E v \in View, s \in Snap : CreateView(v, s, d, 1)
    BY <1>2 DEF NewView, IInv, TypeOK
  <2> QED
    BY <2>1, CreateWaits DEF HandsOver, At
<1>3. ASSUME NEW t \in Thread, CreateNext(t) \/ Retire(t) \/ StopNext(t) PROVE WaitInv'
  <2>1. /\ viewMu' = viewMu /\ ~At(t, "load") /\ \A x \in Thread \ {t} : th'[x] = th[x]
        /\ th'[t].op = th[t].op
    <3>1. th \in [Thread -> Threads]
      BY DEF IInv, TypeOK
    <3>2. CASE CreateNext(t)
      BY <3>1, <3>2 DEF CreateNext, Goto, At, Threads, sessionVars
    <3>3. CASE Retire(t)
      BY <3>1, <3>3 DEF Retire, At, Threads, sessionVars
    <3>4. CASE StopNext(t)
      BY <3>1, <3>4 DEF StopNext, Goto, At, Threads, sessionVars
    <3> QED
      BY <1>3, <3>2, <3>3, <3>4
  <2>2. HandsOver(t)
    BY <2>1 DEF HandsOver
  <2>3. \/ UNCHANGED <<view, snap>>
        \/ \E d \in Def, v \in View, s \in Snap : CreateView(v, s, d, 0)
        \/ \E v \in View : ShutdownView(v)
    <3>1. th[t].defs \subseteq Def /\ th[t].todo \subseteq View
      BY DEF IInv, TypeOK, Threads
    <3> QED
      BY <1>3, <3>1 DEF CreateNext, Retire, StopNext
  <2> QED
    BY <2>1, <2>2, <2>3, CreateWaits, ShutdownWaits, CallWaits
<1>4. CASE Next
  BY <1>2, <1>3, <1>4, PlainStepWaits, InitializeWaits, LoadWaits, SwapWaits
     DEF Next, Begin, Initialize, Edit, Stop
<1> QED
  BY <1>1, <1>4

LEMMA WaitsEnd ==
  ASSUME IInv, EditInv, WaitInv
  PROVE  NobodyWaitsInVain
<1>1. ASSUME NEW v \in View PROVE /\ view[v].sema = Nobody \/ LoadGoesOn(v)
                                  /\ view[v].lpc = "start" => view[v].sema = Nobody
  <2>1. view[v].sema \in Thread \union {Nobody, Loader}
    BY DEF IInv, TypeOK, Views
  <2>2. view[v].sema \in Thread => At(view[v].sema, "load") /\ th[view[v].sema].v = v /\ view[v].iwl
    BY DEF WaitInv, Semaphore, EditInv, Own, Loads, At
  <2> QED
    BY <2>1, <2>2, SessionAssumption DEF WaitInv, Semaphore, EditInv, FirstLoad, LoadGoesOn
<1>2. ASSUME NEW t \in Thread, At(t, "await") \/ At(t, "init")
      PROVE  th[t].v \in View /\ th[t].s \in Snap /\ snap[th[t].s].of = th[t].v
  BY <1>2 DEF EditInv, Own, Loads, At
<1>3. ASSUME NEW t \in Thread, At(t, "await")
      PROVE  /\ view[th[t].v].iwl \/ view[th[t].v].stopped \/ LoadGoesOn(th[t].v)
             /\ Editing(t) => ~view[th[t].v].stopped
  <2>1. Loaded(th[t].v)
    BY <1>2, <1>3 DEF WaitInv
  <2>2. Editing(t) => view[th[t].v].cur # NoSnap
    BY <1>3 DEF IInv, Local, Visits, At
  <2> QED
    BY <1>1, <1>2, <1>3, <2>1, <2>2 DEF WaitInv, Semaphore, Loaded, LoadGoesOn
<1> QED
  BY <1>1, <1>2, <1>3 DEF NobodyWaitsInVain, WaitInv

\* No goroutine of the session waits for one that waits for it: while viewMu is held an
\* edit holds it; an edit waits for the first load only of a view that is not shut down;
\* and whoever waits for a load (AwaitInitialized, initializationSema) waits for a goroutine
\* that is loading or can begin to, which takes no lock of the session.  Only a request on
\* a view that was shut down may wait for its context alone (view.go:613-638, 784-802;
\* snapshot.go:1192-1201).
THEOREM WaitsAreNotInVain == Spec => []NobodyWaitsInVain
<1>1. Spec => []WaitInv
  <2>1. IInv /\ EditInv /\ WaitInv /\ [Next]_vars => WaitInv'
    BY NextWaits
  <2> QED
    BY InitWaits, <2>1, Invariance, EditInvariance, PTL DEF Spec
<1>2. IInv /\ EditInv /\ WaitInv => NobodyWaitsInVain
  BY WaitsEnd
<1> QED
  BY <1>1, <1>2, Invariance, EditInvariance, PTL
=============================================================================
