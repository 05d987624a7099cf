------------------------------- MODULE Session -------------------------------
(***************************************************************************)
(* The life of views and snapshots in gopls/internal/cache: Session        *)
(* (session.go), View (view.go) and Snapshot (snapshot.go).                *)
(*                                                                         *)
(* A view owns a chain of snapshots; the current one is replaced by every  *)
(* edit, and a snapshot is destroyed when its last reference is released.  *)
(* References are held by the view (its current snapshot), by the          *)
(* background goroutine that runs the initial workspace load, and by       *)
(* requests.  Threads are the goroutines of the process: each serves any   *)
(* number of calls, one after the other.                                   *)
(*                                                                         *)
(* A mutex whose critical section never blocks (Session.viewMu in most     *)
(* calls, View.snapshotMu, Snapshot.refMu) makes its section one action.   *)
(* viewMu is a variable because an edit keeps it while it waits for a      *)
(* load; View.snapshotMu is then held too (Invalidating).                  *)
(***************************************************************************)
EXTENDS Naturals, FiniteSets

CONSTANTS Thread, View, Snap, File, Folder,
          Def,        \* view definitions
          FolderOf,   \* [Def -> Folder]
          Covers,     \* the pairs <<d, u>> with d relevant for u (RelevantViews)
          Calls,      \* the kinds of calls the clients make
          MaxEdits,   \* bound on the number of edits, for TLC
          NoView, NoSnap, NoDef, Unset, Nobody, Loader

Kinds == {"SnapshotOf", "ToolCall", "NewView", "RemoveView", "ResetView",
          "DidModifyFiles", "InvalidateView", "Shutdown"}

\* The keys of viewMap: files that calls name, and the directories of folders.
URI == File \union Folder

ASSUME SessionAssumption ==
    /\ IsFiniteSet(Thread) /\ IsFiniteSet(Snap)
    /\ FolderOf \in [Def -> Folder] /\ Covers \subseteq Def \X File
    /\ MaxEdits \in Nat /\ Calls \subseteq Kinds
    /\ NoView \notin View /\ Unset \notin View /\ NoView # Unset
    /\ NoSnap \notin Snap /\ NoDef \notin Def /\ Unset \notin File
    /\ Nobody \notin Thread /\ Loader \notin Thread /\ Nobody # Loader

VARIABLES
    viewMu,  \* who holds Session.viewMu
    views,   \* Session.views (its order is left out)
    viewMap, \* Session.viewMap: NoView is a memoized nil, Unset no entry
    down,    \* Session.viewMap is nil: the session is shut down
    wg,      \* Session.snapshotWG
    edits,   \* the number of edits begun ...
    done,    \* ... and the last of them that DidModifyFiles has returned from
    view,    \* the View objects
    snap,    \* the Snapshot objects
    th       \* the goroutines

sessionVars == <<viewMu, views, viewMap, down, edits, done>>
vars == <<sessionVars, wg, view, snap, th>>

PCs == {"idle", "snap", "forget", "views", "search", "match", "last", "collect",
        "using", "await", "init", "load", "create", "retire", "assoc", "inval",
        "swap", "drop", "stop", "drain", "closed"}
Ops == {"none", "of", "request", "modify", "remove", "reset", "invalidate", "shutdown"}

Views == [def     : Def \union {NoDef},       \* viewDefinition
          cur     : Snap \union {NoSnap},     \* snapshot
          iwl     : BOOLEAN,                  \* initialWorkspaceLoad is closed
          stopped : BOOLEAN,                  \* cancelInitialWorkspaceLoad was called
          sema    : Thread \union {Nobody, Loader}, \* who is in initializationSema
          lpc     : {"none", "start", "load", "release"}, \* createView's goroutine
          lsnap   : Snap \union {NoSnap}]     \* and its snapshot

Snaps == [refs   : Nat,                       \* refcount
          of     : View \union {NoView},      \* view
          inited : BOOLEAN,                   \* initialized
          edit   : Nat]                       \* the edits the snapshot has seen

Threads == [pc : PCs, op : Ops,
            cancelled : BOOLEAN,              \* the request's context is cancelled
            held  : SUBSET Snap,              \* the snapshots the call must release
            v     : View \union {NoView},     \* the view, snapshot and URI in hand
            s     : Snap \union {NoSnap},
            u     : File \union {Unset},
            todo  : SUBSET View,              \* the views still to visit
            keep  : SUBSET View,              \* the next value of Session.views
            defs  : SUBSET Def,               \* definitions still to be made views
            began : Nat]                      \* done when the call began

TypeOK ==
    /\ viewMu \in Thread \union {Nobody}
    /\ views \subseteq View
    /\ viewMap \in [URI -> View \union {NoView, Unset}]
    /\ down \in BOOLEAN
    /\ wg \in Nat /\ edits \in Nat /\ done \in Nat
    /\ view \in [View -> Views]
    /\ snap \in [Snap -> Snaps]
    /\ th \in [Thread -> Threads]

NewView0 == [def |-> NoDef, cur |-> NoSnap, iwl |-> FALSE, stopped |-> FALSE,
             sema |-> Nobody, lpc |-> "none", lsnap |-> NoSnap]
NewSnap0 == [refs |-> 0, of |-> NoView, inited |-> FALSE, edit |-> 0]
Idle == [pc |-> "idle", op |-> "none", cancelled |-> FALSE, held |-> {},
         v |-> NoView, s |-> NoSnap, u |-> Unset, todo |-> {}, keep |-> {},
         defs |-> {}, began |-> 0]

Init ==
    /\ viewMu = Nobody /\ views = {} /\ down = FALSE
    /\ viewMap = [u \in URI |-> Unset]
    /\ wg = 0 /\ edits = 0 /\ done = 0
    /\ view = [v \in View |-> NewView0]
    /\ snap = [s \in Snap |-> NewSnap0]
    /\ th = [t \in Thread |-> Idle]

-----------------------------------------------------------------------------
\* Destroyed snapshots and views nobody mentions are garbage: their identities
\* are used again.
FreshSnap(s) == /\ snap[s].refs = 0
                /\ \A t \in Thread : s \notin th[t].held /\ th[t].s # s
                /\ \A v \in View : view[v].cur # s /\ view[v].lsnap # s
FreshView(v) == /\ v \notin views /\ view[v].lpc = "none" /\ view[v].cur = NoSnap
                /\ \A u \in URI : viewMap[u] # v
                /\ \A s \in Snap : snap[s].refs > 0 => snap[s].of # v
                /\ \A t \in Thread : th[t].v # v /\ v \notin th[t].todo \union th[t].keep

At(t, l) == th[t].pc = l
Goto(t, l) == th' = [th EXCEPT ![t].pc = l]
Return(t) == th' = [th EXCEPT ![t] = Idle]
\* The call goes on with the snapshots S, which it must release.
Use(t, S) == th' = [th EXCEPT ![t] = [Idle EXCEPT
                       !.pc = "using", !.op = "request", !.held = S,
                       !.cancelled = th[t].cancelled, !.began = th[t].began]]

\* Snapshot.Acquire and Snapshot.decref; a snapshot is destroyed, and reported
\* to snapshotWG, when its count falls to zero.
AcquireNothing(s) == snap[s].refs > 0 /\ UNCHANGED snap         \* mutant
Acquire(s) == snap' = [snap EXCEPT ![s].refs = @ + 1]
Decref(s) == /\ snap' = [snap EXCEPT ![s].refs = @ - 1]
             /\ wg' = IF snap[s].refs = 1 THEN wg - 1 ELSE wg

\* View.snapshotMu is held across steps only by invalidateViewLocked.
Editing(t) == th[t].op \in {"modify", "invalidate"}
Invalidating(v) == \E t \in Thread : /\ Editing(t) /\ th[t].v = v
                                     /\ th[t].pc \in {"await", "init", "load", "swap"}

\* What viewOfLocked returns for u: the memoized view, a relevant one, or nil.
Best(u) == LET relevant == {v \in views : <<view[v].def, u>> \in Covers}
           IN IF viewMap[u] # Unset THEN {viewMap[u]}
              ELSE IF relevant = {} THEN {NoView} ELSE relevant

-----------------------------------------------------------------------------
\* Session.SnapshotOf.  The fast path evaluates and memoizes the best view ...
SnapshotOf(t, u) ==
    /\ At(t, "idle") /\ viewMu = Nobody /\ ~down
    /\ \E v \in Best(u) :
          /\ viewMap' = [viewMap EXCEPT ![u] = v]
          /\ th' = [th EXCEPT ![t] = [Idle EXCEPT
                       !.pc = IF v = NoView THEN "views" ELSE "snap",
                       !.op = "of", !.v = v, !.u = u, !.began = done]]
    /\ UNCHANGED <<viewMu, views, down, edits, done, wg, view, snap>>

\* ... and takes that view's snapshot, unless it was shut down meanwhile.
FastSnapshot(t) ==
    /\ At(t, "snap")
    /\ LET v == th[t].v  s == view[v].cur IN
       /\ ~Invalidating(v)
       /\ \/ /\ s = NoSnap /\ Goto(t, "forget") /\ UNCHANGED snap
          \/ s # NoSnap /\ Acquire(s) /\ Use(t, {s})
    /\ UNCHANGED <<sessionVars, wg, view>>

\* The view is shut down: forget the association, if it is still that one.
Forget(t) ==
    /\ At(t, "forget") /\ viewMu = Nobody
    /\ viewMap' = [viewMap EXCEPT ![th[t].u] = IF @ = th[t].v THEN Unset ELSE @]
    /\ Goto(t, "views")
    /\ UNCHANGED <<viewMu, views, down, edits, done, wg, view, snap>>

\* The fall-back visits all views: it awaits the load of each and keeps the first
\* that has a real package for u (or is asked for the builtin file).
ListViews(t) ==
    /\ At(t, "views") /\ viewMu = Nobody
    /\ th' = [th EXCEPT ![t].pc = "search", ![t].v = NoView,
                        ![t].todo = views, ![t].keep = views]
    /\ UNCHANGED <<sessionVars, wg, view, snap>>

Search(t) ==
    /\ At(t, "search")
    /\ \/ /\ th[t].todo = {}
          /\ th' = [th EXCEPT ![t].pc = "last", ![t].todo = th[t].keep]
          /\ UNCHANGED snap
       \/ \E v \in th[t].todo :
            LET s == view[v].cur IN
            /\ ~Invalidating(v)
            /\ \/ /\ s = NoSnap
                  /\ th' = [th EXCEPT ![t].todo = @ \ {v}]
                  /\ UNCHANGED snap
               \/ /\ s # NoSnap /\ Acquire(s)
                  /\ th' = [th EXCEPT ![t].pc = "await", ![t].held = {s}, ![t].v = v,
                                      ![t].s = s, ![t].todo = @ \ {v}]
    /\ UNCHANGED <<sessionVars, wg, view>>

\* After awaitLoaded: give up if the context is cancelled, keep the snapshot if
\* it matches, go on with the next view if not.
Match(t) ==
    /\ At(t, "match")
    /\ LET s == th[t].s IN
       \/ /\ th[t].cancelled /\ Decref(s) /\ Return(t)
       \/ ~th[t].cancelled /\ Use(t, {s}) /\ UNCHANGED <<wg, snap>>
       \/ /\ ~th[t].cancelled /\ Decref(s)
          /\ th' = [th EXCEPT ![t].pc = "search", ![t].held = {}, ![t].s = NoSnap,
                              ![t].v = NoView]
    /\ UNCHANGED <<sessionVars, view>>

\* No view matched: the first view that is not shut down, or errNoViews.
LastResort(t) ==
    /\ At(t, "last")
    /\ \/ /\ th[t].todo = {} /\ Return(t) /\ UNCHANGED snap
       \/ \E v \in th[t].todo :
            LET s == view[v].cur IN
            /\ ~Invalidating(v)
            /\ \/ /\ s = NoSnap
                  /\ th' = [th EXCEPT ![t].todo = @ \ {v}]
                  /\ UNCHANGED snap
               \/ s # NoSnap /\ Acquire(s) /\ Use(t, {s})
    /\ UNCHANGED <<sessionVars, wg, view>>

\* The handlers of the MCP tools: Session.Views, then View.Snapshot of one of
\* them, or (Symbol) of all that are not shut down.
ToolCall(t) ==
    /\ At(t, "idle") /\ viewMu = Nobody /\ views # {}
    /\ \E vs \in SUBSET views :
          /\ vs = views \/ Cardinality(vs) = 1
          /\ th' = [th EXCEPT ![t] = [Idle EXCEPT !.pc = "collect", !.op = "request",
                                                  !.todo = vs, !.began = done]]
    /\ UNCHANGED <<sessionVars, wg, view, snap>>

Collect(t) ==
    /\ At(t, "collect")
    /\ \/ /\ th[t].todo = {}
          /\ IF th[t].held = {} THEN Return(t) ELSE Use(t, th[t].held)
          /\ UNCHANGED snap
       \/ \E v \in th[t].todo :
            LET s == view[v].cur IN
            /\ ~Invalidating(v)
            /\ \/ s = NoSnap /\ UNCHANGED snap
               \/ s # NoSnap /\ Acquire(s)
            /\ th' = [th EXCEPT ![t].todo = @ \ {v},
                                ![t].held = IF s = NoSnap THEN @ ELSE @ \union {s}]
    /\ UNCHANGED <<sessionVars, wg, view>>

\* A request uses a snapshot it holds, which may first have to be loaded ...
UseLoaded(t) ==
    /\ At(t, "using")
    /\ \E s \in th[t].held :
          th' = [th EXCEPT ![t].pc = "await", ![t].s = s, ![t].v = snap[s].of]
    /\ UNCHANGED <<sessionVars, wg, view, snap>>

\* ... and releases it.
Release(t) ==
    /\ At(t, "using")
    /\ \E s \in th[t].held :
          /\ Decref(s)
          /\ IF th[t].held = {s} THEN Return(t) ELSE Use(t, th[t].held \ {s})
    /\ UNCHANGED <<sessionVars, view>>

\* The client cancels the request, at any moment; it matters (and is an action)
\* while the request reads its context.  Edits run on a detached context.
CancelRequest(t) ==
    /\ th[t].op \in {"of", "request"} /\ ~th[t].cancelled
    /\ th[t].pc \in {"await", "init", "load", "match"}
    /\ th' = [th EXCEPT ![t].cancelled = TRUE]
    /\ UNCHANGED <<sessionVars, wg, view, snap>>

-----------------------------------------------------------------------------
\* Snapshot.AwaitInitialized of the snapshot in hand: wait for the view's initial
\* load or for the context, then initialize(ctx, false).
AfterInit(t) == IF th[t].op = "request" THEN Use(t, th[t].held)
                ELSE Goto(t, IF Editing(t) THEN "swap" ELSE "match")

AwaitInitialized(t) ==
    /\ At(t, "await")
    /\ \/ th[t].cancelled /\ AfterInit(t)
       \/ view[th[t].v].iwl /\ Goto(t, "init")
    /\ UNCHANGED <<sessionVars, wg, view, snap>>

\* initialize enters initializationSema, or gives up with its context; it leaves
\* at once if the snapshot is initialized.
InitBeginUnchecked(t) ==                                      \* mutant
    /\ At(t, "init") /\ view[th[t].v].sema = Nobody
    /\ view' = [view EXCEPT ![th[t].v].sema = t] /\ Goto(t, "load")
    /\ UNCHANGED <<sessionVars, wg, snap>>
InitBegin(t) ==
    /\ At(t, "init")
    /\ LET v == th[t].v IN
       \/ /\ th[t].cancelled
          /\ AfterInit(t) /\ UNCHANGED view
       \/ /\ view[v].sema = Nobody /\ snap[th[t].s].inited
          /\ AfterInit(t) /\ UNCHANGED view
       \/ /\ view[v].sema = Nobody /\ ~snap[th[t].s].inited
          /\ view' = [view EXCEPT ![v].sema = t]
          /\ Goto(t, "load")
    /\ UNCHANGED <<sessionVars, wg, snap>>

\* The load is over.  It may leave the snapshot uninitialized only if the context
\* was cancelled.
InitEndKeepsSema(t) ==                                        \* mutant
    /\ At(t, "load")
    /\ snap' = [snap EXCEPT ![th[t].s].inited = TRUE] /\ AfterInit(t)
    /\ UNCHANGED <<sessionVars, wg, view>>
InitEnd(t) ==
    /\ At(t, "load")
    /\ \/ snap' = [snap EXCEPT ![th[t].s].inited = TRUE]
       \/ th[t].cancelled /\ UNCHANGED snap
    /\ view' = [view EXCEPT ![th[t].v].sema = Nobody]
    /\ AfterInit(t)
    /\ UNCHANGED <<sessionVars, wg>>

\* The goroutine of createView runs initialize(initCtx, true) on the view's first
\* snapshot.  If the view is shut down, the select may take its cancelled context.
LoaderSkip(v) ==
    /\ view[v].lpc = "start" /\ view[v].stopped
    /\ view' = [view EXCEPT ![v].lpc = "release"]
    /\ UNCHANGED <<sessionVars, wg, snap, th>>

LoaderBegin(v) ==
    /\ view[v].lpc = "start" /\ view[v].sema = Nobody
    /\ view' = [view EXCEPT ![v].lpc = "load", ![v].sema = Loader]
    /\ UNCHANGED <<sessionVars, wg, snap, th>>

\* The load is over, and initialWorkspaceLoad is closed whatever came of it.
LoaderEndNeverCloses(v) ==                                    \* mutant
    /\ view[v].lpc = "load"
    /\ view' = [view EXCEPT ![v].lpc = "release", ![v].sema = Nobody]
    /\ snap' = [snap EXCEPT ![view[v].lsnap].inited = TRUE]
    /\ UNCHANGED <<sessionVars, wg, th>>
LoaderEnd(v) ==
    /\ view[v].lpc = "load"
    /\ view' = [view EXCEPT ![v].lpc = "release", ![v].sema = Nobody, ![v].iwl = TRUE]
    /\ \/ snap' = [snap EXCEPT ![view[v].lsnap].inited = TRUE]
       \/ view[v].stopped /\ UNCHANGED snap
    /\ UNCHANGED <<sessionVars, wg, th>>

LoaderRelease(v) ==
    /\ view[v].lpc = "release"
    /\ Decref(view[v].lsnap)
    /\ view' = [view EXCEPT ![v].lpc = "none", ![v].lsnap = NoSnap]
    /\ UNCHANGED <<sessionVars, th>>

-----------------------------------------------------------------------------
\* Session.createView: a view with its first snapshot, referenced by the view and
\* by the loader; n more references are returned to the caller.
CreateViewUncounted(v, s, d, n) ==                            \* mutant
    /\ FreshView(v) /\ FreshSnap(s)
    /\ view' = [view EXCEPT ![v] = [NewView0 EXCEPT !.def = d, !.cur = s,
                                                    !.lpc = "start", !.lsnap = s]]
    /\ snap' = [snap EXCEPT ![s] = [refs |-> 2 + n, of |-> v, inited |-> FALSE,
                                    edit |-> edits]]
    /\ UNCHANGED wg
CreateView(v, s, d, n) ==
    /\ FreshView(v) /\ FreshSnap(s)
    /\ view' = [view EXCEPT ![v] = [NewView0 EXCEPT !.def = d, !.cur = s,
                                                    !.lpc = "start", !.lsnap = s]]
    /\ snap' = [snap EXCEPT ![s] = [refs |-> 2 + n, of |-> v, inited |-> FALSE,
                                    edit |-> edits]]
    /\ wg' = wg + 1

\* View.shutdown cancels the initial load and drops the view's reference.
ShutdownViewKeepsRef(v) ==                                    \* mutant
    /\ view' = [view EXCEPT ![v].stopped = TRUE, ![v].cur = NoSnap]
    /\ UNCHANGED <<snap, wg>>
ShutdownView(v) ==
    LET s == view[v].cur IN
    /\ view' = [view EXCEPT ![v].stopped = TRUE, ![v].cur = NoSnap]
    /\ IF s # NoSnap THEN Decref(s) ELSE UNCHANGED <<snap, wg>>

\* Session.NewView: fails if the folder already has a view.  The caller holds the
\* returned snapshot.
NewView(t, d) ==
    /\ At(t, "idle") /\ viewMu = Nobody /\ ~down
    /\ \A v \in views : FolderOf[view[v].def] # FolderOf[d]
    /\ \E v \in View, s \in Snap :
          /\ CreateView(v, s, d, 1)
          /\ views' = views \union {v}
          /\ viewMap' = [viewMap EXCEPT ![FolderOf[d]] = v]
          /\ th' = [th EXCEPT ![t] = [Idle EXCEPT !.pc = "using", !.op = "request",
                                                  !.held = {s}, !.began = done]]
    /\ UNCHANGED <<viewMu, down, edits, done>>

\* RemoveView, ResetView and DidModifyFiles hold viewMu and replace some views:
\* they make new ones, shut others down, and reset every association.
RemoveView(t, f) ==
    /\ At(t, "idle") /\ viewMu = Nobody /\ ~down
    /\ viewMu' = t
    /\ LET gone == {v \in views : FolderOf[view[v].def] = f} IN
       th' = [th EXCEPT ![t] = [Idle EXCEPT !.pc = "retire", !.op = "remove",
                                            !.todo = gone, !.keep = views \ gone]]
    /\ UNCHANGED <<views, viewMap, down, edits, done, wg, view, snap>>

\* ResetView fails (and does nothing more) if u has no view.
ResetView(t, u) ==
    /\ At(t, "idle") /\ viewMu = Nobody /\ ~down
    /\ \E v \in Best(u) :
          /\ viewMap' = [viewMap EXCEPT ![u] = v]
          /\ \/ v = NoView /\ UNCHANGED <<viewMu, th>>
             \/ /\ v # NoView
                /\ viewMu' = t
                /\ th' = [th EXCEPT ![t] = [Idle EXCEPT !.pc = "create", !.op = "reset",
                             !.defs = {view[v].def}, !.todo = {v}, !.keep = views \ {v}]]
    /\ UNCHANGED <<views, down, edits, done, wg, view, snap>>

\* Session.DidModifyFiles: the overlays change; then the set of views may have to
\* be computed anew (selectViewDefs), which gives every folder a view, keeps the
\* views with an unchanged definition and retires the others.
DidModifyFiles(t) ==
    /\ At(t, "idle") /\ viewMu = Nobody /\ ~down
    /\ edits < MaxEdits
    /\ viewMu' = t /\ edits' = edits + 1
    /\ \/ th' = [th EXCEPT ![t] = [Idle EXCEPT !.pc = "assoc", !.op = "modify"]]
       \/ \E ds \in SUBSET Def :
             LET same == {v \in views : view[v].def \in ds} IN
             /\ {FolderOf[d] : d \in ds} = {FolderOf[view[v].def] : v \in views}
             /\ th' = [th EXCEPT ![t] = [Idle EXCEPT
                          !.pc = "create", !.op = "modify",
                          !.defs = ds \ {view[v].def : v \in same},
                          !.todo = views \ same, !.keep = same]]
    /\ UNCHANGED <<views, viewMap, down, done, wg, view, snap>>

\* createView and the release of the reference it returns.
CreateNext(t) ==
    /\ At(t, "create")
    /\ \/ /\ th[t].defs = {} /\ Goto(t, "retire")
          /\ UNCHANGED <<wg, view, snap>>
       \/ \E d \in th[t].defs, v \in View, s \in Snap :
             /\ CreateView(v, s, d, 0)
             /\ th' = [th EXCEPT ![t].defs = @ \ {d}, ![t].keep = @ \union {v}]
    /\ UNCHANGED sessionVars

Retire(t) ==
    /\ At(t, "retire")
    /\ \E v \in th[t].todo :
          /\ ShutdownView(v)
          /\ th' = [th EXCEPT ![t].todo = @ \ {v}]
    /\ UNCHANGED sessionVars

\* Session.views is replaced and viewMap reset.
CommitKeepsRetired(t) ==                                      \* mutant
    /\ At(t, "retire") /\ th[t].todo = {}
    /\ views' = views \union th[t].keep /\ viewMap' = [u \in URI |-> Unset]
    /\ IF Editing(t) THEN Goto(t, "assoc") /\ UNCHANGED viewMu
                     ELSE Return(t) /\ viewMu' = Nobody
    /\ UNCHANGED <<down, edits, done, wg, view, snap>>
CommitKeepsMap(t) ==                                          \* mutant
    /\ At(t, "retire") /\ th[t].todo = {}
    /\ views' = th[t].keep
    /\ IF Editing(t) THEN Goto(t, "assoc") /\ UNCHANGED viewMu
                     ELSE Return(t) /\ viewMu' = Nobody
    /\ UNCHANGED <<viewMap, down, edits, done, wg, view, snap>>
Commit(t) ==
    /\ At(t, "retire") /\ th[t].todo = {}
    /\ views' = th[t].keep
    /\ viewMap' = [u \in URI |-> Unset]
    /\ IF Editing(t)
       THEN Goto(t, "assoc") /\ UNCHANGED viewMu
       ELSE Return(t) /\ viewMu' = Nobody
    /\ UNCHANGED <<down, edits, done, wg, view, snap>>

\* DidModifyFiles looks up (and memoizes) the best view of each changed file, ...
AssociateBestOnly(t) ==                                       \* mutant
    /\ At(t, "assoc")
    /\ \E u \in File : \E v \in Best(u) :
          /\ viewMap' = [viewMap EXCEPT ![u] = v]
          /\ th' = [th EXCEPT ![t].pc = "inval", ![t].keep = {}, ![t].todo = {v} \ {NoView}]
    /\ UNCHANGED <<viewMu, views, down, edits, done, wg, view, snap>>
Associate(t) ==
    /\ At(t, "assoc")
    /\ \E u \in File : \E v \in Best(u) : viewMap' = [viewMap EXCEPT ![u] = v]
    /\ th' = [th EXCEPT ![t].pc = "inval", ![t].keep = {}, ![t].todo = views]
    /\ UNCHANGED <<viewMu, views, down, edits, done, wg, view, snap>>

\* ... then invalidates every view (invalidateViewLocked): it takes snapshotMu and
\* awaits the initialization of the current snapshot, ...
Invalidate(t) ==
    /\ At(t, "inval")
    /\ \E v \in th[t].todo :
          th' = [th EXCEPT ![t].pc = "await", ![t].v = v, ![t].s = view[v].cur,
                           ![t].todo = @ \ {v}]
    /\ UNCHANGED <<sessionVars, wg, view, snap>>

\* ... which it replaces by a clone, that may have to be initialized again (reinit:
\* a go.mod or similar file changed), and of which the caller gets a reference.
Clone(old, reinit) == [refs |-> 1, of |-> snap[old].of, edit |-> edits,
                       inited |-> snap[old].inited /\ ~reinit]

Swap(t) ==
    /\ At(t, "swap")
    /\ LET v == th[t].v  old == th[t].s IN
       \E s \in Snap, reinit \in BOOLEAN :
          /\ FreshSnap(s)
          /\ snap' = [snap EXCEPT ![old].refs = @ - 1,
                                  ![s] = [Clone(old, reinit) EXCEPT !.refs = 2]]
          /\ wg' = IF snap[old].refs = 1 THEN wg ELSE wg + 1
          /\ view' = [view EXCEPT ![v].cur = s]
          /\ IF th[t].op = "modify"
             THEN /\ th' = [th EXCEPT ![t].pc = "drop", ![t].s = NoSnap, ![t].v = NoView,
                                      ![t].held = {s}]
                  /\ UNCHANGED viewMu
             ELSE Use(t, {s}) /\ viewMu' = Nobody
    /\ UNCHANGED <<views, viewMap, down, edits, done>>

\* DidModifyFiles does not need that reference.
Drop(t) ==
    /\ At(t, "drop")
    /\ \E s \in th[t].held : Decref(s)
    /\ th' = [th EXCEPT ![t].pc = "inval", ![t].held = {}]
    /\ UNCHANGED <<sessionVars, view>>

EndModify(t) ==
    /\ At(t, "inval") /\ th[t].todo = {}
    /\ Return(t)
    /\ viewMu' = Nobody /\ done' = edits
    /\ UNCHANGED <<views, viewMap, down, edits, wg, view, snap>>

\* Session.InvalidateView: a change of one active view (upgrades, vulnerabilities);
\* the caller keeps the new snapshot.
InvalidateView(t) ==
    /\ At(t, "idle") /\ viewMu = Nobody
    /\ viewMu' = t
    /\ \E v \in views :
          th' = [th EXCEPT ![t] = [Idle EXCEPT !.pc = "await", !.op = "invalidate",
                                               !.v = v, !.s = view[v].cur, !.began = done]]
    /\ UNCHANGED <<views, viewMap, down, edits, done, wg, view, snap>>

\* Session.Shutdown: forget all views, shut them down, wait for snapshotWG.
Shutdown(t) ==
    /\ At(t, "idle") /\ viewMu = Nobody /\ ~down
    /\ down' = TRUE /\ views' = {} /\ viewMap' = [u \in URI |-> Unset]
    /\ th' = [th EXCEPT ![t] = [Idle EXCEPT !.pc = "stop", !.op = "shutdown",
                                            !.todo = views]]
    /\ UNCHANGED <<viewMu, edits, done, wg, view, snap>>

StopNext(t) ==
    /\ At(t, "stop")
    /\ \/ \E v \in th[t].todo :
             /\ ShutdownView(v)
             /\ th' = [th EXCEPT ![t].todo = @ \ {v}]
       \/ /\ th[t].todo = {} /\ Goto(t, "drain")
          /\ UNCHANGED <<wg, view, snap>>
    /\ UNCHANGED sessionVars

DrainAtOnce(t) ==                                             \* mutant
    /\ At(t, "drain") /\ Goto(t, "closed") /\ UNCHANGED <<sessionVars, wg, view, snap>>
Drain(t) ==
    /\ At(t, "drain") /\ wg = 0
    /\ Goto(t, "closed")
    /\ UNCHANGED <<sessionVars, wg, view, snap>>

-----------------------------------------------------------------------------
\* The calls a client may begin, and the steps they then take.
Begin(t) == \/ "SnapshotOf" \in Calls /\ \E u \in File : SnapshotOf(t, u)
            \/ "ToolCall" \in Calls /\ ToolCall(t)
            \/ "NewView" \in Calls /\ \E d \in Def : NewView(t, d)
            \/ "RemoveView" \in Calls /\ \E f \in Folder : RemoveView(t, f)
            \/ "ResetView" \in Calls /\ \E u \in File : ResetView(t, u)
            \/ "DidModifyFiles" \in Calls /\ DidModifyFiles(t)
            \/ "InvalidateView" \in Calls /\ InvalidateView(t)
            \/ "Shutdown" \in Calls /\ Shutdown(t)

Request(t) == \/ FastSnapshot(t) \/ Forget(t) \/ ListViews(t) \/ Search(t) \/ Match(t)
              \/ LastResort(t) \/ Collect(t) \/ Release(t)
Initialize(t) == AwaitInitialized(t) \/ InitBegin(t) \/ InitEnd(t)
Edit(t) == \/ CreateNext(t) \/ Retire(t) \/ Commit(t) \/ Associate(t) \/ Invalidate(t)
           \/ Swap(t) \/ Drop(t) \/ EndModify(t)
Stop(t) == StopNext(t) \/ Drain(t)
Load(v) == LoaderSkip(v) \/ LoaderBegin(v) \/ LoaderEnd(v) \/ LoaderRelease(v)

Next == \/ \E t \in Thread : \/ Begin(t) \/ Request(t) \/ Initialize(t) \/ Edit(t) \/ Stop(t)
                             \/ UseLoaded(t) \/ CancelRequest(t)
        \/ \E v \in View : Load(v)

Spec == Init /\ [][Next]_vars

\* Goroutines run, loads end, and a request uses a snapshot finitely often.
\* Senders on initializationSema and goroutines blocked on a mutex are served in
\* order.
Fairness ==
    /\ \A t \in Thread : /\ WF_vars(Request(t)) /\ WF_vars(Initialize(t))
                         /\ WF_vars(Edit(t)) /\ WF_vars(Stop(t))
                         /\ SF_vars(InitBegin(t)) /\ SF_vars(Release(t))
    /\ \A v \in View : WF_vars(Load(v))
FairSpec == Spec /\ Fairness

-----------------------------------------------------------------------------
Users(s) == {t \in Thread : s \in th[t].held}
ViewRef(s) == IF \E v \in View : view[v].cur = s THEN 1 ELSE 0
LoaderRef(s) == IF \E v \in View : view[v].lsnap = s THEN 1 ELSE 0

\* refcount is the number of references that will be released: the view's, the
\* loader's and the requests'.  One too few destroys the maps of a snapshot in use
\* and trips the assertion "non-positive refs" (snapshot.go:219, 231); one too many
\* leaks the snapshot and blocks Shutdown.
RefsExact == \A s \in Snap :
    snap[s].refs = Cardinality(Users(s)) + ViewRef(s) + LoaderRef(s)

\* snapshotWG counts the snapshots that are not destroyed (session.go:69-71), so
\* Shutdown returns (session.go:100) only when nothing is left, and nothing comes
\* to life after it.
WaitGroupExact == wg = Cardinality({s \in Snap : snap[s].refs > 0})
ShutdownDrains == \A t \in Thread : At(t, "closed") => \A s \in Snap : snap[s].refs = 0

\* invalidateViewLocked never meets a shut-down view (it would panic, view.go:793)
\* and replaces the very snapshot whose initialization it awaited, although other
\* goroutines shut views down and swap snapshots all the time.
InvalidatesCurrent == \A t \in Thread :
    /\ At(t, "inval") => \A v \in th[t].todo : view[v].cur # NoSnap
    /\ Editing(t) /\ th[t].pc \in {"await", "init", "load", "swap"} =>
          th[t].s = view[th[t].v].cur /\ th[t].s # NoSnap

\* Between edits every active view has a current snapshot, no two active views have
\* the same definition (session.go:595), and files are associated with active views
\* only (session.go:67).
RegistryConsistent == viewMu = Nobody =>
    /\ \A v \in views : view[v].cur # NoSnap
    /\ \A v, w \in views : view[v].def = view[w].def => v = w
    /\ \A u \in URI : viewMap[u] \in views \union {NoView, Unset}

\* A snapshot is initialized at most once, by one goroutine at a time
\* (snapshot.go:97-100), and is cloned only when it is initialized (view.go:801).
InitializedOnce ==
    /\ \A t \in Thread : At(t, "load") =>
          view[th[t].v].sema = t /\ view[th[t].v].iwl /\ ~snap[th[t].s].inited
    /\ \A v \in View : view[v].lpc = "load" => ~snap[view[v].lsnap].inited
    /\ \A t \in Thread : At(t, "swap") => snap[th[t].s].inited

\* A request that begins after DidModifyFiles returned works on a snapshot that has
\* seen the edit, whichever way it found it and however the views were replaced
\* meanwhile (session.go:382-454, 784-953).
RequestsSeeEdits == \A t \in Thread :
    At(t, "using") => \A s \in th[t].held : snap[s].edit >= th[t].began

\* An edit waits for loads with viewMu held, which stops every other call of the
\* session; it always ends and gives viewMu back.
LockReleased == viewMu # Nobody ~> viewMu = Nobody

\* The initial load of a view that is not shut down lets everybody go on who waits
\* for it in AwaitInitialized (snapshot.go:1192-1201).
AwaitEnds == \A t \in Thread :
    At(t, "await") ~> (~At(t, "await") \/ view[th[t].v].stopped)
=============================================================================
