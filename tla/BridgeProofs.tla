---------------------------- MODULE BridgeProofs ----------------------------
(***************************************************************************)
(* Proofs about Bridge for every set of goroutines, views, snapshots,      *)
(* files, folders and definitions.  Until its deferred calls run, the      *)
(* process is a session with one more goroutine, Main, which calls NewView *)
(* and holds the snapshot it got until it releases it: what is proved of   *)
(* Session holds of the process.                                           *)
(***************************************************************************)
EXTENDS Bridge, FiniteSetTheorems, TLAPS

Main == CHOOSE x : x \notin Thread \union {Nobody, Loader}

\* What main is in the session: a request that holds the first snapshot.
MainThread == IF main = "booted"
              THEN [Idle EXCEPT !.pc = "using", !.op = "request", !.held = {first}]
              ELSE Idle
process == [t \in Thread \union {Main} |-> IF t = Main THEN MainThread ELSE th[t]]

S == INSTANCE SessionEditProofs WITH Thread <- Thread \union {Main}, th <- process,
        Calls <- {"NewView", "ToolCall", "DidModifyFiles"}

LEMMA MainIsNew == Main \notin Thread \union {Nobody, Loader}
  BY NoSetContainsEverything DEF Main

LEMMA SessionAssumed == S!SessionAssumption
<1>1. IsFiniteSet(Thread \union {Main})
  BY SessionAssumption, FS_AddElement
<1>2. S!IsFiniteSet(Thread \union {Main}) /\ S!IsFiniteSet(Snap)
  BY <1>1, SessionAssumption DEF S!IsFiniteSet, IsFiniteSet
<1> QED
  BY <1>2, MainIsNew, SessionAssumption DEF S!Kinds

-----------------------------------------------------------------------------
(* The operators of Session mean the same with one more goroutine. *)

LEMMA SameCardinality == \A X : S!Cardinality(X) = Cardinality(X)
  BY DEF S!Cardinality, Cardinality

IsFun == th = [t \in Thread |-> th[t]]

LEMMA ThreadKept ==
  ASSUME NEW t \in Thread
  PROVE  t # Main /\ t \in Thread \union {Main} /\ process[t] = th[t]
BY MainIsNew DEF process

LEMMA ThreadChanged ==
  ASSUME NEW t \in Thread, main' = main, first' = first,
         \A x \in Thread \ {t} : th'[x] = th[x]
  PROVE  process' = [process EXCEPT ![t] = th'[t]]
<1>1. /\ process = [x \in Thread \union {Main} |-> IF x = Main THEN MainThread ELSE th[x]]
      /\ process' = [x \in Thread \union {Main} |-> IF x = Main THEN MainThread' ELSE th'[x]]
  BY DEF process
<1>2. MainThread' = MainThread
  BY DEF MainThread, Idle
<1>3. t # Main
  BY MainIsNew
<1> QED
  BY <1>1, <1>2, <1>3

LEMMA ThreadsUnchanged ==
  ASSUME main' = main, first' = first, th' = th
  PROVE  process' = process
BY DEF process, MainThread, Idle

LEMMA SameInvalidating ==
  ASSUME NEW v
  PROVE  S!Invalidating(v) <=> Invalidating(v)
<1>1. S!Editing(Main) = FALSE
  BY MainIsNew DEF S!Editing, process, MainThread, Idle
<1>2. \A t \in Thread : process[t] = th[t]
  BY ThreadKept
<1> QED
  BY <1>1, <1>2 DEF S!Invalidating, Invalidating, S!Editing, Editing

\* Main keeps the first snapshot alive until it releases it.
LEMMA SameFresh ==
  ASSUME S!IInv, NEW s \in Snap, FreshSnap(s), main # "boot" => first \in Snap
  PROVE  S!FreshSnap(s)
<1>1. s \notin process[Main].held /\ process[Main].s # s
  <2>1. process[Main] = MainThread
    BY MainIsNew DEF process
  <2>2. MainThread.s = NoSnap
    BY DEF MainThread, Idle
  <2>3. ASSUME s \in process[Main].held PROVE FALSE
    <3>1. snap[s].refs > 0
      BY <2>3, S!ReferencedAlive, SessionAssumed DEF S!IInv
    <3> QED
      BY <3>1 DEF FreshSnap
  <2> QED
    BY <2>1, <2>2, <2>3, SessionAssumption
<1>2. \A t \in Thread : process[t] = th[t]
  BY ThreadKept
<1> QED
  BY <1>1, <1>2 DEF FreshSnap, S!FreshSnap

LEMMA SameFreshView ==
  ASSUME NEW v \in View, FreshView(v)
  PROVE  S!FreshView(v)
<1>1. v # process[Main].v /\ v \notin process[Main].todo \union process[Main].keep
  BY MainIsNew, SessionAssumption DEF process, MainThread, Idle
<1>2. \A t \in Thread : process[t] = th[t]
  BY ThreadKept
<1> QED
  BY <1>1, <1>2 DEF FreshView, S!FreshView, URI, S!URI

-----------------------------------------------------------------------------
(* A step of a goroutine of the process is the same step of the session. *)

Frame == /\ IsFun /\ main' = main /\ first' = first
         /\ main # "boot" => first \in Snap

LEMMA LiftRecord ==
  ASSUME Frame, NEW t \in Thread, NEW r, th' = [th EXCEPT ![t] = r]
  PROVE  process' = [process EXCEPT ![t] = r] /\ IsFun'
<1>1. IsFun' /\ th'[t] = r /\ \A x \in Thread \ {t} : th'[x] = th[x]
  BY DEF Frame, IsFun
<1> QED
  BY <1>1, ThreadChanged DEF Frame

LEMMA LiftGoto ==
  ASSUME Frame, NEW t \in Thread, NEW l, Goto(t, l)
  PROVE  S!Goto(t, l) /\ IsFun'
<1>1. th'[t] = [th[t] EXCEPT !.pc = l] /\ IsFun' /\ \A x \in Thread \ {t} : th'[x] = th[x]
  BY DEF Goto, Frame, IsFun
<1>2. process' = [process EXCEPT ![t].pc = l]
  BY <1>1, ThreadKept, ThreadChanged DEF Frame
<1> QED
  BY <1>1, <1>2 DEF S!Goto

LEMMA LiftUse ==
  ASSUME Frame, NEW t \in Thread, NEW X, Use(t, X)
  PROVE  S!Use(t, X) /\ IsFun'
BY LiftRecord, ThreadKept DEF Use, S!Use, Idle, S!Idle

LEMMA LiftReturn ==
  ASSUME Frame, NEW t \in Thread, Return(t)
  PROVE  S!Return(t) /\ IsFun'
BY LiftRecord DEF Return, S!Return, Idle, S!Idle

LEMMA LiftAfterInit ==
  ASSUME Frame, NEW t \in Thread, AfterInit(t)
  PROVE  S!AfterInit(t) /\ IsFun'
BY LiftGoto, LiftUse, ThreadKept DEF AfterInit, S!AfterInit, Editing, S!Editing

LEMMA CreateViewMap ==
  ASSUME S!IInv, main # "boot" => first \in Snap, NEW v \in View, NEW s \in Snap,
         NEW d, NEW n, CreateView(v, s, d, n)
  PROVE  S!CreateView(v, s, d, n)
BY SameFresh, SameFreshView DEF CreateView, S!CreateView, NewView0, S!NewView0

LEMMA FastSnapshotMap ==
  ASSUME Frame, S!IInv, NEW t \in Thread, FastSnapshot(t)
  PROVE  S!FastSnapshot(t) /\ IsFun'
<1>1. process[t] = th[t] /\ (S!Invalidating(th[t].v) <=> Invalidating(th[t].v))
  BY ThreadKept, SameInvalidating
<1> QED
  BY <1>1, LiftGoto, LiftUse
       DEF FastSnapshot, S!FastSnapshot, At, S!At, sessionVars, S!sessionVars, Acquire,
       S!Acquire

LEMMA ForgetMap ==
  ASSUME Frame, S!IInv, NEW t \in Thread, Forget(t)
  PROVE  S!Forget(t) /\ IsFun'
<1> QED
  BY ThreadKept, LiftGoto DEF Forget, S!Forget, At, S!At

LEMMA ListViewsMap ==
  ASSUME Frame, S!IInv, NEW t \in Thread, ListViews(t)
  PROVE  S!ListViews(t) /\ IsFun'
<1>1. th' = [th EXCEPT ![t].pc = "search", ![t].v = NoView, ![t].todo = views,
              ![t].keep = views]
  BY DEF ListViews
<1>2. /\ th'[t] = [th[t] EXCEPT !.pc = "search", !.v = NoView, !.todo = views,
              !.keep = views]
      /\ IsFun' /\ \A x \in Thread \ {t} : th'[x] = th[x]
  BY <1>1 DEF Frame, IsFun
<1>3. process' = [process EXCEPT ![t].pc = "search", ![t].v = NoView, ![t].todo = views,
              ![t].keep = views]
  <2>1. process[t] = th[t] /\ process' = [process EXCEPT ![t] = th'[t]]
    BY <1>2, ThreadKept, ThreadChanged DEF Frame
  <2> QED
    BY <1>2, <2>1
<1> QED
  BY <1>2, <1>3, ThreadKept DEF ListViews, S!ListViews, At, S!At, sessionVars, S!sessionVars

LEMMA SearchMap ==
  ASSUME Frame, S!IInv, NEW t \in Thread, Search(t)
  PROVE  S!Search(t) /\ IsFun'
<1>1. CASE /\ th[t].todo = {} /\ UNCHANGED snap
           /\ th' = [th EXCEPT ![t].pc = "last", ![t].todo = th[t].keep]
  <2>1. /\ th'[t] = [th[t] EXCEPT !.pc = "last", !.todo = th[t].keep]
        /\ IsFun' /\ \A x \in Thread \ {t} : th'[x] = th[x]
    BY <1>1 DEF Frame, IsFun
  <2>2. process' = [process EXCEPT ![t].pc = "last", ![t].todo = th[t].keep]
    <3>1. process[t] = th[t] /\ process' = [process EXCEPT ![t] = th'[t]]
      BY <2>1, ThreadKept, ThreadChanged DEF Frame
    <3> QED
      BY <2>1, <3>1
  <2> QED
    BY <1>1, <2>1, <2>2, ThreadKept
         DEF Search, S!Search, At, S!At, sessionVars, S!sessionVars, Acquire, S!Acquire
<1>2. ASSUME NEW v \in th[t].todo, ~Invalidating(v), view[v].cur = NoSnap,
             th' = [th EXCEPT ![t].todo = @ \ {v}], UNCHANGED snap
      PROVE  S!Search(t) /\ IsFun'
  <2>1. /\ th'[t] = [th[t] EXCEPT !.todo = @ \ {v}]
        /\ IsFun' /\ \A x \in Thread \ {t} : th'[x] = th[x]
    BY <1>2 DEF Frame, IsFun
  <2>2. process' = [process EXCEPT ![t].todo = @ \ {v}]
    <3>1. process[t] = th[t] /\ process' = [process EXCEPT ![t] = th'[t]]
      BY <2>1, ThreadKept, ThreadChanged DEF Frame
    <3> QED
      BY <2>1, <3>1
  <2> QED
    BY <1>2, <2>1, <2>2, ThreadKept, SameInvalidating
         DEF Search, S!Search, At, S!At, sessionVars, S!sessionVars, Acquire, S!Acquire
<1>3. ASSUME NEW v \in th[t].todo, ~Invalidating(v), view[v].cur # NoSnap,
              Acquire(view[v].cur),
             th' = [th EXCEPT ![t].pc = "await", ![t].held = {view[v].cur}, ![t].v = v,
                              ![t].s = view[v].cur, ![t].todo = @ \ {v}]
      PROVE  S!Search(t) /\ IsFun'
  <2>1. /\ th'[t] = [th[t] EXCEPT !.pc = "await", !.held = {view[v].cur}, !.v = v,
                !.s = view[v].cur, !.todo = @ \ {v}]
        /\ IsFun' /\ \A x \in Thread \ {t} : th'[x] = th[x]
    BY <1>3 DEF Frame, IsFun
  <2>2. process' = [process EXCEPT ![t].pc = "await", ![t].held = {view[v].cur},
                ![t].v = v, ![t].s = view[v].cur, ![t].todo = @ \ {v}]
    <3>1. process[t] = th[t] /\ process' = [process EXCEPT ![t] = th'[t]]
      BY <2>1, ThreadKept, ThreadChanged DEF Frame
    <3> QED
      BY <2>1, <3>1
  <2> QED
    BY <1>3, <2>1, <2>2, ThreadKept, SameInvalidating
         DEF Search, S!Search, At, S!At, sessionVars, S!sessionVars, Acquire, S!Acquire
<1> QED
  BY <1>1, <1>2, <1>3 DEF Search

LEMMA MatchMap ==
  ASSUME Frame, S!IInv, NEW t \in Thread, Match(t)
  PROVE  S!Match(t) /\ IsFun'
<1>1. CASE Decref(th[t].s) /\ ~th[t].cancelled
           /\ th' = [th EXCEPT ![t].pc = "search", ![t].held = {}, ![t].s = NoSnap,
                ![t].v = NoView]
  <2>1. /\ th'[t] = [th[t] EXCEPT !.pc = "search", !.held = {}, !.s = NoSnap, !.v = NoView]
        /\ IsFun' /\ \A x \in Thread \ {t} : th'[x] = th[x]
    BY <1>1 DEF Frame, IsFun
  <2>2. process' = [process EXCEPT ![t].pc = "search", ![t].held = {}, ![t].s = NoSnap,
                ![t].v = NoView]
    <3>1. process[t] = th[t] /\ process' = [process EXCEPT ![t] = th'[t]]
      BY <2>1, ThreadKept, ThreadChanged DEF Frame
    <3> QED
      BY <2>1, <3>1
  <2> QED
    BY <1>1, <2>1, <2>2, ThreadKept
         DEF Match, S!Match, At, S!At, sessionVars, S!sessionVars, Decref, S!Decref
<1> QED
  BY <1>1, ThreadKept, LiftUse, LiftReturn
       DEF Match, S!Match, At, S!At, sessionVars, S!sessionVars, Decref, S!Decref

LEMMA LastResortMap ==
  ASSUME Frame, S!IInv, NEW t \in Thread, LastResort(t)
  PROVE  S!LastResort(t) /\ IsFun'
<1>1. ASSUME NEW v \in th[t].todo, ~Invalidating(v), view[v].cur = NoSnap,
             th' = [th EXCEPT ![t].todo = @ \ {v}], UNCHANGED snap
      PROVE  S!LastResort(t) /\ IsFun'
  <2>1. /\ th'[t] = [th[t] EXCEPT !.todo = @ \ {v}]
        /\ IsFun' /\ \A x \in Thread \ {t} : th'[x] = th[x]
    BY <1>1 DEF Frame, IsFun
  <2>2. process' = [process EXCEPT ![t].todo = @ \ {v}]
    <3>1. process[t] = th[t] /\ process' = [process EXCEPT ![t] = th'[t]]
      BY <2>1, ThreadKept, ThreadChanged DEF Frame
    <3> QED
      BY <2>1, <3>1
  <2> QED
    BY <1>1, <2>1, <2>2, ThreadKept, SameInvalidating
         DEF LastResort, S!LastResort, At, S!At, sessionVars, S!sessionVars, Acquire,
         S!Acquire
<1>2. ASSUME NEW v \in th[t].todo, ~Invalidating(v), view[v].cur # NoSnap,
             Acquire(view[v].cur), Use(t, {view[v].cur})
      PROVE  S!LastResort(t) /\ IsFun'
  BY <1>2, ThreadKept, SameInvalidating, LiftUse
       DEF LastResort, S!LastResort, At, S!At, sessionVars, S!sessionVars, Acquire,
       S!Acquire
<1>3. ASSUME th[t].todo = {}, Return(t), UNCHANGED snap
      PROVE  S!LastResort(t) /\ IsFun'
  BY <1>3, ThreadKept, LiftReturn
       DEF LastResort, S!LastResort, At, S!At, sessionVars, S!sessionVars, Acquire,
       S!Acquire
<1> QED
  BY <1>1, <1>2, <1>3 DEF LastResort

LEMMA CollectMap ==
  ASSUME Frame, S!IInv, NEW t \in Thread, Collect(t)
  PROVE  S!Collect(t) /\ IsFun'
<1>1. ASSUME NEW v \in th[t].todo, ~Invalidating(v),
             \/ view[v].cur = NoSnap /\ UNCHANGED snap
             \/ view[v].cur # NoSnap /\ Acquire(view[v].cur),
             th' = [th EXCEPT ![t].todo = @ \ {v},
                    ![t].held = IF view[v].cur = NoSnap THEN @ ELSE @ \union {view[v].cur}]
      PROVE  S!Collect(t) /\ IsFun'
  <2>1. /\ th'[t] = [th[t] EXCEPT !.todo = @ \ {v},
                !.held = IF view[v].cur = NoSnap THEN @ ELSE @ \union {view[v].cur}]
        /\ IsFun' /\ \A x \in Thread \ {t} : th'[x] = th[x]
    BY <1>1 DEF Frame, IsFun
  <2>2. process' = [process EXCEPT ![t].todo = @ \ {v},
                ![t].held = IF view[v].cur = NoSnap THEN @ ELSE @ \union {view[v].cur}]
    <3>1. process[t] = th[t] /\ process' = [process EXCEPT ![t] = th'[t]]
      BY <2>1, ThreadKept, ThreadChanged DEF Frame
    <3> QED
      BY <2>1, <3>1
  <2> QED
    BY <1>1, <2>1, <2>2, ThreadKept, SameInvalidating
         DEF Collect, S!Collect, At, S!At, sessionVars, S!sessionVars, Acquire, S!Acquire
<1>2. ASSUME th[t].todo = {}, UNCHANGED snap,
             IF th[t].held = {} THEN Return(t) ELSE Use(t, th[t].held)
      PROVE  S!Collect(t) /\ IsFun'
  BY <1>2, ThreadKept, LiftReturn, LiftUse
       DEF Collect, S!Collect, At, S!At, sessionVars, S!sessionVars, Acquire, S!Acquire
<1> QED
  BY <1>1, <1>2 DEF Collect

LEMMA ReleaseMap ==
  ASSUME Frame, S!IInv, NEW t \in Thread, Release(t)
  PROVE  S!Release(t) /\ IsFun'
<1>1. PICK s \in th[t].held : /\ Decref(s)
                             /\ IF th[t].held = {s} THEN Return(t) ELSE Use(t,
                                  th[t].held \ {s})
  BY DEF Release
<1>2. process[t] = th[t] /\ IsFun'
      /\ IF th[t].held = {s} THEN S!Return(t) ELSE S!Use(t, th[t].held \ {s})
  BY <1>1, ThreadKept, LiftReturn, LiftUse
<1> QED
  BY <1>1, <1>2
       DEF Release, S!Release, At, S!At, sessionVars, S!sessionVars, Decref, S!Decref

LEMMA UseLoadedMap ==
  ASSUME Frame, S!IInv, NEW t \in Thread, UseLoaded(t)
  PROVE  S!UseLoaded(t) /\ IsFun'
<1>1. PICK s \in th[t].held :
        th' = [th EXCEPT ![t].pc = "await", ![t].s = s, ![t].v = snap[s].of]
  BY DEF UseLoaded
<1>2. /\ th'[t] = [th[t] EXCEPT !.pc = "await", !.s = s, !.v = snap[s].of]
      /\ IsFun' /\ \A x \in Thread \ {t} : th'[x] = th[x]
  BY <1>1 DEF Frame, IsFun
<1>3. process' = [process EXCEPT ![t].pc = "await", ![t].s = s, ![t].v = snap[s].of]
  <2>1. process[t] = th[t] /\ process' = [process EXCEPT ![t] = th'[t]]
    BY <1>2, ThreadKept, ThreadChanged DEF Frame
  <2> QED
    BY <1>2, <2>1
<1> QED
  BY <1>2, <1>3, ThreadKept DEF UseLoaded, S!UseLoaded, At, S!At, sessionVars, S!sessionVars

LEMMA CancelRequestMap ==
  ASSUME Frame, S!IInv, NEW t \in Thread, CancelRequest(t)
  PROVE  S!CancelRequest(t) /\ IsFun'
<1>1. th' = [th EXCEPT ![t].cancelled = TRUE]
  BY DEF CancelRequest
<1>2. /\ th'[t] = [th[t] EXCEPT !.cancelled = TRUE]
      /\ IsFun' /\ \A x \in Thread \ {t} : th'[x] = th[x]
  BY <1>1 DEF Frame, IsFun
<1>3. process' = [process EXCEPT ![t].cancelled = TRUE]
  <2>1. process[t] = th[t] /\ process' = [process EXCEPT ![t] = th'[t]]
    BY <1>2, ThreadKept, ThreadChanged DEF Frame
  <2> QED
    BY <1>2, <2>1
<1> QED
  BY <1>2, <1>3, ThreadKept
       DEF CancelRequest, S!CancelRequest, At, S!At, sessionVars, S!sessionVars

LEMMA AwaitInitializedMap ==
  ASSUME Frame, S!IInv, NEW t \in Thread, AwaitInitialized(t)
  PROVE  S!AwaitInitialized(t) /\ IsFun'
<1> QED
  BY ThreadKept, LiftGoto, LiftAfterInit
       DEF AwaitInitialized, S!AwaitInitialized, At, S!At, sessionVars, S!sessionVars

LEMMA InitBeginMap ==
  ASSUME Frame, S!IInv, NEW t \in Thread, InitBegin(t)
  PROVE  S!InitBegin(t) /\ IsFun'
<1> QED
  BY ThreadKept, LiftGoto, LiftAfterInit
       DEF InitBegin, S!InitBegin, At, S!At, sessionVars, S!sessionVars

LEMMA InitEndMap ==
  ASSUME Frame, S!IInv, NEW t \in Thread, InitEnd(t)
  PROVE  S!InitEnd(t) /\ IsFun'
<1> QED
  BY ThreadKept, LiftAfterInit DEF InitEnd, S!InitEnd, At, S!At, sessionVars, S!sessionVars

LEMMA CreateNextMap ==
  ASSUME Frame, S!IInv, NEW t \in Thread, CreateNext(t)
  PROVE  S!CreateNext(t) /\ IsFun'
<1>1. ASSUME th[t].defs = {}, Goto(t, "retire"), UNCHANGED <<wg, view, snap>>
      PROVE  S!CreateNext(t) /\ IsFun'
  BY <1>1, ThreadKept, LiftGoto
       DEF CreateNext, S!CreateNext, At, S!At, sessionVars, S!sessionVars
<1>2. ASSUME NEW d \in th[t].defs, NEW v \in View, NEW s \in Snap, CreateView(v, s, d, 0),
             th' = [th EXCEPT ![t].defs = @ \ {d}, ![t].keep = @ \union {v}]
      PROVE  S!CreateNext(t) /\ IsFun'
  <2>1. /\ th'[t] = [th[t] EXCEPT !.defs = @ \ {d}, !.keep = @ \union {v}]
        /\ IsFun' /\ \A x \in Thread \ {t} : th'[x] = th[x]
    BY <1>2 DEF Frame, IsFun
  <2>2. process' = [process EXCEPT ![t].defs = @ \ {d}, ![t].keep = @ \union {v}]
    <3>1. process[t] = th[t] /\ process' = [process EXCEPT ![t] = th'[t]]
      BY <2>1, ThreadKept, ThreadChanged DEF Frame
    <3> QED
      BY <2>1, <3>1
  <2>3. S!CreateView(v, s, d, 0)
    BY <1>2, CreateViewMap DEF Frame
  <2> QED
    BY <2>1, <2>2, <2>3, ThreadKept
         DEF CreateNext, S!CreateNext, At, S!At, sessionVars, S!sessionVars
<1> QED
  BY <1>1, <1>2 DEF CreateNext

LEMMA RetireMap ==
  ASSUME Frame, S!IInv, NEW t \in Thread, Retire(t)
  PROVE  S!Retire(t) /\ IsFun'
<1>1. PICK v \in th[t].todo : ShutdownView(v) /\ th' = [th EXCEPT ![t].todo = @ \ {v}]
  BY DEF Retire
<1>2. /\ th'[t] = [th[t] EXCEPT !.todo = @ \ {v}]
      /\ IsFun' /\ \A x \in Thread \ {t} : th'[x] = th[x]
  BY <1>1 DEF Frame, IsFun
<1>3. process' = [process EXCEPT ![t].todo = @ \ {v}]
  <2>1. process[t] = th[t] /\ process' = [process EXCEPT ![t] = th'[t]]
    BY <1>2, ThreadKept, ThreadChanged DEF Frame
  <2> QED
    BY <1>2, <2>1
<1>4. S!ShutdownView(v)
  BY <1>1 DEF ShutdownView, S!ShutdownView, Decref, S!Decref
<1> QED
  BY <1>2, <1>3, <1>4, ThreadKept DEF Retire, S!Retire, At, S!At, sessionVars, S!sessionVars

LEMMA CommitMap ==
  ASSUME Frame, S!IInv, NEW t \in Thread, Commit(t)
  PROVE  S!Commit(t) /\ IsFun'
<1> QED
  BY ThreadKept, LiftGoto, LiftReturn
     DEF Commit, S!Commit, At, S!At, Editing, S!Editing, URI, S!URI

LEMMA AssociateMap ==
  ASSUME Frame, S!IInv, NEW t \in Thread, Associate(t)
  PROVE  S!Associate(t) /\ IsFun'
<1>1. th' = [th EXCEPT ![t].pc = "inval", ![t].keep = {}, ![t].todo = views]
  BY DEF Associate
<1>2. /\ th'[t] = [th[t] EXCEPT !.pc = "inval", !.keep = {}, !.todo = views]
      /\ IsFun' /\ \A x \in Thread \ {t} : th'[x] = th[x]
  BY <1>1 DEF Frame, IsFun
<1>3. process' = [process EXCEPT ![t].pc = "inval", ![t].keep = {}, ![t].todo = views]
  <2>1. process[t] = th[t] /\ process' = [process EXCEPT ![t] = th'[t]]
    BY <1>2, ThreadKept, ThreadChanged DEF Frame
  <2> QED
    BY <1>2, <2>1
<1>4. \A u \in File : S!Best(u) = Best(u)
  BY DEF Best, S!Best
<1> QED
  BY <1>2, <1>3, <1>4, ThreadKept DEF Associate, S!Associate, At, S!At

LEMMA InvalidateMap ==
  ASSUME Frame, S!IInv, NEW t \in Thread, Invalidate(t)
  PROVE  S!Invalidate(t) /\ IsFun'
<1>1. PICK v \in th[t].todo :
        th' = [th EXCEPT ![t].pc = "await", ![t].v = v, ![t].s = view[v].cur,
             ![t].todo = @ \ {v}]
  BY DEF Invalidate
<1>2. /\ th'[t] = [th[t] EXCEPT !.pc = "await", !.v = v, !.s = view[v].cur,
              !.todo = @ \ {v}]
      /\ IsFun' /\ \A x \in Thread \ {t} : th'[x] = th[x]
  BY <1>1 DEF Frame, IsFun
<1>3. process' = [process EXCEPT ![t].pc = "await", ![t].v = v, ![t].s = view[v].cur,
              ![t].todo = @ \ {v}]
  <2>1. process[t] = th[t] /\ process' = [process EXCEPT ![t] = th'[t]]
    BY <1>2, ThreadKept, ThreadChanged DEF Frame
  <2> QED
    BY <1>2, <2>1
<1> QED
  BY <1>2, <1>3, ThreadKept
       DEF Invalidate, S!Invalidate, At, S!At, sessionVars, S!sessionVars

LEMMA SwapMap ==
  ASSUME Frame, S!IInv, NEW t \in Thread, Swap(t)
  PROVE  S!Swap(t) /\ IsFun'
<1> DEFINE v == th[t].v  old == th[t].s
<1>1. PICK s \in Snap, reinit \in BOOLEAN :
        /\ FreshSnap(s)
        /\ snap' = [snap EXCEPT ![old].refs = @ - 1,
                                ![s] = [Clone(old, reinit) EXCEPT !.refs = 2]]
        /\ wg' = IF snap[old].refs = 1 THEN wg ELSE wg + 1
        /\ view' = [view EXCEPT ![v].cur = s]
        /\ IF th[t].op = "modify"
           THEN /\ th' = [th EXCEPT ![t].pc = "drop", ![t].s = NoSnap, ![t].v = NoView,
                                    ![t].held = {s}]
                /\ UNCHANGED viewMu
           ELSE Use(t, {s}) /\ viewMu' = Nobody
  BY DEF Swap
<1>2. S!FreshSnap(s) /\ S!Clone(old, reinit) = Clone(old, reinit)
  BY <1>1, SameFresh DEF Frame, Clone, S!Clone
<1>3. IF th[t].op = "modify"
      THEN process' = [process EXCEPT ![t].pc = "drop", ![t].s = NoSnap, ![t].v = NoView,
                                      ![t].held = {s}]
      ELSE S!Use(t, {s})
  <2>1. CASE th[t].op = "modify"
    <3>1. /\ th'[t] = [th[t] EXCEPT !.pc = "drop", !.s = NoSnap, !.v = NoView, !.held = {s}]
          /\ \A x \in Thread \ {t} : th'[x] = th[x]
      BY <1>1, <2>1 DEF Frame, IsFun
    <3>2. process' = [process EXCEPT ![t].pc = "drop", ![t].s = NoSnap, ![t].v = NoView,
                                     ![t].held = {s}]
      <4>1. process[t] = th[t] /\ process' = [process EXCEPT ![t] = th'[t]]
        BY <3>1, ThreadKept, ThreadChanged DEF Frame
      <4> QED
        BY <3>1, <4>1
    <3> QED
      BY <2>1, <3>2
  <2> QED
    BY <1>1, <2>1, LiftUse
<1>4. IsFun'
  BY <1>1 DEF Frame, IsFun, Use
<1>5. At(t, "swap") /\ UNCHANGED <<views, viewMap, down, edits, done>> /\ process[t] = th[t]
  BY ThreadKept DEF Swap
<1> QED
  BY <1>1, <1>2, <1>3, <1>4, <1>5 DEF S!Swap, At, S!At

LEMMA DropMap ==
  ASSUME Frame, S!IInv, NEW t \in Thread, Drop(t)
  PROVE  S!Drop(t) /\ IsFun'
<1>1. th' = [th EXCEPT ![t].pc = "inval", ![t].held = {}]
  BY DEF Drop
<1>2. /\ th'[t] = [th[t] EXCEPT !.pc = "inval", !.held = {}]
      /\ IsFun' /\ \A x \in Thread \ {t} : th'[x] = th[x]
  BY <1>1 DEF Frame, IsFun
<1>3. process' = [process EXCEPT ![t].pc = "inval", ![t].held = {}]
  <2>1. process[t] = th[t] /\ process' = [process EXCEPT ![t] = th'[t]]
    BY <1>2, ThreadKept, ThreadChanged DEF Frame
  <2> QED
    BY <1>2, <2>1
<1>4. PICK s \in th[t].held : Decref(s)
  BY DEF Drop
<1> QED
  BY <1>2, <1>3, <1>4, ThreadKept
       DEF Drop, S!Drop, At, S!At, sessionVars, S!sessionVars, Decref, S!Decref

LEMMA EndModifyMap ==
  ASSUME Frame, S!IInv, NEW t \in Thread, EndModify(t)
  PROVE  S!EndModify(t) /\ IsFun'
<1> QED
  BY ThreadKept, LiftReturn DEF EndModify, S!EndModify, At, S!At

LEMMA ToolCallMap ==
  ASSUME Frame, S!IInv, NEW t \in Thread, ToolCall(t)
  PROVE  S!ToolCall(t) /\ IsFun'
<1>1. PICK vs \in SUBSET views :
        /\ vs = views \/ Cardinality(vs) = 1
        /\ th' = [th EXCEPT ![t] = [Idle EXCEPT !.pc = "collect", !.op = "request",
                                                !.todo = vs, !.began = done]]
  BY DEF ToolCall
<1>2. /\ process' = [process EXCEPT ![t] = [S!Idle EXCEPT !.pc = "collect",
              !.op = "request",
                                                          !.todo = vs, !.began = done]]
      /\ IsFun'
  BY <1>1, LiftRecord DEF Idle, S!Idle
<1> QED
  BY <1>1, <1>2, ThreadKept, SameCardinality
       DEF ToolCall, S!ToolCall, At, S!At, sessionVars, S!sessionVars

LEMMA DidModifyFilesMap ==
  ASSUME Frame, S!IInv, NEW t \in Thread, DidModifyFiles(t)
  PROVE  S!DidModifyFiles(t) /\ IsFun'
<1>1. S!Idle = Idle
  BY DEF S!Idle, Idle
<1> QED
  BY <1>1, ThreadKept, LiftRecord DEF DidModifyFiles, S!DidModifyFiles, At, S!At

LEMMA LoadMap ==
  ASSUME NEW v \in View, Load(v), main' = main, first' = first
  PROVE  S!Load(v) /\ th' = th
<1>1. th' = th
  BY DEF Load, LoaderSkip, LoaderBegin, LoaderEnd, LoaderRelease
<1>2. process' = process
  BY <1>1, ThreadsUnchanged
<1> QED
  BY <1>1, <1>2
     DEF Load, LoaderSkip, LoaderBegin, LoaderEnd, LoaderRelease, Decref, sessionVars,
         S!Load, S!LoaderSkip, S!LoaderBegin, S!LoaderEnd, S!LoaderRelease, S!Decref,
         S!sessionVars

-----------------------------------------------------------------------------
(* The invariant of the process, and what main does. *)

Serving == main \notin {"exited", "panicked"}

BInv == /\ IsFun
        /\ main \in MainStates
        /\ main = "boot" => Init
        /\ main # "boot" => first \in Snap
        /\ Serving => S!IInv /\ S!EditInv

LEMMA GoroutinesMap ==
  ASSUME BInv, Goroutines
  PROVE  S!Next /\ IsFun'
<1>1. Frame /\ S!IInv
  BY DEF BInv, Goroutines, Frame, Serving
<1>2. ASSUME NEW t \in Thread, Request(t) PROVE S!Request(t) /\ IsFun'
  BY <1>1, <1>2, FastSnapshotMap, ForgetMap, ListViewsMap, SearchMap, MatchMap,
       LastResortMap,
     CollectMap, ReleaseMap DEF Request, S!Request
<1>3. ASSUME NEW t \in Thread, Initialize(t) PROVE S!Initialize(t) /\ IsFun'
  BY <1>1, <1>3, AwaitInitializedMap, InitBeginMap, InitEndMap DEF Initialize, S!Initialize
<1>4. ASSUME NEW t \in Thread, Edit(t) PROVE S!Edit(t) /\ IsFun'
  BY <1>1, <1>4, CreateNextMap, RetireMap, CommitMap, AssociateMap, InvalidateMap, SwapMap,
     DropMap, EndModifyMap DEF Edit, S!Edit
<1>5. ASSUME NEW t \in Thread, UseLoaded(t) PROVE S!UseLoaded(t) /\ IsFun'
  BY <1>1, <1>5, UseLoadedMap
<1>6. ASSUME NEW t \in Thread, CancelRequest(t) PROVE S!CancelRequest(t) /\ IsFun'
  BY <1>1, <1>6, CancelRequestMap
<1>7. ASSUME NEW v \in View, Load(v) PROVE S!Load(v) /\ IsFun'
  BY <1>1, <1>7, LoadMap DEF Frame, IsFun
<1> QED
  BY <1>2, <1>3, <1>4, <1>5, <1>6, <1>7 DEF Goroutines, S!Next

LEMMA ServeMap ==
  ASSUME BInv, Serve
  PROVE  S!Next /\ IsFun'
<1>1. Frame /\ S!IInv
  BY DEF BInv, Serve, Frame, Serving
<1>2. ASSUME NEW t \in Thread, ToolCall(t) PROVE S!Begin(t) /\ IsFun'
  BY <1>1, <1>2, ToolCallMap DEF S!Begin
<1>3. ASSUME DidModifyFiles(Watcher) PROVE S!Begin(Watcher) /\ IsFun'
  BY <1>1, <1>3, DidModifyFilesMap, BridgeAssumption DEF S!Begin
<1> QED
  BY <1>2, <1>3, BridgeAssumption DEF Serve, S!Next

\* Main makes the view of the working directory: Session.NewView.
LEMMA BootMap ==
  ASSUME BInv, NEW d \in Def, Boot(d)
  PROVE  S!Next /\ IsFun' /\ first' \in Snap
<1>1. /\ main = "boot" /\ main' = "booted" /\ Init /\ S!IInv /\ Main \in Thread \union {Main}
      /\ th' = th
  BY DEF BInv, Boot, Serving
<1>2. PICK v \in View, s \in Snap :
        /\ CreateView(v, s, d, 1) /\ views' = {v} /\ first' = s
        /\ viewMap' = [viewMap EXCEPT ![FolderOf[d]] = v]
  BY DEF Boot
<1>3. S!CreateView(v, s, d, 1)
  BY <1>1, <1>2, CreateViewMap
<1>4. process[Main] = Idle
  BY <1>1 DEF process, MainThread
<1>5. process' = [process EXCEPT ![Main] = [S!Idle EXCEPT !.pc = "using", !.op = "request",
                                                          !.held = {s}, !.began = done]]
  <2>1. /\ process = [x \in Thread \union {Main} |-> IF x = Main THEN Idle ELSE th[x]]
        /\ process' = [x \in Thread \union {Main} |->
              IF x = Main THEN [Idle EXCEPT !.pc = "using", !.op = "request", !.held = {s}]
                          ELSE th[x]]
    BY <1>1, <1>2 DEF process, MainThread, Idle
  <2>2. [S!Idle EXCEPT !.pc = "using", !.op = "request", !.held = {s}, !.began = done]
          = [Idle EXCEPT !.pc = "using", !.op = "request", !.held = {s}]
    <3>1. done = 0
      BY <1>1 DEF Init
    <3>2. S!Idle = Idle
      BY DEF S!Idle, Idle
    <3>3. /\ Idle.began = 0 /\ "began" \in DOMAIN Idle
          /\ Idle = [f \in DOMAIN Idle |-> Idle[f]]
      BY DEF Idle
    <3> QED
      BY <3>1, <3>2, <3>3
  <2> QED
    BY <2>1, <2>2
<1>6. S!NewView(Main, d)
  <2>1. views = {} /\ viewMu = Nobody /\ ~down
    BY <1>1 DEF Init
  <2>2. S!At(Main, "idle")
    BY <1>4 DEF S!At, Idle
  <2>3. UNCHANGED <<viewMu, down, edits, done>>
    BY DEF Boot
  <2> QED
    BY <1>2, <1>3, <1>5, <2>1, <2>2, <2>3 DEF S!NewView
<1> QED
  BY <1>1, <1>2, <1>6 DEF S!Next, S!Begin, BInv, IsFun

\* Main gives back the snapshot it got.
LEMMA ReleaseFirstMap ==
  ASSUME BInv, ReleaseFirst
  PROVE  S!Next /\ IsFun' /\ first' = first
<1>1. /\ main = "booted" /\ main' = "serve" /\ first' = first /\ th' = th
      /\ UNCHANGED <<sessionVars, view>> /\ Decref(first)
  BY DEF ReleaseFirst
<1>2. process[Main] = [Idle EXCEPT !.pc = "using", !.op = "request", !.held = {first}]
  BY <1>1 DEF process, MainThread
<1>3. process' = [process EXCEPT ![Main] = S!Idle]
  <2>1. /\ process = [x \in Thread \union {Main} |-> IF x = Main THEN MainThread ELSE th[x]]
        /\ process' = [x \in Thread \union {Main} |-> IF x = Main THEN Idle ELSE th[x]]
    BY <1>1 DEF process, MainThread, Idle
  <2> QED
    BY <2>1 DEF S!Idle, Idle
<1>4. S!Decref(first)
  BY <1>1 DEF Decref, S!Decref
<1>5. S!Release(Main)
  BY <1>1, <1>2, <1>3, <1>4 DEF S!Release, S!At, S!Return, Idle, S!sessionVars, sessionVars
<1> QED
  BY <1>1, <1>5 DEF S!Next, S!Request, BInv, IsFun

LEMMA ExitMap ==
  ASSUME BInv, Exit
  PROVE  UNCHANGED S!vars /\ IsFun' /\ first' = first
<1>1. main = "serve" /\ main' = "exit" /\ UNCHANGED <<vars, first>>
  BY DEF Exit
<1>2. process' = process
  BY <1>1 DEF process, MainThread, Idle, vars
<1> QED
  BY <1>1, <1>2 DEF vars, sessionVars, S!vars, S!sessionVars, BInv, IsFun

\* Every step but the deferred release is a step of the session with main as one more
\* goroutine.
LEMMA StepMap ==
  ASSUME BInv, [BridgeNext]_bridgeVars, ~DeferredRelease
  PROVE  [S!Next]_(S!vars) /\ IsFun'
<1>1. CASE UNCHANGED bridgeVars
  <2>1. main' = main /\ first' = first /\ th' = th /\ UNCHANGED <<sessionVars, wg, view,
                snap>>
    BY <1>1 DEF bridgeVars, vars
  <2>2. process' = process
    BY <2>1, ThreadsUnchanged
  <2> QED
    BY <2>1, <2>2 DEF S!vars, S!sessionVars, sessionVars, BInv, IsFun
<1>2. CASE BridgeNext
  BY <1>2, GoroutinesMap, ServeMap, BootMap, ReleaseFirstMap, ExitMap DEF BridgeNext
<1> QED
  BY <1>1, <1>2

LEMMA InitBInv == BridgeInit => BInv /\ S!Init
<1> SUFFICES ASSUME BridgeInit PROVE BInv /\ S!Init
  OBVIOUS
<1>1. process = [t \in Thread \union {Main} |-> Idle] /\ IsFun
  BY MainIsNew DEF BridgeInit, Init, process, MainThread, IsFun
<1>2. S!Init
  BY <1>1
       DEF BridgeInit, Init, S!Init, S!Idle, Idle, S!NewView0, NewView0, S!NewSnap0,
       NewSnap0, URI, S!URI
<1>3. S!IInv /\ S!EditInv
  BY <1>2, SessionAssumed, S!InitIInv, S!InitEditInv
<1> QED
  BY <1>1, <1>2, <1>3 DEF BridgeInit, BInv, MainStates

LEMMA NextBInv == BInv /\ [BridgeNext]_bridgeVars => BInv'
<1> SUFFICES ASSUME BInv, [BridgeNext]_bridgeVars PROVE BInv'
  OBVIOUS
<1>1. CASE DeferredRelease
  BY <1>1 DEF DeferredRelease, BInv, Serving, MainStates, IsFun
<1>2. CASE ~DeferredRelease
  <2>1. [S!Next]_(S!vars) /\ IsFun'
    BY <1>2, StepMap
  <2>2. /\ main' \in MainStates
        /\ (main' = "boot" => Init') /\ (main' # "boot" => first' \in Snap)
        /\ (Serving' => Serving)
    <3>1. CASE UNCHANGED bridgeVars
      BY <3>1 DEF bridgeVars, vars, sessionVars, BInv, Init, Serving
    <3>2. ASSUME NEW d \in Def,
                  Boot(d) PROVE main = "boot" /\ main' = "booted" /\ first' \in Snap
      BY <3>2, BootMap DEF Boot
    <3>3. CASE BridgeNext
      BY <1>2, <3>2, <3>3
           DEF BridgeNext, ReleaseFirst, Serve, Exit, Goroutines, BInv, MainStates, Serving
    <3> QED
      BY <3>1, <3>3
  <2>3. ASSUME Serving' PROVE S!IInv' /\ S!EditInv'
    BY <2>1, <2>2, <2>3, SessionAssumed, S!NextStep, S!NextEdit DEF BInv
  <2> QED
    BY <2>1, <2>2, <2>3 DEF BInv
<1> QED
  BY <1>1, <1>2

\* Until the deferred release, the invariants of Session hold of the process and of
\* the reference main holds (execute.go:188-197).
THEOREM BridgeInvariance == BridgeSpec => []BInv
  BY InitBInv, NextBInv, PTL DEF BridgeSpec

\* Every step of the process but the deferred release is a step of Session, main's
\* goroutine included: the process implements Session while it serves
\* (execute.go:160-280).
THEOREM ServesAsSession ==
  BridgeSpec => S!Init /\ [][DeferredRelease \/ [S!Next]_(S!vars)]_bridgeVars
<1>1. BInv /\ [BridgeNext]_bridgeVars => [DeferredRelease \/ [S!Next]_(S!vars)]_bridgeVars
  BY StepMap
<1> QED
  BY <1>1, InitBInv, BridgeInvariance, PTL DEF BridgeSpec

\* While the process serves, a snapshot's count is exact: main's reference to the first
\* one is released once (execute.go:193-197).
THEOREM ServingReferencesExact == BridgeSpec => []ServingRefsExact
<1>1. BInv => ServingRefsExact
  <2> SUFFICES ASSUME BInv, main \in {"booted", "serve", "exit"}, NEW s \in Snap
               PROVE  snap[s].refs = Cardinality(Users(s)) + ViewRef(s) + LoaderRef(s) + MainRef(s)
    BY DEF ServingRefsExact
  <2>1. snap[s].refs = Cardinality(S!Users(s)) + ViewRef(s) + LoaderRef(s)
    BY SameCardinality
         DEF BInv, Serving, S!IInv, S!RefsExact, S!ViewRef, S!LoaderRef, ViewRef, LoaderRef
  <2>2. IsFiniteSet(Users(s)) /\ Main \notin Users(s)
    BY SessionAssumption, FS_Subset, MainIsNew DEF Users
  <2>3. Cardinality(Users(s)) \in Nat
    BY <2>2, FS_CardinalityType
  <2>4. S!Users(s) = IF main = "booted" /\ s = first THEN Users(s) \union {Main} ELSE Users(s)
    BY ThreadKept, MainIsNew DEF S!Users, Users, process, MainThread, Idle
  <2>5. Cardinality(S!Users(s)) = Cardinality(Users(s)) + MainRef(s)
    BY <2>2, <2>3, <2>4, FS_AddElement DEF MainRef
  <2> QED
    BY <2>1, <2>3, <2>5 DEF ViewRef, LoaderRef, MainRef
<1> QED
  BY <1>1, BridgeInvariance, PTL

\* A tool call works on snapshots that have seen every edit the watcher had reported
\* when the call began (session.go:784-953, handlers.go:108).
THEOREM ToolCallsSeeEdits == BridgeSpec => [](Serving => RequestsSeeEdits)
<1>1. BInv => (Serving => RequestsSeeEdits)
  <2> SUFFICES ASSUME BInv, Serving, NEW t \in Thread, At(t, "using")
               PROVE  \A s \in th[t].held : snap[s].edit >= th[t].began
    BY DEF RequestsSeeEdits
  <2>1. process[t].pc = "using" /\ process[t] = th[t] /\ t \in Thread \union {Main}
    BY ThreadKept DEF At
  <2>2. S!RequestsSeeEdits
    BY SessionAssumed, S!SeenByRequests DEF BInv
  <2> QED
    BY <2>1, <2>2 DEF S!RequestsSeeEdits, S!At
<1> QED
  BY <1>1, BridgeInvariance, PTL
=============================================================================
