---------------------------- MODULE MemoizeProofs ----------------------------
(***************************************************************************)
(* What Memoize promises, for any goroutines, keys, promises, runs and     *)
(* values.  The invariant adds to the properties what the store, a waiter  *)
(* and a run may count on: a key has a promise of its own, a caller is     *)
(* woken by nothing but completion, what a run is about to publish is a    *)
(* value, and how many references to its argument a goroutine's call and   *)
(* the runs it started have.                                               *)
(***************************************************************************)
EXTENDS Memoize, FiniteSetTheorems, TLAPS

\* A goroutine outside idle has a promise for its key.
Calls == \A g \in Goroutine : /\ At(g, "idle") <=> get[g].p = NoPromise
                              /\ ~At(g, "idle") => get[g].key \in Key
                              /\ At(g, "idle") => get[g].key = NoKey

Injective == \A k, l \in Key : promises[k] # NoPromise /\ promises[k] = promises[l] => k = l

\* The waiters of a promise: none if it is idle, and never more than it counts.
Waiters(p) == /\ Cardinality(Waiting(p)) <= prom[p].waiters
              /\ prom[p].state = "idle" => prom[p].waiters = 0 /\ Waiting(p) = {}

\* The run of a promise that is running, as RunningWhileAwaited says.
Running(p) == prom[p].state = "running" =>
    /\ prom[p].cur \in Run
    /\ prom[p].waiters = Cardinality(Waiting(p)) /\ Waiting(p) # {}
    /\ ~run[prom[p].cur].cancelled /\ ~run[prom[p].cur].closed
    /\ run[prom[p].cur].of = p /\ run[prom[p].cur].pc # "none"
    /\ \A g \in Waiting(p) : get[g].done = prom[p].cur

Awaited == \A p \in Promise : Waiters(p) /\ Running(p)

\* A completed promise has a value, and a caller was woken by completion.
Completed ==
    /\ \A p \in Promise : prom[p].state = "completed" => prom[p].value \in Value
    /\ \A g \in Goroutine : At(g, "woken") => prom[get[g].p].state = "completed"
    /\ \A g \in Goroutine : At(g, "return") /\ get[g].ret # Cancelled =>
          /\ prom[get[g].p].state = "completed"
          /\ get[g].ret = prom[get[g].p].value

\* What a run works on, and that it publishes only values.
RunOf(r) == /\ run[r].pc = "none" => run[r].of = NoPromise /\ run[r].arg = NoRun
            /\ run[r].pc # "none" => run[r].of \in Promise /\ run[r].arg \in Goroutine
            /\ run[r].pc = "check" => run[r].value \in Value \/ run[r].cancelled
            /\ run[r].pc = "publish" => run[r].value \in Value
RunsWork == \A r \in Run : RunOf(r)

\* A goroutine has one reference to its argument while it is in Get, and its runs have
\* one each.
Passed(g) == {r \in Run : run[r].arg = g}
InGet(g) == IF get[g].pc \in {"wait", "woken", "leave", "return"} THEN 1 ELSE 0
Counted(g) == /\ IsFiniteSet(Passed(g))
              /\ arg[g] = InGet(g) + Cardinality(Passed(g))
ArgsCounted == \A g \in Goroutine : Counted(g)

IInv == /\ TypeOK /\ Calls /\ Injective /\ SharedWhileHeld
        /\ Awaited /\ Completed /\ RunsWork /\ ArgsCounted

-----------------------------------------------------------------------------
\* The holders of a promise, and those who wait for it, are finitely many.
LEMMA HoldersFinite ==
    ASSUME NEW p
    PROVE  /\ IsFiniteSet(Holders(p)) /\ Cardinality(Holders(p)) \in Nat
           /\ IsFiniteSet(Waiting(p)) /\ Cardinality(Waiting(p)) \in Nat
<1>1. Holders(p) \subseteq Goroutine /\ Waiting(p) \subseteq Goroutine
  BY DEF Holders, Waiting
<1>2. IsFiniteSet(Holders(p)) /\ IsFiniteSet(Waiting(p))
  BY <1>1, MemoizeAssumption, FS_Subset
<1> QED BY <1>2, FS_CardinalityType

LEMMA InitIInv == Init => IInv
<1> SUFFICES ASSUME Init  PROVE IInv
  OBVIOUS
<1>1. TypeOK
  BY MemoizeAssumption DEF Init, TypeOK, Promises, Runs, Gets, NewPromise, NoRunning, Idle
<1>2. Calls /\ Injective /\ Completed /\ RunsWork
  BY DEF Init, Calls, Injective, Completed, RunsWork, RunOf, At, NewPromise, NoRunning, Idle
<1>3. \A p \in Promise : Holders(p) = {} /\ Waiting(p) = {}
  BY MemoizeAssumption DEF Init, Holders, Waiting, Idle
<1>4. SharedWhileHeld /\ Awaited
  <2>1. \A p \in Promise : /\ Cardinality(Holders(p)) = 0 /\ Cardinality(Waiting(p)) = 0
                          /\ prom[p] = NewPromise
    BY <1>3, FS_EmptySet DEF Init
  <2>2. SharedWhileHeld
    BY <2>1 DEF Init, SharedWhileHeld, NewPromise, Idle
  <2>3. Awaited
    BY <2>1, <1>3 DEF Awaited, Waiters, Running, NewPromise
  <2> QED BY <2>2, <2>3
<1>5. \A g \in Goroutine : Passed(g) = {} /\ InGet(g) = 0
  BY MemoizeAssumption DEF Init, Passed, InGet, NoRunning, Idle
<1>6. ArgsCounted
  BY <1>5, FS_EmptySet DEF Init, ArgsCounted, Counted
<1> QED BY <1>1, <1>2, <1>4, <1>6 DEF IInv

-----------------------------------------------------------------------------
(* What a step that leaves part of the state alone preserves.              *)

\* References to promises.
LEMMA SameReferences ==
    ASSUME TypeOK, Calls, Injective, SharedWhileHeld,
           promises' = promises,
           \A p \in Promise : prom'[p].refs = prom[p].refs,
           \A g \in Goroutine : /\ get'[g].p = get[g].p /\ get'[g].key = get[g].key
                                /\ get'[g].pc = "idle" <=> get[g].pc = "idle"
    PROVE  Calls' /\ Injective' /\ SharedWhileHeld'
<1>1. Calls' /\ Injective'
  BY DEF Calls, Injective, At
<1>2. \A p \in Promise : Holders(p)' = Holders(p)
  BY DEF Holders
<1>3. SharedWhileHeld'
  BY <1>2 DEF SharedWhileHeld
<1> QED BY <1>1, <1>3

\* The waiters of a promise.
LEMMA SameWaiters ==
    ASSUME NEW p \in Promise, Waiters(p), Running(p),
           prom'[p].state = prom[p].state, prom'[p].waiters = prom[p].waiters,
           prom'[p].cur = prom[p].cur,
           Waiting(p)' = Waiting(p),
           \A g \in Waiting(p) : get'[g].done = get[g].done,
           prom[p].state = "running" =>
              /\ run'[prom[p].cur].cancelled = run[prom[p].cur].cancelled
              /\ run'[prom[p].cur].closed = run[prom[p].cur].closed
              /\ run'[prom[p].cur].of = run[prom[p].cur].of
              /\ run'[prom[p].cur].pc # "none"
    PROVE  Waiters(p)' /\ Running(p)'
BY DEF Waiters, Running

\* What callers return.
LEMMA SameResults ==
    ASSUME Completed,
           \A p \in Promise : prom'[p].state = "completed" => prom'[p].value \in Value,
           \A g \in Goroutine : get'[g].pc \in {"woken", "return"} =>
              /\ get[g].pc = get'[g].pc /\ get[g].p = get'[g].p /\ get[g].ret = get'[g].ret
              /\ prom[get[g].p].state = "completed" =>
                    /\ prom'[get[g].p].state = "completed"
                    /\ prom'[get[g].p].value = prom[get[g].p].value
    PROVE  Completed'
BY DEF Completed, At

\* References to arguments.
LEMMA SameArgument ==
    ASSUME NEW g \in Goroutine, Counted(g), arg'[g] = arg[g], Passed(g)' = Passed(g),
           InGet(g)' = InGet(g)
    PROVE  Counted(g)'
BY DEF Counted

-----------------------------------------------------------------------------
(* The store.                                                              *)

LEMMA HoldIInv ==
    ASSUME IInv, NEW g \in Goroutine, NEW k \in Key, Hold(g, k)
    PROVE  IInv'
<1> USE DEF IInv
<1> PICK p \in Promise :
        /\ \/ /\ promises[k] = p
              /\ prom' = [prom EXCEPT ![p].refs = @ + 1]
           \/ /\ promises[k] = NoPromise /\ FreshPromise(p)
              /\ prom' = [prom EXCEPT ![p] = [NewPromise EXCEPT !.refs = 1]]
        /\ promises' = [promises EXCEPT ![k] = p]
        /\ get' = [get EXCEPT ![g] = [Idle EXCEPT !.pc = "hold", !.key = k, !.p = p]]
  BY DEF Hold
<1>1. At(g, "idle") /\ run' = run /\ arg' = arg
  BY DEF Hold
<1>2. get[g].p = NoPromise /\ get[g].key = NoKey
  BY <1>1 DEF Calls
<1>3. /\ get'[g].pc = "hold" /\ get'[g].key = k /\ get'[g].p = p
      /\ \A h \in Goroutine \ {g} : get'[h] = get[h]
  BY DEF TypeOK, Idle
<1>4. TypeOK'
  <2>1. [Idle EXCEPT !.pc = "hold", !.key = k, !.p = p] \in Gets
    BY DEF Idle, Gets
  <2>2. get' \in [Goroutine -> Gets]
    BY <2>1 DEF TypeOK
  <2>3. prom' \in [Promise -> Promises]
    <3>1. [NewPromise EXCEPT !.refs = 1] \in Promises
      BY DEF NewPromise, Promises
    <3>2. [prom[p] EXCEPT !.refs = @ + 1] \in Promises
      BY DEF TypeOK, Promises
    <3> QED BY <3>1, <3>2 DEF TypeOK
  <2> QED BY <1>1, <2>2, <2>3 DEF TypeOK
<1>5. /\ \A q \in Promise \ {p} : prom'[q] = prom[q] /\ Holders(q)' = Holders(q)
      /\ Holders(p)' = Holders(p) \union {g} /\ g \notin Holders(p)
  BY <1>2, <1>3, MemoizeAssumption DEF TypeOK, Holders
<1>6. \A q \in Promise : Waiting(q)' = Waiting(q)
  BY <1>1, <1>3 DEF Waiting, Holders, At
<1>7. RunsWork'
  BY <1>1 DEF RunsWork, RunOf
<1>8. ArgsCounted'
  <2>1. \A h \in Goroutine : Passed(h)' = Passed(h) /\ InGet(h)' = InGet(h)
    BY <1>1, <1>3 DEF Passed, InGet, At
  <2> QED BY <1>1, <2>1, SameArgument DEF ArgsCounted
<1>9. CASE promises[k] = NoPromise /\ FreshPromise(p)
  <2>1. prom'[p] = [NewPromise EXCEPT !.refs = 1]
    BY <1>9, MemoizeAssumption DEF TypeOK
  <2>2. /\ Holders(p) = {} /\ Waiting(p) = {} /\ \A l \in Key : promises[l] # p
        /\ \A r \in Run : run[r].of # p
    BY <1>9 DEF FreshPromise, Holders, Waiting
  <2>3. Calls' /\ Injective'
    BY <1>3, <2>2, MemoizeAssumption DEF Calls, Injective, At, TypeOK
  <2>4. SharedWhileHeld'
    <3>1. Cardinality(Holders(p)') = 1 /\ prom'[p].refs = 1
      <4>1. Holders(p)' = {g}
        BY <1>5, <2>2
      <4> QED BY <2>1, <4>1, FS_Singleton DEF NewPromise
    <3>2. \A q \in Promise : prom'[q].refs = Cardinality(Holders(q)')
      BY <1>5, <3>1 DEF SharedWhileHeld
    <3>3. \A h \in Goroutine : get'[h].p # NoPromise => promises'[get'[h].key] = get'[h].p
      BY <1>3, <1>9, <2>2 DEF SharedWhileHeld, TypeOK, Calls, At
    <3>4. \A l \in Key : ~neverEvict /\ promises'[l] # NoPromise =>
             \E h \in Goroutine : get'[h].key = l
      BY <1>2, <1>3, MemoizeAssumption DEF SharedWhileHeld, TypeOK
    <3> QED BY <3>2, <3>3, <3>4 DEF SharedWhileHeld
  <2>5. Awaited'
    <3>1. Waiters(p)' /\ Running(p)'
      <4>1. Waiting(p)' = {} /\ Cardinality(Waiting(p)') = 0
        BY <1>6, <2>2, FS_EmptySet
      <4> QED BY <2>1, <4>1 DEF Waiters, Running, NewPromise
    <3>2. ASSUME NEW q \in Promise \ {p}  PROVE Waiters(q)' /\ Running(q)'
      <4>1. \A h \in Waiting(q) : get'[h].done = get[h].done
        BY <1>1, <1>3 DEF Waiting, Holders, At
      <4>2. prom[q].state = "running" => run[prom[q].cur].pc # "none"
        BY DEF Awaited, Running
      <4> QED BY <1>1, <1>5, <1>6, <4>1, <4>2, SameWaiters DEF Awaited
    <3> QED BY <3>1, <3>2 DEF Awaited
  <2>6. Completed'
    <3>1. \A q \in Promise : prom'[q].state = "completed" => prom'[q].value \in Value
      BY <1>5, <2>1 DEF Completed, NewPromise
    <3>2. \A h \in Goroutine \ {g} : get[h].p # p
      BY <2>2 DEF Holders
    <3>3. \A h \in Goroutine \ {g} : ~At(h, "idle") => get[h].p \in Promise
      BY DEF TypeOK, Gets, Calls
    <3>4. \A h \in Goroutine : get'[h].pc \in {"woken", "return"} =>
             h # g /\ get'[h] = get[h] /\ prom'[get[h].p] = prom[get[h].p]
      BY <1>3, <1>5, <3>2, <3>3 DEF At
    <3> QED BY <3>1, <3>4, SameResults
  <2> QED BY <1>4, <1>7, <1>8, <2>3, <2>4, <2>5, <2>6
<1>10. CASE promises[k] = p /\ prom' = [prom EXCEPT ![p].refs = @ + 1]
  <2>1. /\ prom'[p].refs = prom[p].refs + 1
        /\ \A q \in Promise : /\ prom'[q].state = prom[q].state
                              /\ prom'[q].waiters = prom[q].waiters
                              /\ prom'[q].cur = prom[q].cur
                              /\ prom'[q].value = prom[q].value
    BY <1>10 DEF TypeOK, Promises
  <2>2. promises' = promises
    BY <1>10 DEF TypeOK
  <2>3. Calls' /\ Injective'
    BY <1>3, <2>2, MemoizeAssumption DEF Calls, Injective, At
  <2>4. SharedWhileHeld'
    <3>1. prom'[p].refs = Cardinality(Holders(p)')
      <4>1. Cardinality(Holders(p) \union {g}) = Cardinality(Holders(p)) + 1
        BY <1>5, HoldersFinite, FS_AddElement
      <4> QED BY <1>5, <2>1, <4>1 DEF SharedWhileHeld
    <3>2. \A q \in Promise : prom'[q].refs = Cardinality(Holders(q)')
      BY <1>5, <3>1 DEF SharedWhileHeld
    <3>3. \A h \in Goroutine : get'[h].p # NoPromise => promises'[get'[h].key] = get'[h].p
      BY <1>3, <1>10, <2>2 DEF SharedWhileHeld
    <3>4. \A l \in Key : ~neverEvict /\ promises'[l] # NoPromise =>
             \E h \in Goroutine : get'[h].key = l
      BY <1>2, <1>3, <2>2, MemoizeAssumption DEF SharedWhileHeld
    <3> QED BY <3>2, <3>3, <3>4 DEF SharedWhileHeld
  <2>5. Awaited'
    <3> SUFFICES ASSUME NEW q \in Promise  PROVE Waiters(q)' /\ Running(q)'
      BY DEF Awaited
    <3>1. \A h \in Waiting(q) : get'[h].done = get[h].done
      BY <1>1, <1>3 DEF Waiting, Holders, At
    <3>2. prom[q].state = "running" => run[prom[q].cur].pc # "none"
      BY DEF Awaited, Running
    <3> QED BY <1>1, <1>6, <2>1, <3>1, <3>2, SameWaiters DEF Awaited
  <2>6. Completed'
    <3>1. \A q \in Promise : prom'[q].state = "completed" => prom'[q].value \in Value
      BY <2>1 DEF Completed
    <3>2. \A h \in Goroutine : ~At(h, "idle") => get[h].p \in Promise
      BY DEF TypeOK, Gets, Calls
    <3>3. \A h \in Goroutine : get'[h].pc \in {"woken", "return"} =>
             h # g /\ get'[h] = get[h] /\ ~At(h, "idle")
      BY <1>3 DEF At
    <3> QED BY <2>1, <3>1, <3>2, <3>3, SameResults
  <2> QED BY <1>4, <1>7, <1>8, <2>3, <2>4, <2>5, <2>6
<1> QED BY <1>9, <1>10

LEMMA ReleaseIInv ==
    ASSUME IInv, NEW g \in Goroutine, Release(g)
    PROVE  IInv'
<1> USE DEF IInv
<1> PICK p \in Promise, k \in Key : p = get[g].p /\ k = get[g].key /\ promises[k] = p
  BY DEF Release, Calls, At, TypeOK, Gets, SharedWhileHeld
<1>1. /\ At(g, "hold") /\ run' = run /\ arg' = arg
      /\ prom' = [prom EXCEPT ![p].refs = @ - 1]
      /\ get' = [get EXCEPT ![g] = Idle]
      /\ promises' = IF prom[p].refs = 1 /\ ~neverEvict
                     THEN [promises EXCEPT ![k] = NoPromise] ELSE promises
  BY DEF Release
<1>2. p \in Promise /\ k \in Key /\ promises[k] = p
  OBVIOUS
<1>3. get'[g] = Idle /\ \A h \in Goroutine \ {g} : get'[h] = get[h]
  BY <1>1 DEF TypeOK
<1>4. /\ \A q \in Promise \ {p} : prom'[q] = prom[q] /\ Holders(q)' = Holders(q)
      /\ Holders(p)' = Holders(p) \ {g} /\ g \in Holders(p)
  BY <1>1, <1>2, <1>3, MemoizeAssumption DEF TypeOK, Holders, Idle
<1>5. /\ prom[p].refs = Cardinality(Holders(p)) /\ prom[p].refs \in Nat \ {0}
      /\ Cardinality(Holders(p)') = prom[p].refs - 1
  <2>1. prom[p].refs = Cardinality(Holders(p))
    BY <1>2 DEF SharedWhileHeld
  <2>2. Cardinality(Holders(p) \ {g}) = Cardinality(Holders(p)) - 1
    BY <1>4, HoldersFinite, FS_RemoveElement
  <2>3. Cardinality(Holders(p)) # 0
    BY <1>4, HoldersFinite, FS_EmptySet
  <2> QED BY <1>4, <2>1, <2>2, <2>3, HoldersFinite
<1>6. /\ prom'[p].refs = prom[p].refs - 1
      /\ \A q \in Promise : /\ prom'[q].state = prom[q].state
                            /\ prom'[q].waiters = prom[q].waiters
                            /\ prom'[q].cur = prom[q].cur
                            /\ prom'[q].value = prom[q].value
  BY <1>1, <1>2 DEF TypeOK, Promises
<1>7. TypeOK'
  <2>1. [prom[p] EXCEPT !.refs = @ - 1] \in Promises
    BY <1>2, <1>5 DEF TypeOK, Promises
  <2>2. prom' \in [Promise -> Promises]
    BY <1>1, <2>1 DEF TypeOK
  <2>3. Idle \in Gets
    BY DEF Idle, Gets
  <2> QED BY <1>1, <1>2, <2>2, <2>3 DEF TypeOK
<1>8. Calls'
  BY <1>3, MemoizeAssumption DEF Calls, At, Idle
<1>9. SharedWhileHeld' /\ Injective'
  <2>1. \A q \in Promise : prom'[q].refs = Cardinality(Holders(q)')
    BY <1>4, <1>5, <1>6 DEF SharedWhileHeld
  <2>2. CASE prom[p].refs = 1 /\ ~neverEvict
    <3>1. promises' = [promises EXCEPT ![k] = NoPromise]
      BY <1>1, <2>2
    <3>2. Holders(p)' = {}
      BY <1>4, <1>5, <2>2, HoldersFinite, FS_EmptySet, FS_RemoveElement
    <3>3. \A h \in Goroutine \ {g} : get[h].p # p
      BY <1>3, <3>2 DEF Holders
    <3>4. \A h \in Goroutine \ {g} : get[h].p # NoPromise => get[h].key \in Key \ {k}
      BY <1>2, <3>3 DEF SharedWhileHeld, Calls, At
    <3>5. \A h \in Goroutine : get'[h].p # NoPromise => promises'[get'[h].key] = get'[h].p
      BY <1>3, <3>1, <3>4 DEF SharedWhileHeld, TypeOK, Idle
    <3>6. \A l \in Key : ~neverEvict /\ promises'[l] # NoPromise =>
             \E h \in Goroutine : get'[h].key = l
      BY <1>3, <3>1 DEF SharedWhileHeld, TypeOK
    <3>7. Injective'
      BY <3>1 DEF Injective, TypeOK
    <3> QED BY <2>1, <3>5, <3>6, <3>7 DEF SharedWhileHeld
  <2>3. CASE ~(prom[p].refs = 1 /\ ~neverEvict)
    <3>1. promises' = promises
      BY <1>1, <2>3
    <3>2. \A h \in Goroutine : get'[h].p # NoPromise => promises'[get'[h].key] = get'[h].p
      BY <1>3, <3>1 DEF SharedWhileHeld, Idle
    <3>3. ASSUME NEW l \in Key, ~neverEvict, promises'[l] # NoPromise
          PROVE  \E h \in Goroutine : get'[h].key = l
      <4>1. CASE l # k
        BY <1>3, <3>1, <3>3, <4>1 DEF SharedWhileHeld
      <4>2. CASE l = k
        <5>1. Cardinality(Holders(p)') # 0
          BY <1>5, <2>3, <3>3
        <5>2. Holders(p)' # {}
          BY <5>1, FS_EmptySet
        <5>3. PICK h \in Goroutine \ {g} : get[h].p = p
          BY <1>4, <5>2 DEF Holders
        <5>4. get[h].key \in Key /\ promises[get[h].key] = promises[k]
          BY <1>2, <5>3, MemoizeAssumption DEF SharedWhileHeld, Calls
        <5> QED BY <1>2, <1>3, <4>2, <5>4, MemoizeAssumption DEF Injective
      <4> QED BY <4>1, <4>2
    <3>4. Injective'
      BY <3>1 DEF Injective
    <3> QED BY <2>1, <3>2, <3>3, <3>4 DEF SharedWhileHeld
  <2> QED BY <2>2, <2>3
<1>10. Awaited'
  <2> SUFFICES ASSUME NEW q \in Promise  PROVE Waiters(q)' /\ Running(q)'
    BY DEF Awaited
  <2>1. Waiting(q)' = Waiting(q) /\ \A h \in Waiting(q) : get'[h].done = get[h].done
    BY <1>1, <1>3 DEF Waiting, Holders, At, Idle
  <2>2. prom[q].state = "running" => run[prom[q].cur].pc # "none"
    BY DEF Awaited, Running
  <2> QED BY <1>1, <1>6, <2>1, <2>2, SameWaiters DEF Awaited
<1>11. Completed'
  <2>1. \A q \in Promise : prom'[q].state = "completed" => prom'[q].value \in Value
    BY <1>6 DEF Completed
  <2>2. \A h \in Goroutine : ~At(h, "idle") => get[h].p \in Promise
    BY DEF TypeOK, Gets, Calls
  <2>3. \A h \in Goroutine : get'[h].pc \in {"woken", "return"} =>
           h # g /\ get'[h] = get[h] /\ ~At(h, "idle")
    BY <1>3 DEF At, Idle
  <2> QED BY <1>6, <2>1, <2>2, <2>3, SameResults
<1>12. RunsWork'
  BY <1>1 DEF RunsWork, RunOf
<1>13. ArgsCounted'
  <2>1. \A h \in Goroutine : Passed(h)' = Passed(h) /\ InGet(h)' = InGet(h)
    BY <1>1, <1>3 DEF Passed, InGet, At, Idle
  <2> QED BY <1>1, <2>1, SameArgument DEF ArgsCounted
<1> QED BY <1>7, <1>8, <1>9, <1>10, <1>11, <1>12, <1>13

-----------------------------------------------------------------------------
(* Get.                                                                    *)

\* A caller moves on, and nothing but its references to its argument changes with it.
LEMMA CallerMoves ==
    ASSUME IInv, NEW g \in Goroutine, NEW x \in Gets,
           promises' = promises, prom' = prom, run' = run,
           get' = [get EXCEPT ![g] = x],
           x.p = get[g].p, x.key = get[g].key, ~At(g, "idle"), x.pc # "idle",
           arg' \in [Goroutine -> Nat], \A h \in Goroutine \ {g} : arg'[h] = arg[h],
           Counted(g)',
           \/ /\ x.pc \in {"wait", "leave"} <=> get[g].pc \in {"wait", "leave"}
              /\ x.pc \in {"wait", "leave"} => x.done = get[g].done
           \/ prom[x.p].state = "completed" /\ x.pc \notin {"wait", "leave"},
           x.pc = "woken" => prom[x.p].state = "completed",
           x.pc = "return" /\ x.ret # Cancelled =>
              prom[x.p].state = "completed" /\ x.ret = prom[x.p].value
    PROVE  IInv'
<1> USE DEF IInv
<1>1. get'[g] = x /\ \A h \in Goroutine \ {g} : get'[h] = get[h]
  BY DEF TypeOK
<1>2. TypeOK'
  BY DEF TypeOK
<1>3. Calls' /\ Injective' /\ SharedWhileHeld'
  <2>1. \A h \in Goroutine : /\ get'[h].p = get[h].p /\ get'[h].key = get[h].key
                             /\ get'[h].pc = "idle" <=> get[h].pc = "idle"
    BY <1>1 DEF At
  <2> QED BY <2>1, SameReferences
<1>4. Awaited'
  <2> SUFFICES ASSUME NEW q \in Promise  PROVE Waiters(q)' /\ Running(q)'
    BY DEF Awaited
  <2>1. prom[q].state = "running" => run[prom[q].cur].pc # "none"
    BY DEF Awaited, Running
  <2>2. CASE Waiting(q)' = Waiting(q) /\ \A h \in Waiting(q) : get'[h].done = get[h].done
    BY <2>1, <2>2, SameWaiters DEF Awaited
  <2>3. CASE q = x.p /\ prom[x.p].state = "completed" /\ x.pc \notin {"wait", "leave"}
    <3>1. Waiting(q)' = Waiting(q) \ {g}
      BY <1>1, <2>3 DEF Waiting, Holders
    <3>2. /\ Cardinality(Waiting(q) \ {g}) <= Cardinality(Waiting(q))
          /\ Cardinality(Waiting(q) \ {g}) \in Nat
      <4>1. IsFiniteSet(Waiting(q)) /\ Waiting(q) \ {g} \in SUBSET Waiting(q)
        BY HoldersFinite
      <4>2. /\ IsFiniteSet(Waiting(q) \ {g})
            /\ Cardinality(Waiting(q) \ {g}) <= Cardinality(Waiting(q))
        BY <4>1, FS_Subset
      <4> QED BY <4>2, FS_CardinalityType
    <3>3. Waiters(q)'
      BY <2>3, <3>1, <3>2, HoldersFinite DEF Awaited, Waiters, TypeOK, Promises
    <3> QED BY <2>3, <3>3 DEF Running
  <2> QED BY <1>1, <2>2, <2>3 DEF Waiting, Holders
<1>5. Completed'
  BY <1>1 DEF Completed, At
<1>6. RunsWork'
  BY DEF RunsWork, RunOf
<1>7. ArgsCounted'
  <2>1. \A h \in Goroutine \ {g} : Passed(h)' = Passed(h) /\ InGet(h)' = InGet(h)
    BY <1>1 DEF Passed, InGet
  <2> QED BY <2>1, SameArgument DEF ArgsCounted
<1> QED BY <1>2, <1>3, <1>4, <1>5, <1>6, <1>7

LEMMA AtOnceIInv ==
    ASSUME IInv, NEW g \in Goroutine, GetCancelled(g) \/ GetCompleted(g)
    PROVE  IInv'
<1> USE DEF IInv
<1> PICK p \in Promise : p = get[g].p
  BY DEF GetCancelled, GetCompleted, At, TypeOK, Gets, Calls
<1> PICK v : /\ get' = [get EXCEPT ![g].pc = "return", ![g].ret = v]
             /\ v = Cancelled \/ (prom[p].state = "completed" /\ v = prom[p].value)
  BY DEF GetCancelled, GetCompleted
<1>1. /\ promises' = promises /\ prom' = prom /\ run' = run
      /\ arg' = [arg EXCEPT ![g] = @ + 1] /\ At(g, "hold")
  BY DEF GetCancelled, GetCompleted
<1> DEFINE x == [get[g] EXCEPT !.pc = "return", !.ret = v]
<1>2. x \in Gets /\ x.pc = "return" /\ x.p = p /\ x.key = get[g].key /\ x.ret = v
  <2>1. v \in Value \union {Cancelled}
    BY DEF Completed
  <2> QED BY <2>1 DEF TypeOK, Gets
<1>3. get' = [get EXCEPT ![g] = x] /\ get'[g].pc = "return"
  BY DEF TypeOK, Gets
<1>4. arg' \in [Goroutine -> Nat] /\ \A h \in Goroutine \ {g} : arg'[h] = arg[h]
  BY <1>1 DEF TypeOK
<1>5. Counted(g)'
  <2>1. Passed(g)' = Passed(g) /\ InGet(g)' = 1 /\ InGet(g) = 0
    BY <1>1, <1>3 DEF Passed, InGet, At
  <2>2. Cardinality(Passed(g)) \in Nat
    BY FS_CardinalityType DEF ArgsCounted, Counted
  <2> QED BY <1>1, <2>1, <2>2 DEF ArgsCounted, Counted, TypeOK
<1> HIDE DEF x
<1> QED BY <1>1, <1>2, <1>3, <1>4, <1>5, CallerMoves DEF At

LEMMA SelectIInv ==
    ASSUME IInv, NEW g \in Goroutine, SelectDone(g) \/ SelectCtx(g) \/ Woken(g)
    PROVE  IInv'
<1> USE DEF IInv
<1> PICK p \in Promise : p = get[g].p
  BY DEF SelectDone, SelectCtx, Woken, At, TypeOK, Gets, Calls
<1>1. promises' = promises /\ prom' = prom /\ run' = run /\ arg' = arg
  BY DEF SelectDone, SelectCtx, Woken
<1>2. get[g].pc \in {"wait", "woken"}
  BY DEF SelectDone, SelectCtx, Woken, At
<1>3. arg' \in [Goroutine -> Nat] /\ \A h \in Goroutine \ {g} : arg'[h] = arg[h]
  BY <1>1 DEF TypeOK
<1>4. get'[g].pc \in {"woken", "leave", "return"} => Counted(g)'
  <2>1. Passed(g)' = Passed(g)
    BY <1>1 DEF Passed
  <2> QED BY <1>1, <1>2, <2>1, SameArgument DEF InGet, ArgsCounted
<1>5. CASE SelectDone(g)
  <2> DEFINE x == [get[g] EXCEPT !.pc = "woken"]
  <2>1. x \in Gets /\ x.pc = "woken" /\ x.p = p /\ x.key = get[g].key
    BY DEF TypeOK, Gets
  <2>2. get' = [get EXCEPT ![g] = x] /\ get'[g].pc = "woken"
    BY <1>5 DEF SelectDone, Goto, TypeOK, Gets
  <2>3. prom[p].state = "completed"
    <3>1. g \in Waiting(p) /\ run[get[g].done].closed
      BY <1>5 DEF SelectDone, At, Waiting, Holders
    <3>2. Waiters(p) /\ Running(p)
      BY DEF Awaited
    <3> QED BY <3>1, <3>2 DEF Waiters, Running, TypeOK, Promises
  <2> HIDE DEF x
  <2> QED BY <1>1, <1>2, <1>3, <1>4, <2>1, <2>2, <2>3, CallerMoves DEF At
<1>6. CASE SelectCtx(g)
  <2> DEFINE x == [get[g] EXCEPT !.pc = "leave"]
  <2>1. x \in Gets /\ x.pc = "leave" /\ x.p = p /\ x.key = get[g].key /\ x.done = get[g].done
    BY DEF TypeOK, Gets
  <2>2. get' = [get EXCEPT ![g] = x] /\ get'[g].pc = "leave" /\ get[g].pc = "wait"
    BY <1>6 DEF SelectCtx, Goto, At, TypeOK, Gets
  <2> HIDE DEF x
  <2> QED BY <1>1, <1>2, <1>3, <1>4, <2>1, <2>2, CallerMoves DEF At
<1>7. CASE Woken(g)
  <2>1. prom[p].state = "completed" /\ prom[p].value \in Value /\ get[g].pc = "woken"
    BY <1>7 DEF Woken, Completed, At
  <2> DEFINE x == [get[g] EXCEPT !.pc = "return", !.done = NoRun, !.ret = prom[p].value]
  <2>2. /\ x \in Gets /\ x.pc = "return" /\ x.p = p /\ x.key = get[g].key
        /\ x.ret = prom[p].value
    BY <2>1 DEF TypeOK, Gets
  <2>3. get' = [get EXCEPT ![g] = x] /\ get'[g].pc = "return"
    BY <1>7, <2>1 DEF Woken, TypeOK, Gets
  <2> HIDE DEF x
  <2> QED BY <1>1, <1>2, <1>3, <1>4, <2>1, <2>2, <2>3, CallerMoves DEF At
<1> QED BY <1>5, <1>6, <1>7

LEMMA ReturnIInv ==
    ASSUME IInv, NEW g \in Goroutine, Return(g)
    PROVE  IInv'
<1> USE DEF IInv
<1>1. /\ promises' = promises /\ prom' = prom /\ run' = run /\ At(g, "return")
      /\ arg' = [arg EXCEPT ![g] = @ - 1]
      /\ get' = [get EXCEPT ![g].pc = "hold", ![g].ret = NoValue]
  BY DEF Return
<1> DEFINE x == [get[g] EXCEPT !.pc = "hold", !.ret = NoValue]
<1>2. x \in Gets /\ x.pc = "hold" /\ x.p = get[g].p /\ x.key = get[g].key
  BY DEF TypeOK, Gets
<1>3. get' = [get EXCEPT ![g] = x] /\ get'[g].pc = "hold"
  BY <1>1 DEF TypeOK, Gets
<1>4. Counted(g)' /\ arg'[g] \in Nat
  <2>1. Passed(g)' = Passed(g) /\ InGet(g)' = 0 /\ InGet(g) = 1
    BY <1>1, <1>3 DEF Passed, InGet, At
  <2>2. Cardinality(Passed(g)) \in Nat
    BY FS_CardinalityType DEF ArgsCounted, Counted
  <2> QED BY <1>1, <2>1, <2>2 DEF ArgsCounted, Counted, TypeOK
<1>5. arg' \in [Goroutine -> Nat] /\ \A h \in Goroutine \ {g} : arg'[h] = arg[h]
  BY <1>1, <1>4 DEF TypeOK
<1> HIDE DEF x
<1> QED BY <1>1, <1>2, <1>3, <1>4, <1>5, CallerMoves DEF At

\* A promise that gets one more waiter, by a run or by joining one.
LEMMA OneMoreWaiter ==
    ASSUME IInv, NEW g \in Goroutine, NEW p \in Promise, p = get[g].p, At(g, "hold"),
           NEW r \in Run,
           get' = [get EXCEPT ![g].pc = "wait", ![g].done = r]
    PROVE  /\ get'[g].pc = "wait" /\ get'[g].done = r
           /\ get'[g].p = p /\ get'[g].key = get[g].key
           /\ \A h \in Goroutine \ {g} : get'[h] = get[h]
           /\ get' \in [Goroutine -> Gets]
           /\ Waiting(p)' = Waiting(p) \union {g}
           /\ Cardinality(Waiting(p)') = Cardinality(Waiting(p)) + 1
           /\ \A q \in Promise \ {p} : Waiting(q)' = Waiting(q)
<1>1. /\ get'[g].pc = "wait" /\ get'[g].done = r
      /\ get'[g].p = p /\ get'[g].key = get[g].key
      /\ \A h \in Goroutine \ {g} : get'[h] = get[h]
  BY DEF IInv, TypeOK, Gets
<1>2. get' \in [Goroutine -> Gets]
  <2>1. [get[g] EXCEPT !.pc = "wait", !.done = r] \in Gets
    BY DEF IInv, TypeOK, Gets
  <2>2. get' = [get EXCEPT ![g] = [get[g] EXCEPT !.pc = "wait", !.done = r]]
    BY DEF IInv, TypeOK, Gets
  <2> QED BY <2>1, <2>2 DEF IInv, TypeOK
<1>3. /\ Waiting(p)' = Waiting(p) \union {g} /\ g \notin Waiting(p)
      /\ \A q \in Promise \ {p} : Waiting(q)' = Waiting(q)
  BY <1>1 DEF Waiting, Holders, At
<1>4. Cardinality(Waiting(p) \union {g}) = Cardinality(Waiting(p)) + 1
  BY <1>3, HoldersFinite, FS_AddElement
<1> QED BY <1>1, <1>2, <1>3, <1>4

LEMMA RunIInv ==
    ASSUME IInv, NEW g \in Goroutine, GetRun(g)
    PROVE  IInv'
<1> USE DEF IInv
<1> PICK p \in Promise : p = get[g].p
  BY DEF GetRun, At, TypeOK, Gets, Calls
<1>0. PICK r \in Run :
        /\ FreshRun(r)
        /\ run' = [run EXCEPT ![r] = [NoRunning EXCEPT !.pc = "start", !.of = p, !.arg = g]]
        /\ prom' = [prom EXCEPT ![p].state = "running", ![p].cur = r, ![p].waiters = @ + 1]
        /\ arg' = [arg EXCEPT ![g] = @ + 2]
        /\ get' = [get EXCEPT ![g].pc = "wait", ![g].done = r]
  BY DEF GetRun, Wait
<1>1. promises' = promises /\ At(g, "hold") /\ prom[p].state = "idle"
  BY DEF GetRun
<1>2. /\ get'[g].pc = "wait" /\ get'[g].done = r
      /\ get'[g].p = p /\ get'[g].key = get[g].key
      /\ \A h \in Goroutine \ {g} : get'[h] = get[h]
      /\ get' \in [Goroutine -> Gets]
      /\ Waiting(p)' = Waiting(p) \union {g}
      /\ Cardinality(Waiting(p)') = Cardinality(Waiting(p)) + 1
      /\ \A q \in Promise \ {p} : Waiting(q)' = Waiting(q)
  BY <1>0, <1>1, OneMoreWaiter
<1>3. /\ prom'[p] = [prom[p] EXCEPT !.state = "running", !.cur = r, !.waiters = @ + 1]
      /\ \A q \in Promise \ {p} : prom'[q] = prom[q]
  BY <1>0 DEF TypeOK, Promises
<1>4. /\ run'[r] = [pc |-> "start", of |-> p, arg |-> g, cancelled |-> FALSE,
                  closed |-> FALSE, value |-> NoValue]
      /\ \A x \in Run \ {r} : run'[x] = run[x]
      /\ run[r].pc = "none" /\ run[r].arg = NoRun /\ \A q \in Promise : prom[q].cur # r
  BY <1>0 DEF TypeOK, FreshRun, RunsWork, RunOf, NoRunning
<1>5. TypeOK'
  <2>1. prom'[p] \in Promises
    BY <1>0, <1>3 DEF TypeOK, Promises
  <2>2. run' \in [Run -> Runs]
    <3>1. [pc |-> "start", of |-> p, arg |-> g, cancelled |-> FALSE,
           closed |-> FALSE, value |-> NoValue] \in Runs
      BY DEF Runs
    <3>2. run'[r] \in Runs
      BY <1>4, <3>1
    <3> QED BY <1>0, <3>2 DEF TypeOK
  <2>3. prom' \in [Promise -> Promises]
    BY <1>0, <2>1 DEF TypeOK
  <2>4. arg' \in [Goroutine -> Nat]
    BY <1>0 DEF TypeOK
  <2> QED BY <1>1, <1>2, <2>2, <2>3, <2>4 DEF TypeOK
<1>6. Calls' /\ Injective' /\ SharedWhileHeld'
  <2>1. \A h \in Goroutine : /\ get'[h].p = get[h].p /\ get'[h].key = get[h].key
                             /\ get'[h].pc = "idle" <=> get[h].pc = "idle"
    BY <1>1, <1>2 DEF At
  <2>2. \A q \in Promise : prom'[q].refs = prom[q].refs
    BY <1>0, <1>3 DEF TypeOK, Promises
  <2> QED BY <1>1, <2>1, <2>2, SameReferences
<1>7. Awaited'
  <2>1. Waiters(p)' /\ Running(p)'
    <3>1. Waiting(p) = {} /\ prom[p].waiters = 0 /\ Cardinality(Waiting(p)) = 0
      BY <1>1, FS_EmptySet DEF Awaited, Waiters
    <3>2. /\ prom'[p].state = "running" /\ prom'[p].cur = r /\ prom'[p].waiters = 1
          /\ Cardinality(Waiting(p)') = 1 /\ Waiting(p)' = {g}
      BY <1>2, <1>3, <3>1 DEF TypeOK, Promises
    <3>3. run'[r].of = p /\ run'[r].pc = "start"
      BY <1>4
    <3>4. ~run'[r].cancelled /\ ~run'[r].closed
      <4>1. run'[r] = [pc |-> "start", of |-> p, arg |-> g, cancelled |-> FALSE,
                       closed |-> FALSE, value |-> NoValue]
        BY <1>4
      <4>2. run'[r].cancelled = FALSE /\ run'[r].closed = FALSE
        BY <4>1
      <4> QED BY <4>2
    <3> QED BY <1>2, <3>2, <3>3, <3>4 DEF Waiters, Running
  <2>2. ASSUME NEW q \in Promise \ {p}  PROVE Waiters(q)' /\ Running(q)'
    <3>1. \A h \in Waiting(q) : get'[h].done = get[h].done
      BY <1>2 DEF Waiting, Holders
    <3>2. prom[q].state = "running" => /\ run[prom[q].cur].pc # "none"
                                       /\ run'[prom[q].cur] = run[prom[q].cur]
      BY <1>4 DEF Awaited, Running
    <3> QED BY <1>2, <1>3, <3>1, <3>2, SameWaiters DEF Awaited
  <2> QED BY <2>1, <2>2 DEF Awaited
<1>8. Completed'
  <2>1. \A q \in Promise : prom'[q].state = "completed" => prom'[q] = prom[q]
    BY <1>0, <1>3 DEF TypeOK, Promises
  <2>2. \A h \in Goroutine : ~At(h, "idle") => get[h].p \in Promise
    BY DEF TypeOK, Gets, Calls
  <2>3. \A h \in Goroutine : get'[h].pc \in {"woken", "return"} =>
           h # g /\ get'[h] = get[h] /\ ~At(h, "idle")
    BY <1>2 DEF At
  <2>4. \A q \in Promise : prom[q].state = "completed" => prom'[q] = prom[q]
    BY <1>1, <1>3
  <2> QED BY <2>1, <2>2, <2>3, <2>4, SameResults DEF Completed
<1>9. RunsWork'
  <2>1. RunOf(r)'
    BY <1>4 DEF RunOf
  <2> QED BY <1>4, <2>1 DEF RunsWork, RunOf
<1>10. ArgsCounted'
  <2>1. ASSUME NEW h \in Goroutine \ {g}  PROVE Counted(h)'
    <3>1. Passed(h)' = Passed(h)
      BY <1>4, MemoizeAssumption DEF Passed
    <3>2. InGet(h)' = InGet(h) /\ arg'[h] = arg[h]
      BY <1>0, <1>2 DEF InGet, TypeOK
    <3> QED BY <3>1, <3>2, SameArgument DEF ArgsCounted
  <2>2. Counted(g)'
    <3>1. Passed(g)' = Passed(g) \union {r} /\ r \notin Passed(g)
      BY <1>4, MemoizeAssumption DEF Passed
    <3>2. IsFiniteSet(Passed(g)) /\ arg[g] = InGet(g) + Cardinality(Passed(g))
      BY DEF ArgsCounted, Counted
    <3>3. /\ IsFiniteSet(Passed(g) \union {r})
          /\ Cardinality(Passed(g) \union {r}) = Cardinality(Passed(g)) + 1
      BY <3>1, <3>2, FS_AddElement
    <3>4. InGet(g) = 0 /\ InGet(g)' = 1 /\ arg'[g] = arg[g] + 2
      BY <1>0, <1>1, <1>2 DEF InGet, At, TypeOK
    <3>5. Cardinality(Passed(g)) \in Nat
      BY <3>2, FS_CardinalityType
    <3> QED BY <3>1, <3>2, <3>3, <3>4, <3>5 DEF Counted
  <2> QED BY <2>1, <2>2 DEF ArgsCounted
<1> QED BY <1>5, <1>6, <1>7, <1>8, <1>9, <1>10

LEMMA JoinIInv ==
    ASSUME IInv, NEW g \in Goroutine, GetJoin(g)
    PROVE  IInv'
<1> USE DEF IInv
<1> PICK p \in Promise : p = get[g].p
  BY DEF GetJoin, At, TypeOK, Gets, Calls
<1>1. /\ promises' = promises /\ run' = run /\ At(g, "hold") /\ prom[p].state = "running"
      /\ prom' = [prom EXCEPT ![p].waiters = @ + 1]
      /\ arg' = [arg EXCEPT ![g] = @ + 1]
      /\ get' = [get EXCEPT ![g].pc = "wait", ![g].done = prom[p].cur]
  BY DEF GetJoin, Wait
<1>2. Waiters(p) /\ Running(p) /\ prom[p].cur \in Run
  BY <1>1 DEF Awaited, Running
<1>3. /\ get'[g].pc = "wait" /\ get'[g].done = prom[p].cur
      /\ get'[g].p = p /\ get'[g].key = get[g].key
      /\ \A h \in Goroutine \ {g} : get'[h] = get[h]
      /\ get' \in [Goroutine -> Gets]
      /\ Waiting(p)' = Waiting(p) \union {g}
      /\ Cardinality(Waiting(p)') = Cardinality(Waiting(p)) + 1
      /\ \A q \in Promise \ {p} : Waiting(q)' = Waiting(q)
  <2>1. get' = [get EXCEPT ![g].pc = "wait", ![g].done = prom[p].cur] /\ At(g, "hold")
    BY <1>1
  <2> QED BY <1>2, <2>1, OneMoreWaiter
<1>4. /\ prom'[p] = [prom[p] EXCEPT !.waiters = @ + 1]
      /\ \A q \in Promise \ {p} : prom'[q] = prom[q]
  BY <1>1 DEF TypeOK
<1>5. TypeOK'
  <2>1. prom'[p] \in Promises
    BY <1>4 DEF TypeOK, Promises
  <2> QED BY <1>1, <1>3, <1>4, <2>1 DEF TypeOK
<1>6. \A q \in Promise : /\ prom'[q].refs = prom[q].refs /\ prom'[q].state = prom[q].state
                         /\ prom'[q].cur = prom[q].cur /\ prom'[q].value = prom[q].value
  BY <1>4 DEF TypeOK, Promises
<1>7. Calls' /\ Injective' /\ SharedWhileHeld'
  <2>1. \A h \in Goroutine : /\ get'[h].p = get[h].p /\ get'[h].key = get[h].key
                             /\ get'[h].pc = "idle" <=> get[h].pc = "idle"
    BY <1>1, <1>3 DEF At
  <2> QED BY <1>1, <1>6, <2>1, SameReferences
<1>8. Awaited'
  <2>1. Waiters(p)' /\ Running(p)'
    <3>1. /\ prom'[p].waiters = prom[p].waiters + 1
          /\ prom[p].waiters = Cardinality(Waiting(p)) /\ prom[p].waiters \in Nat
      BY <1>1, <1>2, <1>4 DEF Running, TypeOK, Promises
    <3>2. \A h \in Waiting(p)' : get'[h].done = prom[p].cur
      BY <1>1, <1>2, <1>3 DEF Running, Waiting, Holders
    <3>3. prom'[p].waiters = Cardinality(Waiting(p)')
      BY <1>3, <3>1
    <3>4. prom'[p].state = "running" /\ prom'[p].cur = prom[p].cur /\ Waiting(p)' # {}
      BY <1>1, <1>3, <1>6
    <3>5. Waiters(p)'
      BY <3>1, <3>3, <3>4 DEF Waiters
    <3>6. Running(p)'
      BY <1>1, <1>2, <3>2, <3>3, <3>4 DEF Running
    <3> QED BY <3>5, <3>6
  <2>2. ASSUME NEW q \in Promise \ {p}  PROVE Waiters(q)' /\ Running(q)'
    <3>1. \A h \in Waiting(q) : get'[h].done = get[h].done
      BY <1>3 DEF Waiting, Holders
    <3>2. prom[q].state = "running" => run[prom[q].cur].pc # "none"
      BY DEF Awaited, Running
    <3> QED BY <1>1, <1>3, <1>4, <3>1, <3>2, SameWaiters DEF Awaited
  <2> QED BY <2>1, <2>2 DEF Awaited
<1>9. Completed'
  <2>1. \A h \in Goroutine : ~At(h, "idle") => get[h].p \in Promise
    BY DEF TypeOK, Gets, Calls
  <2>2. \A h \in Goroutine : get'[h].pc \in {"woken", "return"} =>
           h # g /\ get'[h] = get[h] /\ ~At(h, "idle")
    BY <1>3 DEF At
  <2> QED BY <1>6, <2>1, <2>2, SameResults DEF Completed
<1>10. RunsWork'
  BY <1>1 DEF RunsWork, RunOf
<1>11. ArgsCounted'
  <2>1. ASSUME NEW h \in Goroutine \ {g}  PROVE Counted(h)'
    BY <1>1, <1>3, SameArgument DEF InGet, Passed, ArgsCounted, TypeOK
  <2>2. Counted(g)'
    <3>1. Passed(g)' = Passed(g)
      BY <1>1 DEF Passed
    <3>2. InGet(g) = 0 /\ InGet(g)' = 1 /\ arg'[g] = arg[g] + 1
      BY <1>1, <1>3 DEF InGet, At, TypeOK
    <3>3. Cardinality(Passed(g)) \in Nat
      BY FS_CardinalityType DEF ArgsCounted, Counted
    <3> QED BY <3>1, <3>2, <3>3 DEF Counted, ArgsCounted
  <2> QED BY <2>1, <2>2 DEF ArgsCounted
<1> QED BY <1>5, <1>7, <1>8, <1>9, <1>10, <1>11

LEMMA CancelledRun ==
    ASSUME NEW x \in Runs
    PROVE  [x EXCEPT !.cancelled = TRUE, !.closed = TRUE] \in Runs
BY DEF Runs

LEMMA LeaveIInv ==
    ASSUME IInv, NEW g \in Goroutine, Leave(g)
    PROVE  IInv'
<1> USE DEF IInv
<1> PICK p \in Promise : p = get[g].p
  BY DEF Leave, At, TypeOK, Gets, Calls
<1> DEFINE last == prom[p].waiters = 1 /\ prom[p].state = "running"
<1>1. /\ At(g, "leave") /\ promises' = promises /\ arg' = arg
      /\ get' = [get EXCEPT ![g].pc = "return", ![g].done = NoRun, ![g].ret = Cancelled]
  BY DEF Leave
<1>2. /\ get'[g].pc = "return" /\ get'[g].ret = Cancelled
      /\ get'[g].p = p /\ get'[g].key = get[g].key
      /\ \A h \in Goroutine \ {g} : get'[h] = get[h]
  BY <1>1 DEF TypeOK, Gets
<1>3. get' \in [Goroutine -> Gets]
  <2>1. [get[g] EXCEPT !.pc = "return", !.done = NoRun, !.ret = Cancelled] \in Gets
    BY DEF TypeOK, Gets
  <2>2. get' = [get EXCEPT ![g] =
                   [get[g] EXCEPT !.pc = "return", !.done = NoRun, !.ret = Cancelled]]
    BY <1>1 DEF TypeOK, Gets
  <2> QED BY <2>1, <2>2 DEF TypeOK
<1>4. /\ g \in Waiting(p) /\ Waiting(p)' = Waiting(p) \ {g}
      /\ \A q \in Promise \ {p} : Waiting(q)' = Waiting(q)
  BY <1>1, <1>2 DEF Waiting, Holders, At
<1>5. /\ Cardinality(Waiting(p)) \in Nat \ {0}
      /\ Cardinality(Waiting(p)') = Cardinality(Waiting(p)) - 1
  <2>1. IsFiniteSet(Waiting(p)) /\ Cardinality(Waiting(p)) \in Nat
    BY HoldersFinite
  <2>2. Cardinality(Waiting(p) \ {g}) = Cardinality(Waiting(p)) - 1
    BY <1>4, <2>1, FS_RemoveElement
  <2>3. Cardinality(Waiting(p)) # 0
    BY <1>4, <2>1, FS_EmptySet
  <2> QED BY <1>4, <2>1, <2>2, <2>3
<1>6. Waiters(p) /\ Running(p) /\ prom[p].state # "idle" /\ prom[p].waiters \in Nat \ {0}
  <2>1. Waiters(p) /\ Running(p) /\ prom[p].waiters \in Nat
    BY DEF Awaited, TypeOK, Promises
  <2>2. prom[p].waiters # 0
    BY <1>5, <2>1 DEF Waiters
  <2> QED BY <1>4, <2>1, <2>2 DEF Waiters
<1>7. ASSUME \A q \in Promise : prom'[q].refs = prom[q].refs
      PROVE  Calls' /\ Injective' /\ SharedWhileHeld'
  <2>1. \A h \in Goroutine : /\ get'[h].p = get[h].p /\ get'[h].key = get[h].key
                             /\ get'[h].pc = "idle" <=> get[h].pc = "idle"
    BY <1>1, <1>2 DEF At
  <2> QED BY <1>1, <1>7, <2>1, SameReferences
<1>8. ASSUME NEW q \in Promise \ {p}, prom'[q] = prom[q],
             prom[q].state = "running" =>
                run'[prom[q].cur] = run[prom[q].cur] /\ run[prom[q].cur].pc # "none"
      PROVE  Waiters(q)' /\ Running(q)'
  <2>1. \A h \in Waiting(q) : get'[h].done = get[h].done
    BY <1>2 DEF Waiting, Holders
  <2> QED BY <1>4, <1>8, <2>1, SameWaiters DEF Awaited
<1>9. ASSUME \A q \in Promise : /\ prom'[q].state = "completed" <=> prom[q].state = "completed"
                                /\ prom'[q].value = prom[q].value
      PROVE  Completed'
  <2>1. \A h \in Goroutine : ~At(h, "idle") => get[h].p \in Promise
    BY DEF TypeOK, Gets, Calls
  <2> QED BY <1>2, <1>9, <2>1 DEF Completed, At
<1>10. ASSUME \A x \in Run : run'[x].arg = run[x].arg
       PROVE  ArgsCounted'
  <2>1. \A h \in Goroutine : Passed(h)' = Passed(h)
    BY <1>10 DEF Passed
  <2>2. \A h \in Goroutine : InGet(h)' = InGet(h)
    BY <1>1, <1>2 DEF InGet, At
  <2> QED BY <1>1, <2>1, <2>2, SameArgument DEF ArgsCounted
<1>11. CASE ~last
  <2>1. run' = run /\ prom' = [prom EXCEPT ![p].waiters = @ - 1]
    BY <1>11 DEF Leave
  <2>2. /\ prom'[p] = [prom[p] EXCEPT !.waiters = @ - 1]
        /\ \A q \in Promise \ {p} : prom'[q] = prom[q]
    BY <2>1 DEF TypeOK
  <2>3. \A q \in Promise : /\ prom'[q].refs = prom[q].refs /\ prom'[q].state = prom[q].state
                           /\ prom'[q].cur = prom[q].cur /\ prom'[q].value = prom[q].value
    BY <2>2 DEF TypeOK, Promises
  <2>4. TypeOK'
    <3>1. prom'[p] \in Promises
      <4>1. prom[p].waiters - 1 \in Nat
        BY <1>6
      <4>2. [prom[p] EXCEPT !.waiters = @ - 1] \in Promises
        BY <4>1 DEF TypeOK, Promises
      <4> QED BY <2>2, <4>2
    <3> QED BY <1>1, <1>3, <2>1, <2>2, <3>1 DEF TypeOK
  <2>5. Awaited'
    <3>1. prom'[p].waiters = prom[p].waiters - 1
      BY <2>2 DEF TypeOK, Promises
    <3>2. Waiters(p)'
      BY <1>5, <1>6, <2>3, <3>1 DEF Waiters
    <3>3. Running(p)'
      <4> SUFFICES ASSUME prom[p].state = "running"  PROVE Running(p)'
        BY <2>3 DEF Running
      <4>1. prom[p].waiters = Cardinality(Waiting(p)) /\ prom[p].waiters # 1
        BY <1>6, <1>11 DEF Running
      <4>2. prom'[p].waiters = Cardinality(Waiting(p)') /\ Cardinality(Waiting(p)') # 0
        BY <1>5, <1>6, <3>1, <4>1
      <4>3. Waiting(p)' # {}
        BY <4>2, FS_EmptySet
      <4>4. \A h \in Waiting(p)' : get'[h].done = prom[p].cur
        BY <1>2, <1>4, <1>6 DEF Running, Waiting, Holders
      <4> QED BY <1>6, <2>1, <2>3, <4>2, <4>3, <4>4 DEF Running
    <3>4. \A q \in Promise : prom[q].state = "running" => run[prom[q].cur].pc # "none"
      BY DEF Awaited, Running
    <3> QED BY <1>8, <2>1, <2>2, <3>2, <3>3, <3>4 DEF Awaited
  <2>6. RunsWork'
    BY <2>1 DEF RunsWork, RunOf
  <2> QED BY <1>7, <1>9, <1>10, <2>1, <2>3, <2>4, <2>5, <2>6
<1>12. CASE last
  <2>0. PICK c \in Run : c = prom[p].cur
    BY <1>6, <1>12 DEF Running
  <2>1. /\ prom' = [prom EXCEPT ![p] = [@ EXCEPT !.waiters = 0, !.state = "idle",
                                                 !.cur = NoRun]]
        /\ run' = [run EXCEPT ![c] = [@ EXCEPT !.cancelled = TRUE, !.closed = TRUE]]
    BY <1>12, <2>0 DEF Leave
  <2>2. /\ prom'[p] = [prom[p] EXCEPT !.waiters = 0, !.state = "idle", !.cur = NoRun]
        /\ \A q \in Promise \ {p} : prom'[q] = prom[q]
    BY <2>1 DEF TypeOK
  <2>3. /\ run'[c] = [run[c] EXCEPT !.cancelled = TRUE, !.closed = TRUE]
        /\ \A x \in Run \ {c} : run'[x] = run[x]
    BY <2>0, <2>1 DEF TypeOK
  <2>4. /\ prom'[p].refs = prom[p].refs /\ prom'[p].value = prom[p].value
        /\ prom'[p].state = "idle" /\ prom'[p].waiters = 0
    BY <2>2 DEF TypeOK, Promises
  <2>5. TypeOK'
    <3>1. prom'[p] \in Promises
      <4>1. [prom[p] EXCEPT !.waiters = 0, !.state = "idle", !.cur = NoRun] \in Promises
        BY DEF TypeOK, Promises
      <4> QED BY <2>2, <4>1
    <3>2. [run[c] EXCEPT !.cancelled = TRUE, !.closed = TRUE] \in Runs
      BY <2>0, CancelledRun DEF TypeOK
    <3>3. run' \in [Run -> Runs]
      BY <2>0, <2>1, <2>3, <3>2 DEF TypeOK
    <3> QED BY <1>1, <1>3, <2>1, <2>2, <3>1, <3>3 DEF TypeOK
  <2>6. /\ run'[c].pc = run[c].pc /\ run'[c].of = run[c].of /\ run'[c].arg = run[c].arg
        /\ run'[c].value = run[c].value /\ run'[c].cancelled
    BY <2>0, <2>3 DEF TypeOK, Runs
  <2>7. Awaited'
    <3>1. Waiting(p)' = {}
      <4>1. Cardinality(Waiting(p)') = 0
        BY <1>5, <1>6, <1>12 DEF Running
      <4>2. IsFiniteSet(Waiting(p)')
        BY <1>4, HoldersFinite, FS_RemoveElement
      <4> QED BY <4>1, <4>2, FS_EmptySet
    <3>2. Waiters(p)' /\ Running(p)'
      BY <2>4, <3>1, FS_EmptySet DEF Waiters, Running
    <3>3. ASSUME NEW q \in Promise \ {p}, prom[q].state = "running"
          PROVE  run'[prom[q].cur] = run[prom[q].cur] /\ run[prom[q].cur].pc # "none"
      <4>1. Running(q) /\ run[c].of = p
        BY <1>6, <1>12, <2>0 DEF Awaited, Running
      <4> QED BY <2>3, <3>3, <4>1 DEF Running
    <3> QED BY <1>8, <2>2, <3>2, <3>3 DEF Awaited
  <2>8. Completed'
    BY <1>9, <1>12, <2>2, <2>4
  <2>9. RunsWork'
    <3>1. RunOf(c)'
      BY <2>0, <2>6 DEF RunsWork, RunOf
    <3>2. ASSUME NEW x \in Run \ {c}  PROVE RunOf(x)'
      BY <2>3 DEF RunsWork, RunOf
    <3> QED BY <3>1, <3>2 DEF RunsWork
  <2> QED BY <1>7, <1>10, <2>2, <2>3, <2>4, <2>5, <2>6, <2>7, <2>8, <2>9
<1> QED BY <1>11, <1>12

-----------------------------------------------------------------------------
(* Runs.                                                                   *)

\* A run that releases its argument had a reference to it.
LEMMA ArgumentReleased ==
    ASSUME IInv, NEW r \in Run, run[r].pc # "none",
           arg' = [arg EXCEPT ![run[r].arg] = @ - 1], get' = get,
           run'[r].arg = NoRun, \A x \in Run \ {r} : run'[x].arg = run[x].arg
    PROVE  ArgsCounted' /\ arg' \in [Goroutine -> Nat]
<1> PICK g \in Goroutine : g = run[r].arg
  BY DEF IInv, RunsWork, RunOf
<1>1. arg'[g] = arg[g] - 1 /\ \A h \in Goroutine \ {g} : arg'[h] = arg[h]
  BY DEF IInv, TypeOK
<1>2. Passed(g)' = Passed(g) \ {r} /\ r \in Passed(g)
  BY MemoizeAssumption DEF Passed
<1>3. \A h \in Goroutine : InGet(h)' = InGet(h)
  BY DEF InGet
<1>4. IsFiniteSet(Passed(g)) /\ arg[g] = InGet(g) + Cardinality(Passed(g))
  BY DEF IInv, ArgsCounted, Counted
<1>5. /\ IsFiniteSet(Passed(g) \ {r})
      /\ Cardinality(Passed(g) \ {r}) = Cardinality(Passed(g)) - 1
  BY <1>2, <1>4, FS_RemoveElement
<1>6. Cardinality(Passed(g)) \in Nat \ {0}
  BY <1>2, <1>4, FS_CardinalityType, FS_EmptySet
<1>7. InGet(g) \in {0, 1}
  BY DEF InGet
<1>8. Counted(g)' /\ arg'[g] \in Nat
  BY <1>1, <1>2, <1>3, <1>4, <1>5, <1>6, <1>7 DEF Counted
<1>9. ASSUME NEW h \in Goroutine \ {g}  PROVE Counted(h)'
  <2>1. Passed(h)' = Passed(h)
    BY MemoizeAssumption DEF Passed
  <2> QED BY <1>1, <1>3, <2>1, SameArgument DEF IInv, ArgsCounted
<1> QED BY <1>1, <1>8, <1>9 DEF ArgsCounted, IInv, TypeOK

LEMMA EndIInv ==
    ASSUME IInv, NEW r \in Run, run[r].pc # "none", End(r),
           promises' = promises, prom' = prom, get' = get,
           \A q \in Promise : prom[q].state = "running" => prom[q].cur # r
    PROVE  IInv'
<1> USE DEF IInv
<1>1. /\ run'[r].pc = "none" /\ run'[r].of = NoPromise /\ run'[r].arg = NoRun
      /\ \A x \in Run \ {r} : run'[x] = run[x]
  BY DEF End, TypeOK, Runs
<1>2. ArgsCounted' /\ arg' \in [Goroutine -> Nat]
  BY <1>1, ArgumentReleased DEF End
<1>3. run' \in [Run -> Runs]
  <2>1. [run[r] EXCEPT !.pc = "none", !.of = NoPromise, !.arg = NoRun, !.value = NoValue]
           \in Runs
    BY DEF TypeOK, Runs
  <2>2. run' = [run EXCEPT ![r] = [run[r] EXCEPT !.pc = "none", !.of = NoPromise,
                                                 !.arg = NoRun, !.value = NoValue]]
    BY DEF End, TypeOK, Runs
  <2> QED BY <2>1, <2>2 DEF TypeOK
<1>4. TypeOK'
  BY <1>2, <1>3 DEF TypeOK
<1>5. Calls' /\ Injective' /\ SharedWhileHeld'
  BY SameReferences
<1>6. Awaited'
  <2> SUFFICES ASSUME NEW q \in Promise  PROVE Waiters(q)' /\ Running(q)'
    BY DEF Awaited
  <2>1. Waiting(q)' = Waiting(q)
    BY DEF Waiting, Holders
  <2>2. prom[q].state = "running" => /\ run'[prom[q].cur] = run[prom[q].cur]
                                     /\ run[prom[q].cur].pc # "none"
    BY <1>1 DEF Awaited, Running
  <2> QED BY <2>1, <2>2, SameWaiters DEF Awaited
<1>7. Completed'
  BY DEF Completed, At
<1>8. RunsWork'
  BY <1>1 DEF RunsWork, RunOf
<1> QED BY <1>2, <1>4, <1>5, <1>6, <1>7, <1>8

\* A run that goes on: its function's value is real unless the run was cancelled.
LEMMA GoesOnIInv ==
    ASSUME IInv, NEW r \in Run, NEW x \in Runs, run[r].pc # "none",
           run' = [run EXCEPT ![r] = x], x.pc # "none",
           x.of = run[r].of, x.arg = run[r].arg,
           x.cancelled = run[r].cancelled, x.closed = run[r].closed,
           x.pc = "check" => x.value \in Value \/ x.cancelled,
           x.pc = "publish" => x.value \in Value,
           promises' = promises, prom' = prom, get' = get, arg' = arg
    PROVE  IInv'
<1> USE DEF IInv
<1>1. run'[r] = x /\ \A y \in Run \ {r} : run'[y] = run[y]
  BY DEF TypeOK
<1>2. TypeOK'
  BY DEF TypeOK
<1>3. Calls' /\ Injective' /\ SharedWhileHeld'
  BY SameReferences
<1>4. Awaited'
  <2> SUFFICES ASSUME NEW q \in Promise  PROVE Waiters(q)' /\ Running(q)'
    BY DEF Awaited
  <2>1. Waiting(q)' = Waiting(q)
    BY DEF Waiting, Holders
  <2>2. prom[q].state = "running" =>
           /\ run'[prom[q].cur].cancelled = run[prom[q].cur].cancelled
           /\ run'[prom[q].cur].closed = run[prom[q].cur].closed
           /\ run'[prom[q].cur].of = run[prom[q].cur].of
           /\ run'[prom[q].cur].pc # "none"
    BY <1>1 DEF Awaited, Running
  <2> QED BY <2>1, <2>2, SameWaiters DEF Awaited
<1>5. Completed'
  BY DEF Completed, At
<1>6. RunsWork'
  BY <1>1 DEF RunsWork, RunOf
<1>7. ArgsCounted'
  <2>1. \A g \in Goroutine : Passed(g)' = Passed(g) /\ InGet(g)' = InGet(g)
    BY <1>1 DEF Passed, InGet
  <2> QED BY <2>1, SameArgument DEF ArgsCounted
<1> QED BY <1>2, <1>3, <1>4, <1>5, <1>6, <1>7

LEMMA WorkIInv ==
    ASSUME IInv, NEW r \in Run, RunStart(r) \/ RunFunction(r) \/ RunCheck(r)
    PROVE  IInv'
<1>1. promises' = promises /\ prom' = prom /\ get' = get /\ run[r].pc # "none"
  BY DEF RunStart, RunFunction, RunCheck
<1>2. CASE run[r].cancelled /\ End(r)
  <2>1. \A q \in Promise : prom[q].state = "running" => prom[q].cur # r
    BY <1>2 DEF IInv, Awaited, Running
  <2> QED BY <1>1, <1>2, <2>1, EndIInv
<1>3. CASE RunFunction(r)
  <2>1. PICK v \in Value \union {Spoiled} :
            (v = Spoiled => run[r].cancelled) /\ run' = [run EXCEPT ![r].pc = "check", ![r].value = v]
    BY <1>3 DEF RunFunction
  <2> DEFINE x == [run[r] EXCEPT !.pc = "check", !.value = v]
  <2>2. /\ x \in Runs /\ x.pc = "check" /\ x.of = run[r].of /\ x.arg = run[r].arg
        /\ x.cancelled = run[r].cancelled /\ x.closed = run[r].closed /\ x.value = v
    BY <2>1 DEF IInv, TypeOK, Runs
  <2>3. run' = [run EXCEPT ![r] = x] /\ arg' = arg
    BY <1>3, <2>1 DEF RunFunction, IInv, TypeOK, Runs
  <2> HIDE DEF x
  <2> QED BY <1>1, <2>1, <2>2, <2>3, GoesOnIInv
<1>4. CASE ~run[r].cancelled /\ arg' = arg /\ run[r].pc = "start"
           /\ run' = [run EXCEPT ![r].pc = "function"]
  <2> DEFINE x == [run[r] EXCEPT !.pc = "function"]
  <2>1. /\ x \in Runs /\ x.pc = "function" /\ x.of = run[r].of /\ x.arg = run[r].arg
        /\ x.cancelled = run[r].cancelled /\ x.closed = run[r].closed
    BY DEF IInv, TypeOK, Runs
  <2>2. run' = [run EXCEPT ![r] = x]
    BY <1>4 DEF IInv, TypeOK, Runs
  <2> HIDE DEF x
  <2> QED BY <1>1, <1>4, <2>1, <2>2, GoesOnIInv
<1>5. CASE ~run[r].cancelled /\ arg' = arg /\ run[r].pc = "check"
           /\ run' = [run EXCEPT ![r].pc = "publish"]
  <2> DEFINE x == [run[r] EXCEPT !.pc = "publish"]
  <2>1. /\ x \in Runs /\ x.pc = "publish" /\ x.of = run[r].of /\ x.arg = run[r].arg
        /\ x.cancelled = run[r].cancelled /\ x.closed = run[r].closed
        /\ x.value = run[r].value
    BY DEF IInv, TypeOK, Runs
  <2>2. run' = [run EXCEPT ![r] = x] /\ run[r].value \in Value
    BY <1>5 DEF IInv, TypeOK, Runs, RunsWork, RunOf
  <2> HIDE DEF x
  <2> QED BY <1>1, <1>5, <2>1, <2>2, GoesOnIInv
<1> QED BY <1>2, <1>3, <1>4, <1>5 DEF RunStart, RunFunction, RunCheck

LEMMA CompletedPromise ==
    ASSUME NEW x \in Promises, NEW v \in Value
    PROVE  [x EXCEPT !.state = "completed", !.value = v] \in Promises
BY DEF Promises

\* A run completes its promise, be it for its own round or for a later one.
LEMMA PublishIInv ==
    ASSUME IInv, NEW r \in Run, Publish(r)
    PROVE  IInv'
<1> USE DEF IInv
<1> PICK p \in Promise : p = run[r].of
  BY DEF Publish, RunsWork, RunOf
<1>1. /\ promises' = promises /\ get' = get
      /\ run[r].pc = "publish" /\ run[r].value \in Value
  BY DEF Publish, RunsWork, RunOf
<1>2. \A q \in Promise \ {p} : prom[q].state = "running" =>
         /\ prom[q].cur # r
         /\ prom[p].state = "running" => prom[q].cur # prom[p].cur
  BY DEF Awaited, Running
<1>3. CASE prom[p].state # "running" /\ End(r) /\ prom' = prom
  BY <1>1, <1>2, <1>3, EndIInv
<1>4. CASE prom[p].state = "running" /\ ~(prom[p].state # "running" /\ End(r) /\ prom' = prom)
  <2>0. PICK c \in Run : c = prom[p].cur
    BY <1>4 DEF Awaited, Running
  <2>1. /\ prom' = [prom EXCEPT ![p].state = "completed", ![p].value = run[r].value]
        /\ arg' = [arg EXCEPT ![run[r].arg] = @ - 1]
        /\ run' = [x \in Run |->
              [(IF x = r THEN [NoRunning EXCEPT !.cancelled = run[r].cancelled,
                                                !.closed = run[r].closed] ELSE run[x])
               EXCEPT !.closed = @ \/ x = c]]
    BY <1>4, <2>0 DEF Publish
  <2>2. /\ prom'[p].state = "completed" /\ prom'[p].value = run[r].value
        /\ prom'[p].refs = prom[p].refs /\ prom'[p].waiters = prom[p].waiters
        /\ \A q \in Promise \ {p} : prom'[q] = prom[q]
    BY <2>1 DEF TypeOK, Promises
  <2>3. \A x \in Run : run'[x] =
              [(IF x = r THEN [NoRunning EXCEPT !.cancelled = run[r].cancelled,
                                                !.closed = run[r].closed] ELSE run[x])
               EXCEPT !.closed = @ \/ x = c]
    BY <2>1
  <2>4. run'[r].pc = "none" /\ run'[r].of = NoPromise /\ run'[r].arg = NoRun
    BY <2>3 DEF NoRunning
  <2>5. \A x \in Run \ {r} : /\ run'[x].pc = run[x].pc /\ run'[x].of = run[x].of
                             /\ run'[x].arg = run[x].arg /\ run'[x].value = run[x].value
                             /\ run'[x].cancelled = run[x].cancelled
    <3> SUFFICES ASSUME NEW x \in Run \ {r}
                 PROVE  /\ run'[x].pc = run[x].pc /\ run'[x].of = run[x].of
                        /\ run'[x].arg = run[x].arg /\ run'[x].value = run[x].value
                        /\ run'[x].cancelled = run[x].cancelled
      OBVIOUS
    <3>1. run'[x] = [run[x] EXCEPT !.closed = @ \/ x = c]
      BY <2>3
    <3> QED BY <3>1 DEF TypeOK, Runs
  <2>6. \A x \in Run \ {r, c} : run'[x].closed = run[x].closed
    <3> SUFFICES ASSUME NEW x \in Run \ {r, c}  PROVE run'[x].closed = run[x].closed
      OBVIOUS
    <3>1. run'[x] = [run[x] EXCEPT !.closed = @ \/ x = c] /\ x # c
      BY <2>3
    <3> QED BY <3>1 DEF TypeOK, Runs
  <2>7. ArgsCounted' /\ arg' \in [Goroutine -> Nat]
    BY <1>1, <2>1, <2>4, <2>5, ArgumentReleased
  <2>8. TypeOK'
    <3>1. prom' \in [Promise -> Promises]
      <4>1. [prom[p] EXCEPT !.state = "completed", !.value = run[r].value] \in Promises
        BY <1>1, CompletedPromise DEF TypeOK
      <4>2. prom' = [prom EXCEPT ![p] =
                        [prom[p] EXCEPT !.state = "completed", !.value = run[r].value]]
        BY <2>1 DEF TypeOK, Promises
      <4> QED BY <4>1, <4>2 DEF TypeOK
    <3>2. run' \in [Run -> Runs]
      <4> SUFFICES ASSUME NEW x \in Run
                   PROVE  [(IF x = r THEN [NoRunning EXCEPT !.cancelled = run[r].cancelled,
                                                            !.closed = run[r].closed]
                                     ELSE run[x])
                           EXCEPT !.closed = @ \/ x = c] \in Runs
        BY <2>1
      <4>1. [NoRunning EXCEPT !.cancelled = run[r].cancelled, !.closed = run[r].closed]
               \in Runs
        BY DEF TypeOK, Runs, NoRunning
      <4>2. run[x] \in Runs
        BY DEF TypeOK
      <4> QED BY <4>1, <4>2 DEF Runs
    <3> QED BY <1>1, <2>7, <3>1, <3>2 DEF TypeOK
  <2>9. Calls' /\ Injective' /\ SharedWhileHeld'
    BY <1>1, <2>2, SameReferences
  <2>10. Awaited'
    <3>1. \A q \in Promise : Waiting(q)' = Waiting(q)
      BY <1>1 DEF Waiting, Holders
    <3>2. Waiters(p)' /\ Running(p)'
      BY <2>2, <3>1 DEF Awaited, Waiters, Running
    <3>3. ASSUME NEW q \in Promise \ {p}  PROVE Waiters(q)' /\ Running(q)'
      <4>1. prom[q].state = "running" =>
               /\ run'[prom[q].cur].cancelled = run[prom[q].cur].cancelled
               /\ run'[prom[q].cur].closed = run[prom[q].cur].closed
               /\ run'[prom[q].cur].of = run[prom[q].cur].of
               /\ run'[prom[q].cur].pc # "none"
        BY <1>2, <1>4, <2>0, <2>5, <2>6 DEF Awaited, Running
      <4> QED BY <1>1, <2>2, <3>1, <4>1, SameWaiters DEF Awaited
    <3> QED BY <3>2, <3>3 DEF Awaited
  <2>11. Completed'
    <3>1. \A q \in Promise : prom'[q].state = "completed" => prom'[q].value \in Value
      BY <1>1, <2>2 DEF Completed
    <3>2. \A h \in Goroutine : ~At(h, "idle") => get[h].p \in Promise
      BY DEF TypeOK, Gets, Calls
    <3>3. \A h \in Goroutine : get[h].pc \in {"woken", "return"} /\ get[h].p \in Promise =>
             (prom[get[h].p].state = "completed" => prom'[get[h].p] = prom[get[h].p])
      BY <1>4, <2>2
    <3> QED BY <1>1, <3>1, <3>2, <3>3, SameResults DEF At
  <2>12. RunsWork'
    <3>1. RunOf(r)'
      BY <2>4 DEF RunOf
    <3>2. ASSUME NEW x \in Run \ {r}  PROVE RunOf(x)'
      BY <2>5 DEF RunsWork, RunOf
    <3> QED BY <3>1, <3>2 DEF RunsWork
  <2> QED BY <2>7, <2>8, <2>9, <2>10, <2>11, <2>12
<1> QED BY <1>3, <1>4 DEF Publish

-----------------------------------------------------------------------------
LEMMA StepIInv == IInv /\ [Next]_vars => IInv'
<1> SUFFICES ASSUME IInv, [Next]_vars  PROVE IInv'
  OBVIOUS
<1>1. CASE UNCHANGED vars
  <2> USE <1>1 DEF vars, IInv
  <2>1. TypeOK' /\ Completed' /\ RunsWork'
    BY DEF TypeOK, Completed, At, RunsWork, RunOf
  <2>2. Calls' /\ Injective' /\ SharedWhileHeld'
    BY SameReferences
  <2>3. \A p \in Promise : Waiting(p)' = Waiting(p)
    BY DEF Waiting, Holders
  <2>4. Awaited'
    BY <2>3 DEF Awaited, Waiters, Running
  <2>5. \A g \in Goroutine : Passed(g)' = Passed(g) /\ InGet(g)' = InGet(g)
    BY DEF Passed, InGet
  <2>6. ArgsCounted'
    BY <2>5 DEF ArgsCounted, Counted
  <2> QED BY <2>1, <2>2, <2>4, <2>6
<1>2. ASSUME NEW g \in Goroutine, NEW k \in Key, Hold(g, k)  PROVE IInv'
  BY <1>2, HoldIInv
<1>3. ASSUME NEW g \in Goroutine, Release(g)  PROVE IInv'
  BY <1>3, ReleaseIInv
<1>4. ASSUME NEW g \in Goroutine, GetCancelled(g) \/ GetCompleted(g)  PROVE IInv'
  BY <1>4, AtOnceIInv
<1>5. ASSUME NEW g \in Goroutine, GetRun(g)  PROVE IInv'
  BY <1>5, RunIInv
<1>6. ASSUME NEW g \in Goroutine, GetJoin(g)  PROVE IInv'
  BY <1>6, JoinIInv
<1>7. ASSUME NEW g \in Goroutine, SelectDone(g) \/ SelectCtx(g) \/ Woken(g)  PROVE IInv'
  BY <1>7, SelectIInv
<1>8. ASSUME NEW g \in Goroutine, Leave(g)  PROVE IInv'
  BY <1>8, LeaveIInv
<1>9. ASSUME NEW g \in Goroutine, Return(g)  PROVE IInv'
  BY <1>9, ReturnIInv
<1>10. ASSUME NEW r \in Run, Work(r)  PROVE IInv'
  BY <1>10, WorkIInv, PublishIInv DEF Work
<1> QED BY <1>1, <1>2, <1>3, <1>4, <1>5, <1>6, <1>7, <1>8, <1>9, <1>10 DEF Next, Caller

\* The inductive invariant.
THEOREM Invariance == Spec => []IInv
<1>1. Init => IInv
  BY InitIInv
<1>2. IInv /\ [Next]_vars => IInv'
  BY StepIInv
<1> QED BY <1>1, <1>2, PTL DEF Spec

\* Promises, runs and reference counts have their types; refcount and waiters, an
\* unsigned number in the code, never go below zero (memoize.go:228, 300).
THEOREM TypeCorrect == Spec => []TypeOK
<1>1. IInv => TypeOK
  BY DEF IInv
<1> QED BY <1>1, Invariance, PTL

\* All who hold a key share one promise, which is counted exactly and which the store
\* forgets with the last of them (memoize.go:302).
THEOREM PromisesShared == Spec => []SharedWhileHeld
<1>1. IInv => SharedWhileHeld
  BY DEF IInv
<1> QED BY <1>1, Invariance, PTL

\* While anybody waits for a running promise its run is neither cancelled nor over
\* (memoize.go:226-237).
THEOREM AwaitedRuns == Spec => []RunningWhileAwaited
<1>1. IInv => RunningWhileAwaited
  BY DEF IInv, Awaited, Running, RunningWhileAwaited
<1> QED BY <1>1, Invariance, PTL

\* Get returns the value of the promise unless its caller was cancelled
\* (memoize.go:218-226).
THEOREM GetsReturnValues == Spec => []GetReturnsValue
<1>1. IInv => GetReturnsValue
  <2> SUFFICES ASSUME IInv, NEW g \in Goroutine, At(g, "return"), get[g].ret # Cancelled
               PROVE  get[g].ret = prom[get[g].p].value /\ get[g].ret \in Value
    BY DEF GetReturnsValue
  <2>1. get[g].p \in Promise
    BY DEF IInv, TypeOK, Gets, Calls, At
  <2> QED BY <2>1 DEF IInv, Completed
<1> QED BY <1>1, Invariance, PTL

\* The argument of a function is alive while it runs (memoize.go:52-57).
THEOREM ArgumentsAlive == Spec => []ArgumentAlive
<1>1. IInv => ArgumentAlive
  <2> SUFFICES ASSUME IInv, NEW r \in Run, run[r].pc = "function"
               PROVE  arg[run[r].arg] > 0
    BY DEF ArgumentAlive
  <2> PICK g \in Goroutine : g = run[r].arg
    BY DEF IInv, RunsWork, RunOf
  <2>1. /\ IsFiniteSet(Passed(g)) /\ Passed(g) # {} /\ InGet(g) \in Nat
        /\ arg[g] = InGet(g) + Cardinality(Passed(g))
    BY DEF IInv, ArgsCounted, Counted, Passed, InGet
  <2>2. Cardinality(Passed(g)) \in Nat \ {0}
    BY <2>1, FS_CardinalityType, FS_EmptySet
  <2> QED BY <2>1, <2>2
<1> QED BY <1>1, Invariance, PTL

\* Whatever run arrives late, a completed promise that is held keeps its value
\* (memoize.go:138, 193-199).
THEOREM CompletedStays == Spec => CompletedForGood
<1>1. IInv /\ [Next]_vars => [\A p \in Promise :
          prom[p].state = "completed" /\ prom[p].refs > 0 /\ prom'[p].refs > 0 =>
              prom'[p].state = "completed" /\ prom'[p].value = prom[p].value]_vars
  <2> SUFFICES ASSUME IInv, Next, NEW p \in Promise,
                      prom[p].state = "completed", prom[p].refs > 0
               PROVE  prom'[p].state = "completed" /\ prom'[p].value = prom[p].value
    OBVIOUS
  <2> USE DEF IInv
  <2>1. ASSUME NEW g \in Goroutine, NEW k \in Key, Hold(g, k)
        PROVE  prom'[p].state = "completed" /\ prom'[p].value = prom[p].value
    <3>1. Holders(p) # {}
      <4>1. prom[p].refs = Cardinality(Holders(p)) /\ prom[p].refs # 0
        BY DEF SharedWhileHeld, TypeOK, Promises
      <4> QED BY <4>1, FS_EmptySet
    <3>2. ~FreshPromise(p)
      BY <3>1 DEF Holders, FreshPromise
    <3> QED BY <2>1, <3>2 DEF Hold, TypeOK, Promises
  <2>2. ASSUME NEW g \in Goroutine, Release(g) \/ GetRun(g) \/ GetJoin(g)
        PROVE  prom'[p].state = "completed" /\ prom'[p].value = prom[p].value
    <3>1. get[g].p \in Promise
      BY <2>2 DEF Release, GetRun, GetJoin, At, TypeOK, Gets, Calls
    <3>2. CASE Release(g)
      BY <3>1, <3>2 DEF Release, TypeOK, Promises
    <3>3. CASE GetRun(g)
      <4>1. prom[get[g].p].state = "idle"
        BY <3>3 DEF GetRun
      <4>2. prom'[p] = prom[p]
        BY <3>1, <3>3, <4>1 DEF GetRun, TypeOK
      <4> QED BY <4>2
    <3>4. CASE GetJoin(g)
      BY <3>1, <3>4 DEF GetJoin, TypeOK, Promises
    <3> QED BY <2>2, <3>2, <3>3, <3>4
  <2>3. ASSUME NEW g \in Goroutine, Leave(g)
        PROVE  prom'[p].state = "completed" /\ prom'[p].value = prom[p].value
    <3>1. get[g].p \in Promise
      BY <2>3 DEF Leave, At, TypeOK, Gets, Calls
    <3> QED BY <2>3, <3>1 DEF Leave, TypeOK, Promises
  <2>4. ASSUME NEW g \in Goroutine,
               \/ GetCancelled(g) \/ GetCompleted(g) \/ SelectCtx(g)
               \/ SelectDone(g) \/ Woken(g) \/ Return(g)
        PROVE  prom' = prom
    BY <2>4 DEF GetCancelled, GetCompleted, SelectCtx, SelectDone, Woken, Return
  <2>5. ASSUME NEW r \in Run, RunStart(r) \/ RunFunction(r) \/ RunCheck(r)
        PROVE  prom' = prom
    BY <2>5 DEF RunStart, RunFunction, RunCheck
  <2>6. ASSUME NEW r \in Run, Publish(r)
        PROVE  prom'[p].state = "completed" /\ prom'[p].value = prom[p].value
    <3>1. run[r].of \in Promise
      BY <2>6 DEF Publish, RunsWork, RunOf
    <3> QED BY <2>6, <3>1 DEF Publish, TypeOK, Promises
  <2> QED BY <2>1, <2>2, <2>3, <2>4, <2>5, <2>6 DEF Next, Caller, Work
<1> QED BY <1>1, Invariance, PTL DEF Spec, CompletedForGood
=============================================================================
