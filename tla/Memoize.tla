------------------------------- MODULE Memoize -------------------------------
(***************************************************************************)
(* The promises of gopls (gopls/internal/util/memoize/memoize.go).         *)
(*                                                                         *)
(* A Store maps a key to a promise, counts the references to it and        *)
(* forgets it with the last one.  Promise.Get runs the promise's function  *)
(* in a goroutine of its own (a run) and waits for it; when the last       *)
(* waiter is cancelled the run is cancelled and the promise is idle again, *)
(* although the goroutine of the run may go on for a while.                *)
(*                                                                         *)
(* The sections under Promise.mu and Store.promisesMu do not block and are *)
(* one action each.  A run stands for its goroutine, its child context and *)
(* the done channel made with it.                                          *)
(***************************************************************************)
EXTENDS Naturals, FiniteSets

CONSTANTS Goroutine, Key, Promise, Run, Value,
          neverEvict,  \* the store's EvictionPolicy is NeverEvict
          NoPromise, NoRun, NoValue, Spoiled, Cancelled, NoKey

ASSUME MemoizeAssumption ==
    /\ IsFiniteSet(Goroutine)
    /\ neverEvict \in BOOLEAN
    /\ NoPromise \notin Promise /\ NoRun \notin Run \union Goroutine /\ NoKey \notin Key
    /\ NoValue \notin Value /\ Spoiled \notin Value /\ Cancelled \notin Value
    /\ Spoiled # NoValue /\ Cancelled # NoValue /\ Spoiled # Cancelled

VARIABLES
    promises, \* Store.promises
    prom,     \* the promises
    run,      \* the runs
    arg,      \* the references to the argument each goroutine passes to Get
    get       \* the goroutines

vars == <<promises, prom, run, arg, get>>

Promises == [refs    : Nat,                            \* refcount
             state   : {"idle", "running", "completed"},
             cur     : Run \union {NoRun},             \* the run of done and cancel
             waiters : Nat,
             value   : Value \union {NoValue, Spoiled}]
Runs == [pc        : {"none", "start", "function", "check", "publish"},
         of        : Promise \union {NoPromise},
         arg       : Goroutine \union {NoRun},         \* whose argument it uses
         cancelled : BOOLEAN,                          \* childCtx
         closed    : BOOLEAN,                          \* done
         value     : Value \union {NoValue, Spoiled}]
Gets == [pc   : {"idle", "hold", "wait", "woken", "leave", "return"},
         key  : Key \union {NoKey},
         p    : Promise \union {NoPromise},
         done : Run \union {NoRun},                    \* the channel it waits on
         ret  : Value \union {NoValue, Spoiled, Cancelled}]

NewPromise == [refs |-> 0, state |-> "idle", cur |-> NoRun, waiters |-> 0,
               value |-> NoValue]
NoRunning == [pc |-> "none", of |-> NoPromise, arg |-> NoRun, cancelled |-> FALSE,
              closed |-> FALSE, value |-> NoValue]
Idle == [pc |-> "idle", key |-> NoKey, p |-> NoPromise, done |-> NoRun,
         ret |-> NoValue]

TypeOK == /\ promises \in [Key -> Promise \union {NoPromise}]
          /\ prom \in [Promise -> Promises]
          /\ run \in [Run -> Runs]
          /\ arg \in [Goroutine -> Nat]
          /\ get \in [Goroutine -> Gets]

Init == /\ promises = [k \in Key |-> NoPromise]
        /\ prom = [p \in Promise |-> NewPromise]
        /\ run = [r \in Run |-> NoRunning]
        /\ arg = [g \in Goroutine |-> 0]
        /\ get = [g \in Goroutine |-> Idle]

At(g, l) == get[g].pc = l
Goto(g, l) == get' = [get EXCEPT ![g].pc = l]

\* Identities of promises and runs that nothing mentions any more are used again.
FreshPromise(p) == /\ \A k \in Key : promises[k] # p
                   /\ \A r \in Run : run[r].of # p
                   /\ \A g \in Goroutine : get[g].p # p
FreshRun(r) == /\ run[r].pc = "none"
               /\ \A p \in Promise : prom[p].cur # r
               /\ \A g \in Goroutine : get[g].done # r

-----------------------------------------------------------------------------
\* Store.Promise: the promise of the key, made if need be, with one more
\* reference.
Hold(g, k) ==
    /\ At(g, "idle")
    /\ \E p \in Promise :
          /\ \/ /\ promises[k] = p
                /\ prom' = [prom EXCEPT ![p].refs = @ + 1]
             \/ /\ promises[k] = NoPromise /\ FreshPromise(p)
                /\ prom' = [prom EXCEPT ![p] = [NewPromise EXCEPT !.refs = 1]]
          /\ promises' = [promises EXCEPT ![k] = p]
          /\ get' = [get EXCEPT ![g] = [Idle EXCEPT !.pc = "hold", !.key = k, !.p = p]]
    /\ UNCHANGED <<run, arg>>

\* The release function that Store.Promise returned, which the caller calls once.
ReleaseDropsAlways(g) ==                                      \* mutant
    /\ At(g, "hold")
    /\ prom' = [prom EXCEPT ![get[g].p].refs = @ - 1]
    /\ promises' = [promises EXCEPT ![get[g].key] = NoPromise]
    /\ get' = [get EXCEPT ![g] = Idle]
    /\ UNCHANGED <<run, arg>>

Release(g) ==
    /\ At(g, "hold")
    /\ LET p == get[g].p IN
       /\ prom' = [prom EXCEPT ![p].refs = @ - 1]
       /\ promises' = IF prom[p].refs = 1 /\ ~neverEvict
                      THEN [promises EXCEPT ![get[g].key] = NoPromise] ELSE promises
    /\ get' = [get EXCEPT ![g] = Idle]
    /\ UNCHANGED <<run, arg>>

\* Promise.Get with a cancelled context.  The caller has a reference to its argument
\* (in practice its snapshot) while it is in Get.
GetCancelled(g) ==
    /\ At(g, "hold")
    /\ get' = [get EXCEPT ![g].pc = "return", ![g].ret = Cancelled]
    /\ arg' = [arg EXCEPT ![g] = @ + 1]
    /\ UNCHANGED <<promises, prom, run>>

\* Get of a completed promise.
GetCompleted(g) ==
    /\ At(g, "hold") /\ prom[get[g].p].state = "completed"
    /\ get' = [get EXCEPT ![g].pc = "return", ![g].ret = prom[get[g].p].value]
    /\ arg' = [arg EXCEPT ![g] = @ + 1]
    /\ UNCHANGED <<promises, prom, run>>

\* Get of an idle promise starts a run, which acquires the argument.
Wait(g, r) == get' = [get EXCEPT ![g].pc = "wait", ![g].done = r]

GetBorrows(g) ==                                              \* mutant
    /\ At(g, "hold") /\ prom[get[g].p].state = "idle"
    /\ \E r \in Run :
          /\ FreshRun(r)
          /\ run' = [run EXCEPT ![r] = [NoRunning EXCEPT !.pc = "start", !.of = get[g].p,
                                                         !.arg = g]]
          /\ prom' = [prom EXCEPT ![get[g].p].state = "running", ![get[g].p].cur = r,
                                   ![get[g].p].waiters = @ + 1]
          /\ arg' = [arg EXCEPT ![g] = @ + 1]
          /\ Wait(g, r)
    /\ UNCHANGED promises

GetRun(g) ==
    /\ At(g, "hold") /\ prom[get[g].p].state = "idle"
    /\ \E r \in Run :
          /\ FreshRun(r)
          /\ run' = [run EXCEPT ![r] = [NoRunning EXCEPT !.pc = "start", !.of = get[g].p,
                                                         !.arg = g]]
          /\ prom' = [prom EXCEPT ![get[g].p].state = "running", ![get[g].p].cur = r,
                                   ![get[g].p].waiters = @ + 1]
          /\ arg' = [arg EXCEPT ![g] = @ + 2]
          /\ Wait(g, r)
    /\ UNCHANGED promises

\* Get of a running promise waits for the same run.
GetJoinUncounted(g) ==                                        \* mutant
    /\ At(g, "hold") /\ prom[get[g].p].state = "running"
    /\ arg' = [arg EXCEPT ![g] = @ + 1] /\ Wait(g, prom[get[g].p].cur)
    /\ UNCHANGED <<promises, prom, run>>

GetJoin(g) ==
    /\ At(g, "hold") /\ prom[get[g].p].state = "running"
    /\ prom' = [prom EXCEPT ![get[g].p].waiters = @ + 1]
    /\ arg' = [arg EXCEPT ![g] = @ + 1]
    /\ Wait(g, prom[get[g].p].cur)
    /\ UNCHANGED <<promises, run>>

\* The select of wait: the done channel is closed, or the context is cancelled,
\* which may happen at any time.
SelectDone(g) ==
    /\ At(g, "wait") /\ run[get[g].done].closed
    /\ Goto(g, "woken")
    /\ UNCHANGED <<promises, prom, run, arg>>

SelectCtx(g) ==
    /\ At(g, "wait")
    /\ Goto(g, "leave")
    /\ UNCHANGED <<promises, prom, run, arg>>

\* A woken caller returns the value, or nil if the promise is not completed.
Woken(g) ==
    /\ At(g, "woken")
    /\ LET p == prom[get[g].p] IN
       get' = [get EXCEPT ![g].pc = "return", ![g].done = NoRun,
                          ![g].ret = IF p.state = "completed" THEN p.value ELSE NoValue]
    /\ UNCHANGED <<promises, prom, run, arg>>

\* A cancelled caller is not a waiter any more; the last one cancels the run and
\* makes the promise idle.
LeaveKeepsRunning(g) ==                                       \* mutant
    /\ At(g, "leave")
    /\ LET p == get[g].p  last == prom[p].waiters = 1 /\ prom[p].state = "running" IN
       /\ prom' = [prom EXCEPT ![p].waiters = @ - 1]
       /\ run' = IF last THEN [run EXCEPT ![prom[p].cur].cancelled = TRUE] ELSE run
    /\ get' = [get EXCEPT ![g].pc = "return", ![g].done = NoRun, ![g].ret = Cancelled]
    /\ UNCHANGED <<promises, arg>>

Leave(g) ==
    /\ At(g, "leave")
    /\ LET p == get[g].p
           last == prom[p].waiters = 1 /\ prom[p].state = "running" IN
       IF last
       THEN /\ prom' = [prom EXCEPT ![p] = [@ EXCEPT !.waiters = 0, !.state = "idle",
                                                     !.cur = NoRun]]
            /\ run' = [run EXCEPT ![prom[p].cur] = [@ EXCEPT !.cancelled = TRUE,
                                                             !.closed = TRUE]]
       ELSE /\ prom' = [prom EXCEPT ![p].waiters = @ - 1]
            /\ UNCHANGED run
    /\ get' = [get EXCEPT ![g].pc = "return", ![g].done = NoRun, ![g].ret = Cancelled]
    /\ UNCHANGED <<promises, arg>>

\* Get has returned: the caller lets go of its argument.
Return(g) ==
    /\ At(g, "return")
    /\ get' = [get EXCEPT ![g].pc = "hold", ![g].ret = NoValue]
    /\ arg' = [arg EXCEPT ![g] = @ - 1]
    /\ UNCHANGED <<promises, prom, run>>

-----------------------------------------------------------------------------
\* The goroutine of a run ends and releases the argument.  Its done channel lives
\* as long as somebody waits on it.
End(r) == /\ arg' = [arg EXCEPT ![run[r].arg] = @ - 1]
          /\ run' = [run EXCEPT ![r].pc = "none", ![r].of = NoPromise, ![r].arg = NoRun,
                                ![r].value = NoValue]

\* It checks its context, ...
RunStart(r) ==
    /\ run[r].pc = "start"
    /\ \/ run[r].cancelled /\ End(r)
       \/ /\ ~run[r].cancelled
          /\ run' = [run EXCEPT ![r].pc = "function"] /\ UNCHANGED arg
    /\ UNCHANGED <<promises, prom, get>>

\* ... runs the function, whose result is spoiled if it noticed a cancellation, ...
RunFunction(r) ==
    /\ run[r].pc = "function"
    /\ \E v \in Value \union {Spoiled} :
          /\ v = Spoiled => run[r].cancelled
          /\ run' = [run EXCEPT ![r].pc = "check", ![r].value = v]
    /\ UNCHANGED <<promises, prom, arg, get>>

\* ... checks its context again, ...
RunCheckDropped(r) ==                                         \* mutant
    /\ run[r].pc = "check"
    /\ run' = [run EXCEPT ![r].pc = "publish"]
    /\ UNCHANGED <<promises, prom, arg, get>>

RunCheck(r) ==
    /\ run[r].pc = "check"
    /\ \/ run[r].cancelled /\ End(r)
       \/ /\ ~run[r].cancelled
          /\ run' = [run EXCEPT ![r].pc = "publish"] /\ UNCHANGED arg
    /\ UNCHANGED <<promises, prom, get>>

\* ... and completes the promise, if it is running: it may have been cancelled and
\* started again since the check, and then this run completes the later one.
PublishAnyway(r) ==                                           \* mutant
    /\ run[r].pc = "publish"
    /\ LET p == run[r].of  cur == prom[p].cur IN
       /\ prom' = [prom EXCEPT ![p].state = "completed", ![p].value = run[r].value]
       /\ arg' = [arg EXCEPT ![run[r].arg] = @ - 1]
       /\ run' = [x \in Run |->
              [(IF x = r THEN [NoRunning EXCEPT !.cancelled = run[r].cancelled,
                                                !.closed = run[r].closed] ELSE run[x])
               EXCEPT !.closed = @ \/ x = cur]]
    /\ UNCHANGED <<promises, get>>

Publish(r) ==
    /\ run[r].pc = "publish"
    /\ LET p == run[r].of  cur == prom[p].cur IN
       \/ prom[p].state # "running" /\ End(r) /\ UNCHANGED prom
       \/ /\ prom[p].state = "running"
          /\ prom' = [prom EXCEPT ![p].state = "completed", ![p].value = run[r].value]
          /\ arg' = [arg EXCEPT ![run[r].arg] = @ - 1]
          /\ run' = [x \in Run |->
                 [(IF x = r THEN [NoRunning EXCEPT !.cancelled = run[r].cancelled,
                                                   !.closed = run[r].closed] ELSE run[x])
                  EXCEPT !.closed = @ \/ x = cur]]
    /\ UNCHANGED <<promises, get>>

-----------------------------------------------------------------------------
Caller(g) == SelectDone(g) \/ Woken(g) \/ Leave(g) \/ Return(g)
Work(r) == RunStart(r) \/ RunFunction(r) \/ RunCheck(r) \/ Publish(r)

Next == \/ \E g \in Goroutine : \/ \E k \in Key : Hold(g, k)
                                \/ Release(g)
                                \/ GetCancelled(g) \/ GetCompleted(g) \/ GetRun(g) \/ GetJoin(g)
                                \/ SelectCtx(g) \/ Caller(g)
        \/ \E r \in Run : Work(r)

Spec == Init /\ [][Next]_vars

\* Goroutines run, and functions return.  Nobody need be cancelled.
Fairness == /\ \A g \in Goroutine : WF_vars(Caller(g))
            /\ \A r \in Run : WF_vars(Work(r))
FairSpec == Spec /\ Fairness

-----------------------------------------------------------------------------
Holders(p) == {g \in Goroutine : get[g].p = p}
Waiting(p) == {g \in Holders(p) : get[g].pc \in {"wait", "leave"}}

\* "if p.refcount > 0, then store.promises[key] == p" (memoize.go:302): all holders
\* of a key share one promise, which the store forgets with the last of them.
SharedWhileHeld ==
    /\ \A p \in Promise : prom[p].refs = Cardinality(Holders(p))
    /\ \A g \in Goroutine : get[g].p # NoPromise => promises[get[g].key] = get[g].p
    /\ \A k \in Key : ~neverEvict /\ promises[k] # NoPromise =>
          \E g \in Goroutine : get[g].key = k

\* While anybody waits for a promise its run is alive: cancellation by some callers
\* never takes the computation away from the others (memoize.go:229-236).
RunningWhileAwaited == \A p \in Promise :
    prom[p].state = "running" =>
        LET r == prom[p].cur IN
        /\ prom[p].waiters = Cardinality(Waiting(p)) /\ Waiting(p) # {}
        /\ ~run[r].cancelled /\ ~run[r].closed
        /\ run[r].of = p /\ run[r].pc # "none"
        /\ \A g \in Waiting(p) : get[g].done = r

\* Get returns the value of the promise, or its caller was cancelled: never the nil
\* of memoize.go:225, and never what a cancelled function left behind.
GetReturnsValue == \A g \in Goroutine : At(g, "return") =>
    \/ get[g].ret = Cancelled
    \/ get[g].ret = prom[get[g].p].value /\ get[g].ret \in Value

\* The argument of a function that runs is alive, also when the Get that passed it
\* has been cancelled and has returned (memoize.go:52-57).
ArgumentAlive == \A r \in Run :
    run[r].pc = "function" => arg[run[r].arg] > 0

\* "All calls to Promise.Get on a given promise return the same result"
\* (memoize.go:138): a completed promise keeps its value, whatever run arrives late.
CompletedForGood == [][\A p \in Promise :
    prom[p].state = "completed" /\ prom[p].refs > 0 /\ prom'[p].refs > 0 =>
        prom'[p].state = "completed" /\ prom'[p].value = prom[p].value]_vars

\* Every call of Get returns.
GetReturns == \A g \in Goroutine : At(g, "wait") ~> At(g, "return")
=============================================================================
