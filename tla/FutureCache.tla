----------------------------- MODULE FutureCache -----------------------------
(***************************************************************************)
(* futureCache.get of gopls/internal/cache/future.go: goroutines that ask  *)
(* for the same key share one computation, which any of them may abandon   *)
(* (its context is cancelled) and another one must then take over.         *)
(*                                                                         *)
(* A future is a heap object: Future is a pool of identities, and an       *)
(* identity is reused once neither the cache nor a call refers to it.  The *)
(* 1-buffered channel f.acquire is the boolean token[f] (a unit is in the  *)
(* buffer); f.done is the boolean closed[f].                               *)
(***************************************************************************)
EXTENDS Naturals, FiniteSets

CONSTANTS Goroutine, Key, Value, Future,
          persistent,                     \* the keys of persistent caches (futureCache.persistent)
          NoFuture, NoValue, NoKey, Cancelled

ASSUME FiniteAssumption == IsFiniteSet(Goroutine)
ASSUME ConstantAssumption ==
    /\ persistent \subseteq Key
    /\ NoFuture \notin Future
    /\ NoKey \notin Key
    /\ NoValue \notin Value
    /\ Cancelled \notin Value
    /\ NoValue # Cancelled

VARIABLES cache,    \* cache[k]: the future under k, or NoFuture
          refs,     \* future.refs
          token,    \* a unit is buffered in future.acquire
          closed,   \* future.done is closed
          val,      \* future.v and future.err
          pc,       \* where each goroutine is in get
          key, fut, \* get's k and f
          ctxDone,  \* the call's context is cancelled
          ret       \* what compute returned, then what get will return

vars == <<cache, refs, token, closed, val, pc, key, fut, ctxDone, ret>>
futureVars == <<refs, token, closed, val>>

PCs == {"idle", "select", "compute", "check", "close", "leave"}

TypeOK ==
    /\ cache \in [Key -> Future \union {NoFuture}]
    /\ refs \in [Future -> Nat]
    /\ token \in [Future -> BOOLEAN]
    /\ closed \in [Future -> BOOLEAN]
    /\ val \in [Future -> Value \union {NoValue}]
    /\ pc \in [Goroutine -> PCs]
    /\ key \in [Goroutine -> Key \union {NoKey}]
    /\ fut \in [Goroutine -> Future \union {NoFuture}]
    /\ ctxDone \in [Goroutine -> BOOLEAN]
    /\ ret \in [Goroutine -> Value \union {NoValue, Cancelled}]

Init ==
    /\ cache = [k \in Key |-> NoFuture]
    /\ refs = [f \in Future |-> 0]
    /\ token = [f \in Future |-> FALSE]
    /\ closed = [f \in Future |-> FALSE]
    /\ val = [f \in Future |-> NoValue]
    /\ pc = [g \in Goroutine |-> "idle"]
    /\ key = [g \in Goroutine |-> NoKey]
    /\ fut = [g \in Goroutine |-> NoFuture]
    /\ ctxDone = [g \in Goroutine |-> FALSE]
    /\ ret = [g \in Goroutine |-> NoValue]

Unreachable(f) == /\ \A k \in Key : cache[k] # f
                  /\ \A g \in Goroutine : fut[g] # f

-----------------------------------------------------------------------------
Goto(g, l) == pc' = [pc EXCEPT ![g] = l]

\* (Mutant of Enter: a caller that finds a future forgets to reference it.)
EnterWithoutRef(g, k) ==
    /\ pc[g] = "idle"
    /\ key' = [key EXCEPT ![g] = k]
    /\ Goto(g, "select")
    /\ \E f \in Future :
          /\ IF cache[k] = NoFuture THEN Unreachable(f) ELSE f = cache[k]
          /\ cache' = [cache EXCEPT ![k] = f]
          /\ fut' = [fut EXCEPT ![g] = f]
          /\ IF cache[k] # NoFuture
             THEN UNCHANGED futureVars
             ELSE /\ refs' = [refs EXCEPT ![f] = 1]
                  /\ token' = [token EXCEPT ![f] = TRUE]
                  /\ closed' = [closed EXCEPT ![f] = FALSE]
                  /\ val' = [val EXCEPT ![f] = NoValue]
    /\ UNCHANGED <<ctxDone, ret>>

\* The part of get under mu: find k's future, or make one, and reference it.
Enter(g, k) ==
    /\ pc[g] = "idle"
    /\ key' = [key EXCEPT ![g] = k]
    /\ Goto(g, "select")
    /\ \/ /\ cache[k] # NoFuture
          /\ fut' = [fut EXCEPT ![g] = cache[k]]
          /\ refs' = [refs EXCEPT ![cache[k]] = @ + 1]
          /\ UNCHANGED <<cache, token, closed, val>>
       \/ /\ cache[k] = NoFuture
          /\ \E f \in Future :
                /\ Unreachable(f)
                /\ cache' = [cache EXCEPT ![k] = f]
                /\ fut' = [fut EXCEPT ![g] = f]
                /\ refs' = [refs EXCEPT ![f] = 1]
                /\ token' = [token EXCEPT ![f] = TRUE]
                /\ closed' = [closed EXCEPT ![f] = FALSE]
                /\ val' = [val EXCEPT ![f] = NoValue]
    /\ UNCHANGED <<ctxDone, ret>>

\* The caller's context is cancelled, at any moment of the call.
CancelCtx(g) ==
    /\ pc[g] # "idle" /\ ~ctxDone[g]
    /\ ctxDone' = [ctxDone EXCEPT ![g] = TRUE]
    /\ UNCHANGED <<cache, futureVars, pc, key, fut, ret>>

\* The three cases of the select; Go takes any that is ready.
SelectCtx(g) ==
    /\ pc[g] = "select" /\ ctxDone[g]
    /\ Goto(g, "leave")
    /\ ret' = [ret EXCEPT ![g] = Cancelled]
    /\ UNCHANGED <<cache, futureVars, key, fut, ctxDone>>

SelectDone(g) ==
    /\ pc[g] = "select" /\ closed[fut[g]]
    /\ Goto(g, "leave")
    /\ ret' = [ret EXCEPT ![g] = val[fut[g]]]
    /\ UNCHANGED <<cache, futureVars, key, fut, ctxDone>>

SelectAcquire(g) ==
    /\ pc[g] = "select" /\ token[fut[g]]
    /\ Goto(g, "compute")
    /\ token' = [token EXCEPT ![fut[g]] = FALSE]
    /\ UNCHANGED <<cache, refs, closed, val, key, fut, ctxDone, ret>>

\* compute(ctx) returns some value or error.
Compute(g) ==
    /\ pc[g] = "compute"
    /\ Goto(g, "check")
    /\ \E v \in Value : ret' = [ret EXCEPT ![g] = v]
    /\ UNCHANGED <<cache, futureVars, key, fut, ctxDone>>

\* (Mutants of HandOff: the unit is lost; done is closed without a value.)
HandOffLosesUnit(g) ==
    /\ pc[g] = "check" /\ ctxDone[g]
    /\ Goto(g, "leave")
    /\ ret' = [ret EXCEPT ![g] = Cancelled]
    /\ UNCHANGED <<cache, futureVars, key, fut, ctxDone>>

HandOffClosesDone(g) ==
    /\ pc[g] = "check" /\ ctxDone[g]
    /\ Goto(g, "leave")
    /\ closed' = [closed EXCEPT ![fut[g]] = TRUE]
    /\ ret' = [ret EXCEPT ![g] = Cancelled]
    /\ UNCHANGED <<cache, refs, token, val, key, fut, ctxDone>>

\* ctx.Err() is not nil: the result is dropped and the unit handed on (the
\* send would block on a full buffer).
HandOff(g) ==
    /\ pc[g] = "check" /\ ctxDone[g] /\ ~token[fut[g]]
    /\ Goto(g, "leave")
    /\ token' = [token EXCEPT ![fut[g]] = TRUE]
    /\ ret' = [ret EXCEPT ![g] = Cancelled]
    /\ UNCHANGED <<cache, refs, closed, val, key, fut, ctxDone>>

\* ctx.Err() is nil: the result is stored, then announced.
Store(g) ==
    /\ pc[g] = "check" /\ ~ctxDone[g]
    /\ Goto(g, "close")
    /\ val' = [val EXCEPT ![fut[g]] = ret[g]]
    /\ UNCHANGED <<cache, refs, token, closed, key, fut, ctxDone, ret>>

CloseDone(g) ==
    /\ pc[g] = "close"
    /\ Goto(g, "leave")
    /\ closed' = [closed EXCEPT ![fut[g]] = TRUE]
    /\ UNCHANGED <<cache, refs, token, val, key, fut, ctxDone, ret>>

\* The deferred function, under mu, and the return; drop is the condition under
\* which the key is deleted.
LeaveIf(g, drop) ==
    /\ pc[g] = "leave"
    /\ Goto(g, "idle")
    /\ refs' = [refs EXCEPT ![fut[g]] = @ - 1]
    /\ cache' = [cache EXCEPT ![key[g]] = IF drop THEN NoFuture ELSE @]
    /\ key' = [key EXCEPT ![g] = NoKey]
    /\ fut' = [fut EXCEPT ![g] = NoFuture]
    /\ ctxDone' = [ctxDone EXCEPT ![g] = FALSE]
    /\ ret' = [ret EXCEPT ![g] = NoValue]
    /\ UNCHANGED <<token, closed, val>>

\* (Mutants of Leave: the key is deleted with the first caller, or in a
\* persistent cache too.)
LeaveDropsAlways(g) == LeaveIf(g, key[g] \notin persistent)
LeaveDropsPersistent(g) == LeaveIf(g, refs[fut[g]] = 1)

Leave(g) == LeaveIf(g, refs[fut[g]] = 1 /\ key[g] \notin persistent)

Step(g) == \/ SelectCtx(g) \/ SelectDone(g) \/ SelectAcquire(g)
           \/ Compute(g) \/ HandOff(g) \/ Store(g) \/ CloseDone(g) \/ Leave(g)

Next == \E g \in Goroutine : \/ \E k \in Key : Enter(g, k)
                             \/ CancelCtx(g)
                             \/ Step(g)

Spec == Init /\ [][Next]_vars

\* Goroutines run, and computations return.  The Go channel queues the
\* receivers parked on f.acquire in arrival order, so a unit that keeps coming
\* back reaches every one of them.
Fairness == \A g \in Goroutine : WF_vars(Step(g)) /\ SF_vars(SelectAcquire(g))
FairSpec == Spec /\ Fairness

-----------------------------------------------------------------------------
Holders(f) == {g \in Goroutine : fut[g] = f}
Workers(f) == {g \in Goroutine : fut[g] = f /\ pc[g] \in {"compute", "check", "close"}}
Live == {f \in Future : ~Unreachable(f)}

\* A future's unit is in exactly one place: buffered, or with the one goroutine
\* that computes, or gone because done is closed.  Breaking it means two
\* computations of a package at once, a send on a full acquire channel, a
\* second close of done, or waiters nobody will ever serve (future.go:112-134).
TokenConserved ==
    \A f \in Live :
        /\ \A g, h \in Workers(f) : g = h
        /\ token[f] => Workers(f) = {} /\ ~closed[f]
        /\ closed[f] => Workers(f) = {}
        /\ ~token[f] /\ ~closed[f] => Workers(f) # {}

\* refs counts the calls that hold the future, and a future some call holds is
\* the one the cache gives out: later callers of the key join it rather than
\* start a computation of their own (future.go:105-115).
RefsCountHolders == \A f \in Future : refs[f] = Cardinality(Holders(f))
HeldIsCached == \A g \in Goroutine : pc[g] # "idle" => cache[key[g]] = fut[g]

\* A transient cache keeps no future that nobody awaits (future.go:112-114):
\* the batch's syntax packages do not pile up in memory.
TransientForgets ==
    \A k \in Key \ persistent : cache[k] # NoFuture =>
        \E g \in Goroutine : pc[g] # "idle" /\ key[g] = k
EntriesExact == RefsCountHolders /\ HeldIsCached /\ TransientForgets

\* In a persistent cache a key is decided once: after done is closed the key
\* keeps its future, value included, and nobody computes it again ("the results
\* of the computation are preserved for the lifetime of the cache",
\* future.go:24-25).
Decided(k) == cache[k] # NoFuture /\ closed[cache[k]]
KeepsDecision(k) ==
    /\ Decided(k)'
    /\ (val[cache[k]])' = val[cache[k]]
    /\ \A g \in Goroutine : key[g] = k /\ pc[g] # "compute" => pc'[g] # "compute"
PersistentOnce == [][\A k \in persistent : Decided(k) => KeepsDecision(k)]_vars

\* A call returns a value only if it is the one stored in its future: callers
\* that met in one future agree, whoever computed it and however often the work
\* changed hands (future.go:122, 132-135).
ReturnsRoundValue ==
    \A g \in Goroutine : pc[g] = "leave" /\ ret[g] # Cancelled =>
        closed[fut[g]] /\ val[fut[g]] = ret[g] /\ ret[g] # NoValue

\* A future waits for its unit only as long as somebody works: every call of get
\* returns, also when the goroutine it was waiting for is cancelled and hands
\* the work on (future.go:81-85).
CallsReturn == \A g \in Goroutine : pc[g] = "select" ~> pc[g] = "idle"

\* futureCache implements single flight with hand-over.
Round(k) == {g \in Goroutine : key[g] = k}
Worker(k) == {g \in Round(k) : pc[g] \in {"compute", "check", "close"}}
RoundValue(k) == IF Decided(k) THEN val[cache[k]] ELSE NoValue
Leaving(g) == IF pc[g] = "leave" THEN ret[g] ELSE NoValue

SF == INSTANCE SingleFlight WITH
        round <- [k \in Key |-> Round(k)],
        worker <- [k \in Key |-> Worker(k)],
        value <- [k \in Key |-> RoundValue(k)],
        leaving <- [g \in Goroutine |-> Leaving(g)]

\* Every behaviour of futureCache.get is one of SingleFlight: at most one
\* goroutine computes a key, a round has one value, cancellation never loses it
\* (future.go:79-93).
ImplementsSingleFlight == SF!Spec
=============================================================================
