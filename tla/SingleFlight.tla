---------------------------- MODULE SingleFlight ----------------------------
(***************************************************************************)
(* What futureCache.get (gopls/internal/cache/future.go) promises to the   *)
(* goroutines of a type-checking batch, with futures, tokens, channels and *)
(* reference counts left out: the calls that ask for a key at the same     *)
(* time form a round; a round has at most one worker at any moment and at  *)
(* most one value ever; a call leaves its round with that value or because *)
(* its own context was cancelled.  A persistent cache keeps a round's      *)
(* value for ever, a transient one forgets it with the last caller.        *)
(***************************************************************************)
CONSTANTS Goroutine,   \* the goroutines that call get
          Key,
          Value,       \* what a computation may return: a value, or an error
          persistent,  \* the keys whose cache is persistent (futureCache.persistent)
          NoValue,     \* no value yet
          Cancelled    \* the outcome of a call whose context was cancelled

VARIABLES round,    \* round[k]: the callers of get(k) that have not returned
          worker,   \* worker[k]: those of them that are computing
          value,    \* value[k]: the value of k's round
          leaving   \* leaving[g]: what g's call will return, once decided

vars == <<round, worker, value, leaving>>

Idle(g) == \A k \in Key : g \notin round[k]

Init == /\ round = [k \in Key |-> {}]
        /\ worker = [k \in Key |-> {}]
        /\ value = [k \in Key |-> NoValue]
        /\ leaving = [g \in Goroutine |-> NoValue]

\* A call joins the round of its key.
Join(g, k) ==
    /\ Idle(g)
    /\ round' = [round EXCEPT ![k] = @ \union {g}]
    /\ UNCHANGED <<worker, value, leaving>>

\* One caller of a round without a value becomes its only worker.
Work(g, k) ==
    /\ g \in round[k] /\ leaving[g] = NoValue
    /\ worker[k] = {} /\ value[k] = NoValue
    /\ worker' = [worker EXCEPT ![k] = {g}]
    /\ UNCHANGED <<round, value, leaving>>

\* The worker gives up: its context was cancelled, and the others go on.
Abandon(g, k) ==
    /\ worker[k] = {g}
    /\ worker' = [worker EXCEPT ![k] = {}]
    /\ leaving' = [leaving EXCEPT ![g] = Cancelled]
    /\ UNCHANGED <<round, value>>

\* The worker decides the round's value and returns it.
Decide(g, k, v) ==
    /\ worker[k] = {g} /\ value[k] = NoValue
    /\ worker' = [worker EXCEPT ![k] = {}]
    /\ value' = [value EXCEPT ![k] = v]
    /\ leaving' = [leaving EXCEPT ![g] = v]
    /\ UNCHANGED round

\* Another caller takes the round's value, or stops waiting for it.
Take(g, k) ==
    /\ g \in round[k] \ worker[k] /\ leaving[g] = NoValue
    /\ value[k] # NoValue
    /\ leaving' = [leaving EXCEPT ![g] = value[k]]
    /\ UNCHANGED <<round, worker, value>>

GiveUp(g, k) ==
    /\ g \in round[k] \ worker[k] /\ leaving[g] = NoValue
    /\ leaving' = [leaving EXCEPT ![g] = Cancelled]
    /\ UNCHANGED <<round, worker, value>>

\* The call returns; the last one of a transient round ends it.
Leave(g, k) ==
    /\ g \in round[k] /\ leaving[g] # NoValue
    /\ round' = [round EXCEPT ![k] = @ \ {g}]
    /\ value' = [value EXCEPT ![k] = IF round[k] = {g} /\ k \notin persistent
                                     THEN NoValue ELSE @]
    /\ leaving' = [leaving EXCEPT ![g] = NoValue]
    /\ UNCHANGED worker

Next == \E g \in Goroutine, k \in Key :
            \/ Join(g, k) \/ Work(g, k) \/ Abandon(g, k)
            \/ Take(g, k) \/ GiveUp(g, k) \/ Leave(g, k)
            \/ \E v \in Value : Decide(g, k, v)

Spec == Init /\ [][Next]_vars
=============================================================================
