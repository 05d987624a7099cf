-------------------------- MODULE FutureCacheProofs --------------------------
(***************************************************************************)
(* Proofs about FutureCache for every set of goroutines, keys, values and  *)
(* futures.  The inductive invariant IInv adds to the properties the link  *)
(* between program counters and the calls' variables (Calls), the fact     *)
(* that two keys never share a future (Injective), and what ret holds at   *)
(* each program counter (Results).                                         *)
(***************************************************************************)
EXTENDS FutureCache, TLAPS, FiniteSetTheorems

\* An idle goroutine holds nothing; a call in progress holds a key and a future.
Calls == \A g \in Goroutine :
            /\ pc[g] = "idle" => key[g] = NoKey /\ fut[g] = NoFuture
            /\ pc[g] # "idle" => key[g] \in Key /\ fut[g] \in Future

\* Two keys never share a future.
Injective == \A k, l \in Key : cache[k] = cache[l] /\ cache[k] # NoFuture => k = l

\* What ret and val hold on the way to a decided future.
Results == /\ \A g \in Goroutine :
                /\ pc[g] \in {"check", "close"} => ret[g] \in Value
                /\ pc[g] = "close" => val[fut[g]] = ret[g]
           /\ \A f \in Live : closed[f] => val[f] \in Value

IInv == /\ TypeOK /\ Calls /\ Injective /\ Results /\ HeldIsCached
        /\ RefsCountHolders /\ TokenConserved /\ ReturnsRoundValue
        /\ TransientForgets

-----------------------------------------------------------------------------
LEMMA InitIInv == Init => IInv
<1> SUFFICES ASSUME Init PROVE IInv
  OBVIOUS
<1> USE ConstantAssumption DEF Init
<1>1. TypeOK
  BY DEF TypeOK, PCs
<1>2. Live = {}
  BY DEF Live, Unreachable
<1>3. RefsCountHolders
  <2>1. \A f \in Future : Holders(f) = {}
    BY DEF Holders
  <2> QED
    BY <2>1, FS_EmptySet DEF RefsCountHolders
<1>4. Calls /\ Injective /\ HeldIsCached /\ ReturnsRoundValue /\ TransientForgets
  BY DEF Calls, Injective, HeldIsCached, ReturnsRoundValue, TransientForgets
<1>5. Results /\ TokenConserved
  BY <1>2 DEF Results, TokenConserved
<1> QED
  BY <1>1, <1>3, <1>4, <1>5 DEF IInv

\* refs and the set of holders move together.
LEMMA HoldersCount ==
  ASSUME IInv, NEW f \in Future
  PROVE  /\ IsFiniteSet(Holders(f))
         /\ refs[f] = Cardinality(Holders(f))
         /\ \A g \in Holders(f) : refs[f] = 1 => Holders(f) = {g}
         /\ \A g \in Holders(f) : Cardinality(Holders(f) \ {g}) = refs[f] - 1
         /\ \A g \in Goroutine \ Holders(f) :
               Cardinality(Holders(f) \union {g}) = refs[f] + 1
<1>1. IsFiniteSet(Holders(f))
  BY FiniteAssumption, FS_Subset DEF Holders
<1>2. refs[f] = Cardinality(Holders(f))
  BY DEF IInv, RefsCountHolders
<1>3. \A g \in Holders(f) : Cardinality(Holders(f) \ {g}) = refs[f] - 1
  BY <1>1, <1>2, FS_RemoveElement
<1>4. \A g \in Goroutine \ Holders(f) : Cardinality(Holders(f) \union {g}) = refs[f] + 1
  BY <1>1, <1>2, FS_AddElement
<1>5. ASSUME NEW g \in Holders(f), refs[f] = 1 PROVE Holders(f) = {g}
  <2>1. PICK h : Holders(f) = {h}
    BY <1>1, <1>2, <1>5, FS_Singleton
  <2> QED
    BY <2>1, <1>5
<1> QED
  BY <1>1, <1>2, <1>3, <1>4, <1>5

LEMMA EnterIInv ==
  ASSUME IInv, NEW g \in Goroutine, NEW k \in Key, Enter(g, k)
  PROVE  IInv'
<1> USE ConstantAssumption
<1> USE DEF IInv, TypeOK, Calls
<1>1. CASE cache[k] # NoFuture
  <2> DEFINE F == cache[k]
  <2>1. /\ F \in Future /\ fut' = [fut EXCEPT ![g] = F]
        /\ refs' = [refs EXCEPT ![F] = @ + 1]
        /\ UNCHANGED <<cache, token, closed, val, ctxDone, ret>>
        /\ key' = [key EXCEPT ![g] = k] /\ pc' = [pc EXCEPT ![g] = "select"]
        /\ pc[g] = "idle" /\ fut[g] = NoFuture
    BY <1>1 DEF Enter, Goto
  <2> HIDE DEF F
  <2>2. TypeOK'
    BY <2>1 DEF PCs
  <2>3. Calls' /\ Injective'
    BY <2>1 DEF Injective
  <2>4. \A f \in Future : Workers(f)' = Workers(f)
    BY <2>1 DEF Workers
  <2>5. Live' = Live
    BY <2>1, <1>1 DEF Live, Unreachable, F
  <2>6. TokenConserved'
    BY <2>1, <2>4, <2>5 DEF TokenConserved, Live
  <2>7. Results'
    BY <2>1, <2>5 DEF Results
  <2>8. HeldIsCached' /\ ReturnsRoundValue'
    BY <2>1 DEF HeldIsCached, ReturnsRoundValue, F
  <2>9. RefsCountHolders'
    <3> SUFFICES ASSUME NEW f \in Future PROVE refs'[f] = Cardinality(Holders(f)')
      BY DEF RefsCountHolders
    <3>1. Holders(f)' = IF f = F THEN Holders(f) \union {g} ELSE Holders(f)
      BY <2>1 DEF Holders
    <3>2. g \in Goroutine \ Holders(f)
      BY <2>1 DEF Holders
    <3> QED
      BY <2>1, <3>1, <3>2, HoldersCount
  <2>10. TransientForgets'
    BY <2>1 DEF TransientForgets
  <2> QED
    BY <2>2, <2>3, <2>6, <2>7, <2>8, <2>9, <2>10
<1>2. CASE cache[k] = NoFuture
  <2>1. PICK F \in Future :
        /\ Unreachable(F)
        /\ cache' = [cache EXCEPT ![k] = F]
        /\ fut' = [fut EXCEPT ![g] = F]
        /\ refs' = [refs EXCEPT ![F] = 1]
        /\ token' = [token EXCEPT ![F] = TRUE]
        /\ closed' = [closed EXCEPT ![F] = FALSE]
        /\ val' = [val EXCEPT ![F] = NoValue]
    BY <1>2 DEF Enter
  <2>2. /\ UNCHANGED <<ctxDone, ret>>
        /\ key' = [key EXCEPT ![g] = k] /\ pc' = [pc EXCEPT ![g] = "select"]
        /\ pc[g] = "idle" /\ fut[g] = NoFuture
    BY DEF Enter, Goto
  <2>3. TypeOK'
    BY <2>1, <2>2 DEF PCs
  <2>4. Calls' /\ Injective'
    BY <2>1, <2>2 DEF Injective, Unreachable
  <2>5. \A f \in Future : Workers(f)' = IF f = F THEN {} ELSE Workers(f)
    BY <2>1, <2>2 DEF Workers, Unreachable
  <2>6. Live' = Live \union {F} /\ F \notin Live
    BY <2>1, <2>2, <1>2 DEF Live, Unreachable
  <2>7. TokenConserved'
    BY <2>1, <2>5, <2>6 DEF TokenConserved, Live
  <2>8. Results'
    BY <2>1, <2>2, <2>6 DEF Results, Live, Unreachable
  <2>9. HeldIsCached' /\ ReturnsRoundValue'
    BY <2>1, <2>2, <1>2 DEF HeldIsCached, ReturnsRoundValue, Unreachable
  <2>10. RefsCountHolders'
    <3> SUFFICES ASSUME NEW f \in Future PROVE refs'[f] = Cardinality(Holders(f)')
      BY DEF RefsCountHolders
    <3>1. CASE f = F
      <4>1. Holders(f)' = {g}
        BY <2>1, <2>2, <3>1 DEF Holders, Unreachable
      <4> QED
        BY <2>1, <3>1, <4>1, FS_Singleton
    <3>2. CASE f # F
      <4>1. Holders(f)' = Holders(f)
        BY <2>1, <2>2, <3>2 DEF Holders
      <4> QED
        BY <2>1, <3>2, <4>1, HoldersCount
    <3> QED
      BY <3>1, <3>2
  <2>11. TransientForgets'
    BY <2>1, <2>2 DEF TransientForgets
  <2> QED
    BY <2>3, <2>4, <2>7, <2>8, <2>9, <2>10, <2>11
<1> QED
  BY <1>1, <1>2

\* The steps of get between its two critical sections leave the cache, the
\* reference counts and the calls' variables alone.
Frame == UNCHANGED <<cache, refs, key, fut>>

LEMMA FrameFacts ==
  ASSUME IInv, Frame, NEW g \in Goroutine, pc[g] # "idle",
         NEW l \in PCs \ {"idle"}, pc' = [pc EXCEPT ![g] = l]
  PROVE  /\ Live' = Live /\ fut[g] \in Live
         /\ Calls' /\ Injective' /\ HeldIsCached' /\ RefsCountHolders'
         /\ TransientForgets'
         /\ \A f \in Future : Workers(f)' =
              IF f # fut[g] THEN Workers(f)
              ELSE IF l \in {"compute", "check", "close"} THEN Workers(f) \union {g}
              ELSE Workers(f) \ {g}
<1> USE DEF IInv, TypeOK, Calls, Frame
<1>1. Live' = Live /\ fut[g] \in Live
  BY DEF Live, Unreachable
<1>2. Calls' /\ Injective' /\ HeldIsCached' /\ TransientForgets'
  BY DEF Injective, HeldIsCached, TransientForgets, PCs
<1>3. RefsCountHolders'
  <2>1. \A f \in Future : Holders(f)' = Holders(f)
    BY DEF Holders
  <2> QED
    BY <2>1 DEF RefsCountHolders
<1>4. ASSUME NEW f \in Future
      PROVE  Workers(f)' =
              IF f # fut[g] THEN Workers(f)
              ELSE IF l \in {"compute", "check", "close"} THEN Workers(f) \union {g}
              ELSE Workers(f) \ {g}
  <2>1. CASE f # fut[g]
    BY <2>1 DEF Workers
  <2>2. CASE f = fut[g] /\ l \in {"compute", "check", "close"}
    BY <2>2 DEF Workers
  <2>3. CASE f = fut[g] /\ l \notin {"compute", "check", "close"}
    BY <2>3 DEF Workers
  <2> QED
    BY <2>1, <2>2, <2>3
<1> QED
  BY <1>1, <1>2, <1>3, <1>4

LEMMA StepIInv ==
  ASSUME IInv, NEW g \in Goroutine, Step(g), ~Leave(g)
  PROVE  IInv'
<1> USE ConstantAssumption
<1> USE DEF IInv, TypeOK, futureVars, Goto
<1> DEFINE F == fut[g]
<1>1. CASE SelectCtx(g)
  <2>1. Frame /\ pc[g] # "idle" /\ pc' = [pc EXCEPT ![g] = "leave"]
        /\ UNCHANGED <<token, closed, val>> /\ ret' = [ret EXCEPT ![g] = Cancelled]
    BY <1>1 DEF SelectCtx, Frame
  <2>9. Live' = Live /\ Live \subseteq Future
    BY <2>1, FrameFacts DEF PCs, Live
  <2>2. TypeOK'
    BY <1>1, <2>1 DEF SelectCtx, PCs
  <2>3. \A f \in Future : Workers(f)' = Workers(f)
    BY <1>1 DEF SelectCtx, Workers
  <2>4. Results' /\ TokenConserved' /\ ReturnsRoundValue'
    BY <2>1, <2>3, <2>9 DEF Results, TokenConserved, ReturnsRoundValue, Frame
  <2> QED
    BY <2>1, <2>2, <2>4, FrameFacts DEF PCs
<1>2. CASE SelectDone(g)
  <2>1. Frame /\ pc[g] # "idle" /\ pc' = [pc EXCEPT ![g] = "leave"]
        /\ UNCHANGED <<token, closed, val>> /\ ret' = [ret EXCEPT ![g] = val[F]]
        /\ closed[F] /\ F \in Live /\ F \in Future
    BY <1>2, FrameFacts DEF SelectDone, Frame, PCs, Calls
  <2>9. Live' = Live /\ Live \subseteq Future
    BY <2>1, FrameFacts DEF PCs, Live
  <2>2. TypeOK' /\ val[F] \in Value
    BY <1>2, <2>1 DEF SelectDone, PCs, Results
  <2>3. \A f \in Future : Workers(f)' = Workers(f)
    BY <1>2 DEF SelectDone, Workers
  <2>4. Results' /\ TokenConserved' /\ ReturnsRoundValue'
    BY <2>1, <2>2, <2>3, <2>9 DEF Results, TokenConserved, ReturnsRoundValue, Frame
  <2> QED
    BY <2>1, <2>2, <2>4, FrameFacts DEF PCs
<1>3. CASE SelectAcquire(g)
  <2>1. Frame /\ pc[g] = "select" /\ pc' = [pc EXCEPT ![g] = "compute"]
        /\ UNCHANGED <<closed, val, ret>> /\ token' = [token EXCEPT ![F] = FALSE]
        /\ token[F] /\ F \in Future /\ F \in Live
    BY <1>3, FrameFacts DEF SelectAcquire, Frame, Calls, PCs
  <2>9. Live' = Live /\ Live \subseteq Future
    BY <2>1, FrameFacts DEF PCs, Live
  <2>2. TypeOK'
    BY <1>3, <2>1 DEF SelectAcquire, PCs
  <2>3. Results' /\ ReturnsRoundValue'
    BY <2>1, <2>9 DEF Results, ReturnsRoundValue, Frame
  <2>4. \A f \in Future : Workers(f)' = IF f = F THEN Workers(f) \union {g} ELSE Workers(f)
    BY <2>1, FrameFacts DEF PCs
  <2>5. ~closed[F] /\ \A f \in Future : Workers(f)' = IF f = F THEN {g} ELSE Workers(f)
    BY <2>1, <2>4 DEF TokenConserved
  <2>6. TokenConserved'
    <3> SUFFICES ASSUME NEW f \in Live
                 PROVE  /\ \A h, i \in Workers(f)' : h = i
                        /\ token'[f] => Workers(f)' = {} /\ ~closed'[f]
                        /\ closed'[f] => Workers(f)' = {}
                        /\ ~token'[f] /\ ~closed'[f] => Workers(f)' # {}
      BY <2>9 DEF TokenConserved
    <3>1. CASE f = F
      BY <2>1, <2>5, <3>1
    <3>2. CASE f # F
      BY <2>1, <2>5, <2>9, <3>2 DEF TokenConserved
    <3> QED
      BY <3>1, <3>2
  <2> QED
    BY <2>1, <2>2, <2>3, <2>6, FrameFacts DEF PCs
<1>4. CASE Compute(g)
  <2>1. PICK v \in Value : ret' = [ret EXCEPT ![g] = v]
    BY <1>4 DEF Compute
  <2>2. Frame /\ pc[g] = "compute" /\ pc' = [pc EXCEPT ![g] = "check"]
        /\ UNCHANGED <<token, closed, val>>
    BY <1>4 DEF Compute, Frame
  <2>9. Live' = Live /\ Live \subseteq Future
    BY <2>2, FrameFacts DEF PCs, Live
  <2>3. TypeOK'
    BY <1>4, <2>1, <2>2 DEF Compute, PCs
  <2>4. \A f \in Future : Workers(f)' = Workers(f)
    BY <2>2 DEF Workers, Frame
  <2>5. Results'
    BY <2>1, <2>2, <2>9 DEF Results, Frame
  <2>6. TokenConserved'
    BY <2>2, <2>4, <2>9 DEF TokenConserved
  <2>7. ReturnsRoundValue'
    BY <2>1, <2>2 DEF ReturnsRoundValue, Frame
  <2> QED
    BY <2>2, <2>3, <2>5, <2>6, <2>7, FrameFacts DEF PCs
<1>5. CASE HandOff(g)
  <2>1. Frame /\ pc[g] = "check" /\ pc' = [pc EXCEPT ![g] = "leave"]
        /\ UNCHANGED <<closed, val>> /\ token' = [token EXCEPT ![F] = TRUE]
        /\ ret' = [ret EXCEPT ![g] = Cancelled] /\ F \in Future /\ F \in Live
    BY <1>5, FrameFacts DEF HandOff, Frame, Calls, PCs
  <2>9. Live' = Live /\ Live \subseteq Future
    BY <2>1, FrameFacts DEF PCs, Live
  <2>2. TypeOK'
    BY <1>5, <2>1 DEF HandOff, PCs
  <2>3. Results' /\ ReturnsRoundValue'
    BY <2>1, <2>9 DEF Results, ReturnsRoundValue, Frame
  <2>4. \A f \in Future : Workers(f)' = IF f = F THEN Workers(f) \ {g} ELSE Workers(f)
    BY <2>1, FrameFacts DEF PCs
  <2>5. g \in Workers(F)
    BY <2>1 DEF Workers
  <2>6. TokenConserved'
    BY <2>1, <2>4, <2>5, <2>9 DEF TokenConserved
  <2> QED
    BY <2>1, <2>2, <2>3, <2>6, FrameFacts DEF PCs
<1>6. CASE Store(g)
  <2>1. Frame /\ pc[g] = "check" /\ pc' = [pc EXCEPT ![g] = "close"]
        /\ UNCHANGED <<token, closed, ret>> /\ val' = [val EXCEPT ![F] = ret[g]]
        /\ F \in Future /\ F \in Live /\ ret[g] \in Value
    BY <1>6, FrameFacts DEF Store, Frame, Calls, PCs, Results
  <2>9. Live' = Live /\ Live \subseteq Future
    BY <2>1, FrameFacts DEF PCs, Live
  <2>2. TypeOK'
    BY <1>6, <2>1 DEF Store, PCs
  <2>3. \A f \in Future : Workers(f)' = Workers(f)
    BY <2>1 DEF Workers, Frame
  <2>4. g \in Workers(F) /\ ~closed[F]
    BY <2>1 DEF Workers, TokenConserved
  <2>5. TokenConserved'
    BY <2>1, <2>3, <2>9 DEF TokenConserved
  <2>6. \A h \in Goroutine : pc[h] = "close" => fut[h] # F
    BY <2>1, <2>4 DEF TokenConserved, Workers
  <2>7. Results' /\ ReturnsRoundValue'
    BY <2>1, <2>4, <2>6, <2>9 DEF Results, ReturnsRoundValue, Frame
  <2> QED
    BY <2>1, <2>2, <2>5, <2>7, FrameFacts DEF PCs
<1>7. CASE CloseDone(g)
  <2>1. Frame /\ pc[g] = "close" /\ pc' = [pc EXCEPT ![g] = "leave"]
        /\ UNCHANGED <<token, val, ret>> /\ closed' = [closed EXCEPT ![F] = TRUE]
        /\ F \in Future /\ F \in Live /\ ret[g] \in Value /\ val[F] = ret[g]
    BY <1>7, FrameFacts DEF CloseDone, Frame, Calls, PCs, Results
  <2>9. Live' = Live /\ Live \subseteq Future
    BY <2>1, FrameFacts DEF PCs, Live
  <2>2. TypeOK'
    BY <1>7, <2>1 DEF CloseDone, PCs
  <2>3. Results' /\ ReturnsRoundValue'
    BY <2>1, <2>9 DEF Results, ReturnsRoundValue, Frame
  <2>4. \A f \in Future : Workers(f)' = IF f = F THEN Workers(f) \ {g} ELSE Workers(f)
    BY <2>1, FrameFacts DEF PCs
  <2>5. g \in Workers(F)
    BY <2>1 DEF Workers
  <2>6. TokenConserved'
    BY <2>1, <2>4, <2>5, <2>9 DEF TokenConserved
  <2> QED
    BY <2>1, <2>2, <2>3, <2>6, FrameFacts DEF PCs
<1> QED
  BY <1>1, <1>2, <1>3, <1>4, <1>5, <1>6, <1>7 DEF Step

LEMMA CancelIInv ==
  ASSUME IInv, NEW g \in Goroutine, CancelCtx(g)
  PROVE  IInv'
<1> USE DEF IInv, TypeOK, CancelCtx, futureVars
<1>1. TypeOK' /\ Calls' /\ Injective' /\ HeldIsCached' /\ TransientForgets'
      /\ ReturnsRoundValue'
  BY DEF Calls, Injective, HeldIsCached, TransientForgets, ReturnsRoundValue
<1>2. /\ Live' = Live
      /\ \A f \in Future : Holders(f)' = Holders(f) /\ Workers(f)' = Workers(f)
  BY DEF Live, Unreachable, Holders, Workers
<1>3. RefsCountHolders'
  BY <1>2 DEF RefsCountHolders
<1>4. Results' /\ TokenConserved'
  BY <1>2 DEF Results, TokenConserved, Live
<1> QED
  BY <1>1, <1>3, <1>4

\* The last reference to a future in a transient cache takes its key with it.
LEMMA LeaveIInv ==
  ASSUME IInv, NEW g \in Goroutine, Leave(g)
  PROVE  IInv'
<1> USE ConstantAssumption
<1> USE DEF IInv, TypeOK, Calls
<1>0. PICK F \in Future, K \in Key : F = fut[g] /\ K = key[g]
  BY DEF Leave, LeaveIf
<1> DEFINE last == refs[F] = 1 /\ K \notin persistent
<1>1. /\ pc[g] = "leave" /\ F = fut[g] /\ K = key[g] /\ cache[K] = F
      /\ g \in Holders(F) /\ F \in Live
  BY <1>0 DEF Leave, LeaveIf, HeldIsCached, Holders, Live, Unreachable
<1>2. /\ pc' = [pc EXCEPT ![g] = "idle"]
      /\ refs' = [refs EXCEPT ![F] = @ - 1]
      /\ cache' = [cache EXCEPT ![K] = IF last THEN NoFuture ELSE @]
      /\ key' = [key EXCEPT ![g] = NoKey]
      /\ fut' = [fut EXCEPT ![g] = NoFuture]
      /\ ctxDone' = [ctxDone EXCEPT ![g] = FALSE]
      /\ ret' = [ret EXCEPT ![g] = NoValue]
      /\ UNCHANGED <<token, closed, val>>
  BY <1>0 DEF Leave, LeaveIf, Goto
<1>3. last => \A h \in Goroutine \ {g} : fut[h] # F
  <2>1. last => Holders(F) = {g}
    BY <1>1, HoldersCount
  <2> QED
    BY <2>1 DEF Holders
<1> HIDE DEF last
<1>4. \A f \in Future : Holders(f)' = Holders(f) \ {g}
  BY <1>1, <1>2 DEF Holders
<1>5. \A f \in Future : refs'[f] = Cardinality(Holders(f)')
  <2> SUFFICES ASSUME NEW f \in Future PROVE refs'[f] = Cardinality(Holders(f)')
    OBVIOUS
  <2>1. CASE f = F
    BY <2>1, <1>1, <1>2, <1>4, HoldersCount
  <2>2. CASE f # F
    <3>1. Holders(f)' = Holders(f)
      BY <2>2, <1>1, <1>4 DEF Holders
    <3> QED
      BY <2>2, <1>2, <3>1, HoldersCount
  <2> QED
    BY <2>1, <2>2
<1>6. refs'[F] \in Nat
  <2>1. IsFiniteSet(Holders(F)')
    <3>1. IsFiniteSet(Holders(F))
      BY <1>1, HoldersCount
    <3>2. Holders(F)' \subseteq Holders(F)
      BY <1>1, <1>4
    <3> QED
      BY <3>1, <3>2, FS_Subset
  <2> QED
    BY <1>1, <1>5, <2>1, FS_CardinalityType
<1>7. TypeOK'
  BY <1>1, <1>2, <1>6 DEF PCs
<1>8. Calls' /\ Injective'
  BY <1>1, <1>2 DEF Injective
<1>9. HeldIsCached'
  BY <1>1, <1>2, <1>3 DEF HeldIsCached
<1>10. TransientForgets'
  <2>1. \A h \in Holders(F) \ {g} : key[h] = K
    BY <1>1 DEF Holders, HeldIsCached, Injective
  <2>2. K \notin persistent /\ ~last => \E h \in Holders(F) \ {g} : TRUE
    <3>1. K \notin persistent /\ ~last => Holders(F) # {g}
      <4>1. refs[F] = Cardinality(Holders(F))
        BY HoldersCount
      <4>2. Cardinality({g}) = 1
        BY FS_Singleton
      <4>3. Holders(F) = {g} => refs[F] = 1
        BY <4>1, <4>2
      <4> QED
        BY <4>3, Zenon DEF last
    <3> QED
      BY <1>1, <3>1
  <2> QED
    BY <1>1, <1>2, <2>1, <2>2 DEF TransientForgets, Holders
<1>11. Live' \subseteq Live
  BY <1>1, <1>2 DEF Live, Unreachable
<1>12. \A f \in Future : Workers(f)' = Workers(f)
  BY <1>1, <1>2 DEF Workers
<1>13. TokenConserved' /\ Results' /\ ReturnsRoundValue'
  BY <1>1, <1>2, <1>11, <1>12 DEF TokenConserved, Results, ReturnsRoundValue, Live
<1> QED
  BY <1>5, <1>7, <1>8, <1>9, <1>10, <1>13 DEF RefsCountHolders

LEMMA NextIInv == IInv /\ [Next]_vars => IInv'
<1> SUFFICES ASSUME IInv, [Next]_vars PROVE IInv'
  OBVIOUS
<1>1. CASE UNCHANGED vars
  BY <1>1 DEF vars, futureVars, IInv, TypeOK, Calls, Injective, Results, HeldIsCached,
     RefsCountHolders, TokenConserved, ReturnsRoundValue, TransientForgets,
     Live, Unreachable, Holders, Workers
<1>2. CASE Next
  <2>1. PICK g \in Goroutine : (\E k \in Key : Enter(g, k)) \/ CancelCtx(g) \/ Step(g)
    BY <1>2 DEF Next
  <2> QED
    BY <2>1, EnterIInv, CancelIInv, StepIInv, LeaveIInv
<1> QED
  BY <1>1, <1>2

\* Every reachable state of futureCache satisfies the inductive invariant.
THEOREM Invariance == Spec => []IInv
  BY InitIInv, NextIInv, PTL DEF Spec

\* Every variable of futureCache keeps its type (future.go:34-74).
THEOREM TypeCorrect == Spec => []TypeOK
  BY Invariance, PTL DEF IInv

\* At every moment a future's unit is buffered, with one goroutine, or gone with
\* a closed done channel (future.go:112-134).
THEOREM TokenConservation == Spec => []TokenConserved
  BY Invariance, PTL DEF IInv

\* The deferred decrement (future.go:108-115) counts exactly the calls in
\* progress, the future they hold is the one new callers are given, and a
\* transient cache forgets a key with its last caller (future.go:112-114).
THEOREM SharedFuture == Spec => []EntriesExact
  BY Invariance, PTL DEF IInv, EntriesExact

\* A call that is not cancelled returns the value its future was decided with
\* (future.go:121-122, 132-135).
THEOREM ReturnsAgree == Spec => []ReturnsRoundValue
  BY Invariance, PTL DEF IInv

LEMMA KeepsDecisionStep ==
  ASSUME IInv, Next, NEW k \in persistent, Decided(k)
  PROVE  KeepsDecision(k)
<1> USE ConstantAssumption DEF IInv, TypeOK, Decided, KeepsDecision
<1> DEFINE F == cache[k]
<1>1. F \in Future /\ closed[F] /\ ~token[F] /\ Workers(F) = {} /\ ~Unreachable(F)
  BY DEF TokenConserved, Live, Unreachable
<1>2. \A g \in Goroutine : key[g] = k => fut[g] = F /\ pc[g] # "idle"
  BY DEF HeldIsCached, Calls
<1>3. \A g \in Goroutine : fut[g] = F => pc[g] \notin {"compute", "check", "close"}
  BY <1>1 DEF Workers
<1>4. ASSUME NEW g \in Goroutine, NEW l \in Key, Enter(g, l) PROVE KeepsDecision(k)
  <2>1. CASE cache[l] # NoFuture
    BY <1>1, <1>2, <1>4, <2>1 DEF Enter, Goto
  <2>2. CASE cache[l] = NoFuture
    BY <1>1, <1>2, <1>4, <2>2 DEF Enter, Goto
  <2> QED
    BY <2>1, <2>2
<1>5. ASSUME NEW g \in Goroutine, CancelCtx(g) PROVE KeepsDecision(k)
  BY <1>5 DEF CancelCtx, futureVars
<1>6. ASSUME NEW g \in Goroutine, Step(g) PROVE KeepsDecision(k)
  <2>1. CASE SelectCtx(g) \/ SelectDone(g) \/ Compute(g)
    BY <1>1, <1>2, <2>1 DEF SelectCtx, SelectDone, Compute, Goto, futureVars
  <2>2. CASE SelectAcquire(g)
    BY <1>1, <1>2, <2>2 DEF SelectAcquire, Goto
  <2>3. CASE HandOff(g) \/ Store(g) \/ CloseDone(g)
    BY <1>1, <1>2, <1>3, <2>3 DEF HandOff, Store, CloseDone, Goto
  <2>4. CASE Leave(g)
    BY <1>1, <1>2, <2>4 DEF Leave, LeaveIf, Goto
  <2> QED
    BY <1>6, <2>1, <2>2, <2>3, <2>4 DEF Step
<1> QED
  BY <1>4, <1>5, <1>6 DEF Next

\* A persistent cache decides a key once and for all (future.go:24-25).
THEOREM DecidedOnce == Spec => PersistentOnce
<1>1. IInv /\ [Next]_vars => [\A k \in persistent : Decided(k) => KeepsDecision(k)]_vars
  BY KeepsDecisionStep
<1> QED
  BY <1>1, Invariance, PTL DEF Spec, PersistentOnce

-----------------------------------------------------------------------------
LEMMA InitRefines == Init => SF!Init
<1> SUFFICES ASSUME Init PROVE SF!Init
  OBVIOUS
<1>1. \A k \in Key : Round(k) = {} /\ Worker(k) = {} /\ RoundValue(k) = NoValue
  BY ConstantAssumption DEF Init, Round, Worker, RoundValue, Decided
<1>2. \A g \in Goroutine : Leaving(g) = NoValue
  BY DEF Init, Leaving
<1> QED
  BY <1>1, <1>2 DEF SF!Init

\* The abstract variables, point by point, are all that SingleFlight's steps
\* speak of.
LEMMA AbstractState ==
  ASSUME IInv, NEW g \in Goroutine, pc[g] # "idle",
         NEW k, k = key[g], NEW F, F = fut[g]
  PROVE  /\ k \in Key /\ F \in Future /\ F \in Live /\ cache[k] = F
         /\ \A l \in Key : l # k => cache[l] # F
         /\ \A h \in Goroutine : key[h] = k <=> fut[h] = F
         /\ g \in Round(k) /\ Worker(k) = Workers(F)
<1> USE ConstantAssumption DEF IInv, TypeOK, Calls
<1>1. k \in Key /\ F \in Future /\ F \in Live /\ cache[k] = F
  BY DEF HeldIsCached, Live, Unreachable
<1>2. \A l \in Key : l # k => cache[l] # F
  BY <1>1 DEF Injective
<1>3. \A h \in Goroutine : key[h] = k <=> fut[h] = F
  BY <1>1, <1>2 DEF HeldIsCached
<1>4. g \in Round(k) /\ Worker(k) = Workers(F)
  BY <1>3 DEF Round, Worker, Workers
<1> QED
  BY <1>1, <1>2, <1>3, <1>4

LEMMA EnterRefines ==
  ASSUME IInv, NEW g \in Goroutine, NEW k \in Key, Enter(g, k)
  PROVE  SF!Join(g, k)
<1> USE ConstantAssumption DEF IInv, TypeOK, Calls
<1>1. /\ pc[g] = "idle" /\ key[g] = NoKey
      /\ key' = [key EXCEPT ![g] = k] /\ pc' = [pc EXCEPT ![g] = "select"]
      /\ ret' = ret
  BY DEF Enter, Goto
<1>2. \A l \in Key : Round(l)' = IF l = k THEN Round(l) \union {g} ELSE Round(l)
  BY <1>1 DEF Round
<1>3. \A l \in Key : Worker(l)' = Worker(l)
  BY <1>1 DEF Worker, Round
<1>4. \A h \in Goroutine : Leaving(h)' = Leaving(h)
  BY <1>1 DEF Leaving
<1>5. \A l \in Key : RoundValue(l)' = RoundValue(l)
  <2>1. CASE cache[k] # NoFuture
    BY <2>1 DEF Enter, RoundValue, Decided
  <2>2. CASE cache[k] = NoFuture
    <3>1. PICK F \in Future :
            /\ Unreachable(F)
            /\ cache' = [cache EXCEPT ![k] = F]
            /\ closed' = [closed EXCEPT ![F] = FALSE]
            /\ val' = [val EXCEPT ![F] = NoValue]
      BY <2>2 DEF Enter
    <3> QED
      BY <2>2, <3>1 DEF RoundValue, Decided, Unreachable
  <2> QED
    BY <2>1, <2>2
<1>6. \A l \in Key : g \notin Round(l)
  BY <1>1 DEF Round
<1> QED
  BY <1>2, <1>3, <1>4, <1>5, <1>6
  DEF SF!Join, SF!Idle

\* A step of get that keeps the keys keeps the rounds.
LEMMA StepRefines ==
  ASSUME IInv, NEW g \in Goroutine, Step(g), ~Leave(g)
  PROVE  [SF!Next]_(SF!vars)
<1> USE ConstantAssumption DEF IInv, TypeOK
<1>0. PICK k, F : k = key[g] /\ F = fut[g]
  OBVIOUS
<1>1. pc[g] # "idle" /\ UNCHANGED <<cache, key, fut>>
  BY DEF Step, SelectCtx, SelectDone, SelectAcquire, Compute, HandOff, Store, CloseDone
<1>2. /\ k \in Key /\ F \in Future /\ F \in Live /\ cache[k] = F
      /\ \A l \in Key : l # k => cache[l] # F
      /\ g \in Round(k) /\ Worker(k) = Workers(F)
  BY <1>0, <1>1, AbstractState
<1>3. \A l \in Key : Round(l)' = Round(l)
  BY <1>1 DEF Round
<1> USE DEF Goto, futureVars
<1>4. CASE SelectCtx(g)
  <2>1. \A l \in Key : Worker(l)' = Worker(l) /\ RoundValue(l)' = RoundValue(l)
    BY <1>4 DEF SelectCtx, Worker, Round, RoundValue, Decided
  <2>2. \A h \in Goroutine : Leaving(h)' = IF h = g THEN Cancelled ELSE Leaving(h)
    BY <1>4 DEF SelectCtx, Leaving
  <2>3. Leaving(g) = NoValue /\ g \notin Worker(k)
    BY <1>4 DEF SelectCtx, Leaving, Worker, Round
  <2>4. SF!GiveUp(g, k)
    BY <1>2, <1>3, <2>1, <2>2, <2>3
    DEF SF!GiveUp
  <2> QED
    BY <1>2, <2>4 DEF SF!Next
<1>5. CASE SelectDone(g)
  <2>1. \A l \in Key : Worker(l)' = Worker(l) /\ RoundValue(l)' = RoundValue(l)
    BY <1>5 DEF SelectDone, Worker, Round, RoundValue, Decided
  <2>2. RoundValue(k) = val[F] /\ val[F] \in Value
    BY <1>0, <1>2, <1>5 DEF SelectDone, RoundValue, Decided, Results
  <2>3. \A h \in Goroutine : Leaving(h)' = IF h = g THEN RoundValue(k) ELSE Leaving(h)
    BY <1>0, <1>5, <2>2 DEF SelectDone, Leaving
  <2>4. Leaving(g) = NoValue /\ g \notin Worker(k) /\ RoundValue(k) # NoValue
    BY <1>5, <2>2 DEF SelectDone, Leaving, Worker, Round
  <2>5. SF!Take(g, k)
    BY <1>2, <1>3, <2>1, <2>3, <2>4
    DEF SF!Take
  <2> QED
    BY <1>2, <2>5 DEF SF!Next
<1>6. CASE SelectAcquire(g)
  <2>1. token[F] /\ Worker(k) = {} /\ RoundValue(k) = NoValue
    BY <1>0, <1>2, <1>6 DEF SelectAcquire, TokenConserved, RoundValue, Decided
  <2>2. \A l \in Key : Worker(l)' = IF l = k THEN {g} ELSE Worker(l)
    BY <1>0, <1>6, <2>1 DEF SelectAcquire, Worker, Round
  <2>3. /\ \A l \in Key : RoundValue(l)' = RoundValue(l)
        /\ \A h \in Goroutine : Leaving(h)' = Leaving(h)
        /\ Leaving(g) = NoValue
    BY <1>6 DEF SelectAcquire, RoundValue, Decided, Leaving
  <2>4. SF!Work(g, k)
    BY <1>2, <1>3, <2>1, <2>2, <2>3
    DEF SF!Work
  <2> QED
    BY <1>2, <2>4 DEF SF!Next
<1>7. CASE Compute(g)
  <2>1. \A l \in Key : Worker(l)' = Worker(l) /\ RoundValue(l)' = RoundValue(l)
    BY <1>7 DEF Compute, Worker, Round, RoundValue, Decided
  <2>2. \A h \in Goroutine : Leaving(h)' = Leaving(h)
    BY <1>7 DEF Compute, Leaving
  <2> QED
    BY <1>3, <2>1, <2>2 DEF SF!vars
<1>8. CASE HandOff(g)
  <2>1. Worker(k) = {g}
    BY <1>0, <1>2, <1>8 DEF HandOff, TokenConserved, Workers
  <2>2. \A l \in Key : Worker(l)' = IF l = k THEN {} ELSE Worker(l)
    BY <1>0, <1>8, <2>1 DEF HandOff, Worker, Round
  <2>3. \A l \in Key : RoundValue(l)' = RoundValue(l)
    BY <1>8 DEF HandOff, RoundValue, Decided
  <2>4. \A h \in Goroutine : Leaving(h)' = IF h = g THEN Cancelled ELSE Leaving(h)
    BY <1>8 DEF HandOff, Leaving
  <2>5. SF!Abandon(g, k)
    BY <1>2, <1>3, <2>1, <2>2, <2>3, <2>4
    DEF SF!Abandon
  <2> QED
    BY <1>2, <2>5 DEF SF!Next
<1>9. CASE Store(g)
  <2>1. ~closed[F]
    BY <1>0, <1>2, <1>9 DEF Store, TokenConserved, Workers
  <2>2. \A l \in Key : Worker(l)' = Worker(l)
    BY <1>9 DEF Store, Worker, Round
  <2>3. \A l \in Key : RoundValue(l)' = RoundValue(l)
    BY <1>0, <1>2, <1>9, <2>1 DEF Store, RoundValue, Decided
  <2>4. \A h \in Goroutine : Leaving(h)' = Leaving(h)
    BY <1>9 DEF Store, Leaving
  <2> QED
    BY <1>3, <2>2, <2>3, <2>4 DEF SF!vars
<1>10. CASE CloseDone(g)
  <2>1. Worker(k) = {g} /\ ~closed[F] /\ val[F] = ret[g] /\ ret[g] \in Value
    BY <1>0, <1>2, <1>10 DEF CloseDone, TokenConserved, Workers, Results
  <2>2. \A l \in Key : Worker(l)' = IF l = k THEN {} ELSE Worker(l)
    BY <1>0, <1>10, <2>1 DEF CloseDone, Worker, Round
  <2>3. RoundValue(k) = NoValue
        /\ \A l \in Key : RoundValue(l)' = IF l = k THEN ret[g] ELSE RoundValue(l)
    BY <1>0, <1>2, <1>10, <2>1 DEF CloseDone, RoundValue, Decided
  <2>4. \A h \in Goroutine : Leaving(h)' = IF h = g THEN ret[g] ELSE Leaving(h)
    BY <1>10 DEF CloseDone, Leaving
  <2>5. SF!Decide(g, k, ret[g])
    BY <1>2, <1>3, <2>1, <2>2, <2>3, <2>4
    DEF SF!Decide
  <2> QED
    BY <1>2, <2>1, <2>5 DEF SF!Next
<1> QED
  BY <1>4, <1>5, <1>6, <1>7, <1>8, <1>9, <1>10 DEF Step

LEMMA LeaveRefines ==
  ASSUME IInv, NEW g \in Goroutine, Leave(g)
  PROVE  SF!Next
<1> USE ConstantAssumption DEF IInv, TypeOK
<1>0. PICK k, F : k = key[g] /\ F = fut[g]
  OBVIOUS
<1>1. /\ pc[g] = "leave"
      /\ pc' = [pc EXCEPT ![g] = "idle"] /\ key' = [key EXCEPT ![g] = NoKey]
      /\ cache' = [cache EXCEPT ![k] = IF refs[F] = 1 /\ k \notin persistent THEN NoFuture ELSE @]
      /\ UNCHANGED <<closed, val>>
  BY <1>0 DEF Leave, LeaveIf, Goto
<1>2. /\ k \in Key /\ F \in Future /\ F \in Live /\ cache[k] = F
      /\ \A h \in Goroutine : key[h] = k <=> fut[h] = F
      /\ g \in Round(k)
  BY <1>0, <1>1, AbstractState
<1>3. refs[F] = 1 <=> Round(k) = {g}
  <2>1. Round(k) = Holders(F) /\ g \in Holders(F)
    BY <1>2 DEF Round, Holders
  <2>2. refs[F] = 1 => Holders(F) = {g}
    BY <1>2, <2>1, HoldersCount
  <2>3. Holders(F) = {g} => refs[F] = 1
    <3>1. refs[F] = Cardinality(Holders(F))
      BY <1>2, HoldersCount
    <3>2. Cardinality({g}) = 1
      BY FS_Singleton
    <3> QED
      BY <3>1, <3>2
  <2> QED
    BY <2>1, <2>2, <2>3
<1>4. /\ \A l \in Key : Round(l)' = IF l = k THEN Round(l) \ {g} ELSE Round(l)
      /\ \A l \in Key : Worker(l)' = Worker(l)
  BY <1>0, <1>1 DEF Round, Worker
<1>5. \A l \in Key : RoundValue(l)' =
         IF l = k /\ Round(k) = {g} /\ k \notin persistent THEN NoValue ELSE RoundValue(l)
  BY <1>1, <1>2, <1>3 DEF RoundValue, Decided
<1>6. /\ \A h \in Goroutine : Leaving(h)' = IF h = g THEN NoValue ELSE Leaving(h)
      /\ Leaving(g) # NoValue
  <2>1. ret[g] # NoValue
    BY <1>1 DEF ReturnsRoundValue
  <2>2. \A h \in Goroutine : pc'[h] = IF h = g THEN "idle" ELSE pc[h]
    BY <1>1
  <2>3. ret' = [ret EXCEPT ![g] = NoValue]
    BY DEF Leave, LeaveIf
  <2> QED
    BY <1>1, <2>1, <2>2, <2>3 DEF Leaving
<1>7. SF!Leave(g, k)
  BY <1>2, <1>4, <1>5, <1>6
  DEF SF!Leave
<1> QED
  BY <1>2, <1>7 DEF SF!Next

LEMMA NextRefines == IInv /\ [Next]_vars => [SF!Next]_(SF!vars)
<1> SUFFICES ASSUME IInv, [Next]_vars PROVE [SF!Next]_(SF!vars)
  OBVIOUS
<1>1. CASE UNCHANGED vars
  BY <1>1 DEF vars, SF!vars, Decided, Round, Worker, RoundValue, Leaving
<1>2. ASSUME NEW g \in Goroutine, CancelCtx(g) PROVE UNCHANGED SF!vars
  BY <1>2 DEF CancelCtx, futureVars, SF!vars, Decided, Round, Worker, RoundValue, Leaving
<1>3. ASSUME NEW g \in Goroutine, NEW k \in Key, Enter(g, k) PROVE SF!Next
  BY <1>3, EnterRefines DEF SF!Next
<1> QED
  BY <1>1, <1>2, <1>3, StepRefines, LeaveRefines DEF Next

\* futureCache.get implements single flight with hand-over (future.go:79-93).
THEOREM Refinement == Spec => ImplementsSingleFlight
  BY InitRefines, Invariance, NextRefines, PTL DEF Spec, SF!Spec, ImplementsSingleFlight
=============================================================================
