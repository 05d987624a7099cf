---------------------------- MODULE PackageHandles ----------------------------
(***************************************************************************)
(* Package handles and type-check batches (gopls/internal/cache/check.go,  *)
(* and what clone in cache/snapshot.go keeps of the handles).              *)
(*                                                                         *)
(* Every snapshot maps a package to a handle, whose state says which of    *)
(* its data are valid.  Queries of packages evaluate the handles of the    *)
(* import closure from the leaves up, concurrently, and store what they    *)
(* find unless a better handle is there; an edit clones the map with lower *)
(* states but keeps the data, which a later evaluation may find valid      *)
(* again, because a key depends only on what is reached through the        *)
(* references between symbols.  Which packages are reached is computed     *)
(* symbol by symbol and remembered for the request; a set that is computed *)
(* for the first time is not returned (getOneTransitiveRefLocked returns   *)
(* the variable that the computed set shadows), so that what a key covers  *)
(* depends on what the request computed before.                            *)
(*                                                                         *)
(* A snapshot is the number of edits before it.  A world is the content of *)
(* every package; what a package imports and what its exported names refer *)
(* to is given by its content.                                             *)
(***************************************************************************)
EXTENDS Naturals, FiniteSets

CONSTANTS Thread, Pkg, Name, Content,
          Imports,    \* by package and content: the packages it imports
          Refs,       \* by package and content: pairs of a name and a symbol
          First,      \* the world the session starts in
          Worlds,     \* those that edits may make
          Queried,    \* the packages queries ask for
          Openable,   \* the packages that may be opened and closed
          MaxEdits,   \* bound: the number of edits
          MaxTouched, \* bound: how many packages an edit changes
          Busy,       \* bound: by snapshot, how many requests are in progress at a time
          NoContent, NoHandle, NoKey, NoDeps, NoData, NoPkg, NoReach

Symbol == Pkg \X Name
Keys == [local : Pkg \X Content, deps : SUBSET (Pkg \X Content)]
DepKeyMaps == [Pkg -> Keys \union {NoKey}]
Packages == [local : Pkg \X Content, imports : DepKeyMaps]
Datas == [pkg : Packages \union {NoPkg}, imports : DepKeyMaps]
HandlesWith(keys) ==
    [state   : 0 .. 4,
     local   : Content,                    \* localInputs, localKey and refs
     open    : BOOLEAN,                    \* isOpen
     depKeys : DepKeyMaps,
     key     : keys,
     data    : Datas \union {NoData}]      \* pkgData
Handles == HandlesWith(Keys)
Pending == HandlesWith(Keys \union {NoKey})
HandleMaps == [Pkg -> Handles \union {NoHandle}]

\* The reachability run of a package: the imports whose references it has not
\* collected yet, and the packages reached.
Reaches == [todo : SUBSET Pkg, seen : SUBSET Pkg, depsChanged : BOOLEAN]

ASSUME HandlesAssumption ==
    /\ IsFiniteSet(Thread)
    /\ MaxEdits \in Nat
    /\ First \in [Pkg -> Content] /\ Worlds \subseteq [Pkg -> Content]
    /\ Queried \subseteq Pkg /\ Openable \subseteq Pkg
    /\ NoContent \notin Content
    /\ Imports \in [Pkg -> [Content \union {NoContent} -> SUBSET Pkg]]
    /\ Refs \in [Pkg -> [Content \union {NoContent} -> SUBSET (Name \X Symbol)]]
    /\ \A p \in Pkg : /\ Imports[p][NoContent] = {}
                      /\ \A c \in Content \union {NoContent} :
                            \A r \in Refs[p][c] : r[2][1] \in Imports[p][c]
    /\ NoHandle \notin Pending /\ NoKey \notin Keys /\ NoDeps \notin DepKeyMaps
    /\ NoData \notin Datas /\ NoPkg \notin Packages
    /\ NoReach \notin Reaches

\* packageState
ValidMetadata == 0
ValidLocalData == 1
ValidKey == 2
ValidImports == 3
ValidPackage == 4

-----------------------------------------------------------------------------
(* Imports, references and keys in a world.                                *)

World == [Pkg -> Content]
ImportsIn(w, p) == Imports[p][w[p]]

\* The import closure of p, p included, and the packages with p in theirs.
Closed(w, S) == \A q \in S : ImportsIn(w, q) \subseteq S
Deps(w, p) == {r \in Pkg : \A S \in SUBSET Pkg : p \in S /\ Closed(w, S) => r \in S}
RevDeps(w, S) == {p \in Pkg : Deps(w, p) \intersect S # {}}

\* What the name of a symbol refers to, and the packages of that.
RefsIn(w, x) == {y \in Symbol : <<x[2], y>> \in Refs[x[1]][w[x[1]]]}
RefPkgs(w, x) == {y[1] : y \in RefsIn(w, x)}

\* The packages that every key of p covers: its imports, and those that the names of
\* its imports refer to.
Direct(w, p) == ImportsIn(w, p) \union
                UNION {RefPkgs(w, x) : x \in ImportsIn(w, p) \X Name}

\* Keys are hashes of local keys, which are hashes of a package's identity and content.
LocalKey(w, p) == <<p, w[p]>>
KeyFor(k, w, p) ==
    /\ k.local = LocalKey(w, p)
    /\ \A r \in Direct(w, p) : LocalKey(w, r) \in k.deps
    /\ \A x, y \in k.deps : x[1] = y[1] => x = y

\* The keys of the imports of p in a world.
DepKeysFor(dk, w, p) == \A q \in Pkg :
    IF q \in ImportsIn(w, p) THEN dk[q] # NoKey /\ KeyFor(dk[q], w, q) ELSE dk[q] = NoKey

\* A package checked in a world: with its content, and imports that its keys stand for.
CheckedIn(pkg, w, p) == /\ pkg # NoPkg /\ pkg.local = LocalKey(w, p)
                        /\ DepKeysFor(pkg.imports, w, p)

\* Worlds that nodes make: packages without one have no content.
NodeWorld(node) == [q \in Pkg |-> IF node[q] = NoHandle THEN NoContent ELSE node[q].local]

-----------------------------------------------------------------------------
VARIABLES
    cur,      \* the current snapshot
    contents, \* the world of each snapshot
    open,     \* its packages with an overlay
    packages, \* its handles
    batch,    \* its type-check batch
    th        \* the requests

vars == <<cur, contents, open, packages, batch, th>>

Snapshot == 0 .. MaxEdits
NoHandles == [p \in Pkg |-> NoHandle]
NoTrans == [x \in Symbol |-> {}]
NoBatch == [ref |-> 0, handles |-> NoHandles]
Batches == [ref : Nat, handles : HandleMaps]
Threads == [pc     : {"idle", "handles", "check", "post", "done"},
            s      : Snapshot,
            p      : Pkg,
            node   : HandleMaps,          \* handleNode.ph
            pend   : [Pkg -> Pending \union {NoHandle}], \* evaluated and not yet stored
            reach  : [Pkg -> Reaches \union {NoReach}],
            trans  : [Symbol -> SUBSET Pkg],  \* transitiveRefs: partialRefs.refs,
            known  : SUBSET Symbol,           \* the symbols it has,
            full   : SUBSET Pkg,              \* partialRefs.complete
            result : Packages \union {NoPkg}]

Idle(p) == [pc |-> "idle", s |-> 0, p |-> p, node |-> NoHandles,
            pend |-> NoHandles, reach |-> [q \in Pkg |-> NoReach],
            trans |-> NoTrans, known |-> {}, full |-> {}, result |-> NoPkg]

TypeOK == /\ cur \in Snapshot
          /\ contents \in [Snapshot -> World]
          /\ open \in [Snapshot -> SUBSET Pkg]
          /\ packages \in [Snapshot -> HandleMaps]
          /\ batch \in [Snapshot -> Batches]
          /\ th \in [Thread -> Threads]

Init == /\ cur = 0
        /\ contents = [s \in Snapshot |-> First]
        /\ open = [s \in Snapshot |-> {}]
        /\ packages = [s \in Snapshot |-> NoHandles]
        /\ batch = [s \in Snapshot |-> NoBatch]
        /\ \E p \in Queried : th = [t \in Thread |-> Idle(p)]

At(t, l) == th[t].pc = l
Needed(t) == Deps(contents[th[t].s], th[t].p)

\* The last request to leave discards the batch.
LeaveDiscards(s) ==                                           \* mutant
    batch' = [batch EXCEPT ![s] = NoBatch]

Leave(s) ==
    batch' = IF batch[s].ref = 1 THEN [batch EXCEPT ![s] = NoBatch]
             ELSE [batch EXCEPT ![s].ref = @ - 1]

\* A handle is stored unless one as good is there.
BetterAlways(h, alt) == TRUE                                  \* mutant
Better(h, alt) == alt = NoHandle \/ alt.state < h.state

\* A snapshot that was replaced is destroyed, and its handles with it, when the last
\* request that has it ends.
Users(s) == {t \in Thread : ~At(t, "idle") /\ th[t].s = s}
End(t) == LET s == th[t].s IN
    /\ th' = [th EXCEPT ![t] = Idle(th[t].p)]
    /\ packages' = IF s # cur /\ Users(s) = {t}
                   THEN [packages EXCEPT ![s] = NoHandles] ELSE packages

\* A request for p of the current snapshot: a package that is there is returned at
\* once, otherwise the request joins the batch of the snapshot, or starts one.
ForEachPackage(t, p) ==
    /\ At(t, "idle") /\ Cardinality({x \in Thread : ~At(x, "idle")}) < Busy[cur]
    /\ LET h == packages[cur][p]
           kept == h # NoHandle /\ h.state = ValidPackage
       IN
       \/ /\ kept
          /\ th' = [th EXCEPT ![t] = [Idle(p) EXCEPT !.pc = "done", !.s = cur,
                                                     !.result = h.data.pkg]]
          /\ UNCHANGED batch
       \/ /\ ~kept
          /\ th' = [th EXCEPT ![t] = [Idle(p) EXCEPT !.pc = "handles", !.s = cur]]
          /\ batch' = [batch EXCEPT ![cur].ref = @ + 1]
    /\ UNCHANGED <<cur, contents, open, packages>>

\* evaluatePackageHandle up to its deferred store.  The local data are read if they
\* are not valid, the key is computed again if they or the key of an import have
\* changed, and what type checking has left is kept as far as it is still valid.
NewHandle == [state |-> ValidMetadata, local |-> NoContent, open |-> FALSE,
              depKeys |-> NoDeps, key |-> NoKey, data |-> NoData]

Revalidated(h, key, depsChanged) ==
    LET data == IF h.data = NoData \/ depsChanged THEN NoData
                ELSE IF key # h.key THEN [h.data EXCEPT !.pkg = NoPkg] ELSE h.data
    IN [h EXCEPT !.key = key, !.data = data,
                 !.state = IF data = NoData THEN ValidKey
                           ELSE IF data.pkg = NoPkg THEN ValidImports ELSE ValidPackage]

LocalKept(h, c, isOpen) == [h EXCEPT !.open = @ \/ isOpen]    \* mutant

Local(h, c, isOpen) ==
    [h EXCEPT !.local = c, !.open = @ \/ isOpen,
              !.data = IF h.open \/ isOpen THEN @ ELSE NoData]

EvaluatePackageHandle(t, p) ==
    /\ At(t, "handles")
    /\ LET r == th[t]
           w == contents[r.s]
           h == IF packages[r.s][p] = NoHandle THEN NewHandle ELSE packages[r.s][p]
           l == IF h.state < ValidLocalData THEN Local(h, w[p], p \in open[r.s]) ELSE h
           depKeys == [q \in Pkg |-> IF q \in ImportsIn(w, p) THEN r.node[q].key ELSE NoKey]
           depsChanged == h.depKeys # depKeys
       IN /\ p \in Needed(t)
          /\ r.node[p] = NoHandle /\ r.pend[p] = NoHandle
          /\ \A q \in ImportsIn(w, p) : r.node[q] # NoHandle
          /\ \/ /\ h.state >= ValidKey
                /\ th' = [th EXCEPT ![t].pend[p] = h]
             \/ /\ h.state < ValidKey /\ l.local = h.local /\ ~depsChanged
                /\ th' = [th EXCEPT ![t].pend[p] = Revalidated(l, l.key, FALSE)]
             \/ /\ h.state < ValidKey /\ (l.local # h.local \/ depsChanged)
                /\ th' = [th EXCEPT
                      ![t].pend[p] = [l EXCEPT !.depKeys = depKeys],
                      ![t].reach[p] = [todo |-> ImportsIn(w, p), seen |-> ImportsIn(w, p),
                                       depsChanged |-> depsChanged]]
    /\ UNCHANGED <<cur, contents, open, packages, batch>>

\* The symbols whose references are computed when those of q's names are asked for:
\* the names of q and what they refer to, through symbols not computed before.
New(w, known, q) ==
    LET fresh == Symbol \ known
        closed == {Y \in SUBSET Symbol : /\ ({q} \X Name) \intersect fresh \subseteq Y
                                         /\ \A x \in Y : RefsIn(w, x) \intersect fresh \subseteq Y}
    IN  {x \in fresh : \A Y \in closed : x \in Y}

\* Every new symbol is computed on one of the paths to it, and found on the others.
Findings(w, q, new) ==
    LET edges == {e \in new \X new : e[2] \in RefsIn(w, e[1])}
    IN  {F \in SUBSET edges : \A y \in new :
            LET first == {e \in edges \ F : e[2] = y}
            IN  IF y[1] = q THEN first = {} ELSE \E e \in first : first = {e}}

\* getOneTransitiveRefLocked: the set of a symbol has the packages it refers to, and
\* the sets of what it refers to if those are found; the set of one that is computed
\* on the way is lost.
TransitiveRefs(w, trans, new, found) ==
    LET along(x) == {Y \in SUBSET new : x \in Y /\ \A e \in found : e[1] \in Y => e[2] \in Y}
        path(x) == {y \in new : \A Y \in along(x) : y \in Y}
        set(y) == RefPkgs(w, y) \union
                  UNION {trans[z] : z \in RefsIn(w, y) \ new}
    IN  [x \in Symbol |-> IF x \in new THEN UNION {set(y) : y \in path(x)} ELSE trans[x]]

\* getTransitiveRefs of an import of p, for the reachability run of p.
GetTransitiveRefs(t, p, q) ==
    /\ At(t, "handles") /\ th[t].reach[p] # NoReach /\ q \in th[t].reach[p].todo
    /\ LET r == th[t]
           w == NodeWorld(r.node)
           new == IF q \in r.full THEN {} ELSE New(w, r.known, q)
       IN \E found \in Findings(w, q, new) :
             LET trans == TransitiveRefs(w, r.trans, new, found)
             IN  th' = [th EXCEPT
                    ![t].trans = trans, ![t].known = @ \union new,
                    ![t].full = @ \union {q},
                    ![t].reach[p] = [r.reach[p] EXCEPT
                        !.todo = @ \ {q},
                        !.seen = @ \union UNION {trans[x] : x \in {q} \X Name}]]
    /\ UNCHANGED <<cur, contents, open, packages, batch>>

\* The key of p hashes the local keys of p and of the nodes reached.
KeyOf(node, h, p, seen) ==
    [local |-> <<p, h.local>>,
     deps  |-> {<<q, node[q].local>> : q \in {q \in seen : node[q] # NoHandle}}]

\* The end of evaluatePackageHandle: the key is computed if the run was needed, and
\* the deferred store takes a handle that is at least as good for the node.
StoreHandle(t, p) ==
    /\ At(t, "handles") /\ th[t].pend[p] # NoHandle
    /\ LET s == th[t].s
           reach == th[t].reach[p]
           e == th[t].pend[p]
           h == IF reach = NoReach THEN e
                ELSE Revalidated(e, KeyOf(th[t].node, e, p, reach.seen), reach.depsChanged)
           alt == packages[s][p]
           ph == IF Better(h, alt) THEN h ELSE alt
       IN /\ reach # NoReach => reach.todo = {}
          /\ packages' = [packages EXCEPT ![s][p] = ph]
          /\ th' = [th EXCEPT ![t].node[p] = ph, ![t].pend[p] = NoHandle,
                              ![t].reach[p] = NoReach]
    /\ UNCHANGED <<cur, contents, open, batch>>

\* The request is cancelled: goroutines that are evaluating a handle finish first.
Cancel(t) ==
    /\ At(t, "handles") \/ At(t, "check")
    /\ th[t].pend = NoHandles
    /\ End(t)
    /\ Leave(th[t].s)
    /\ UNCHANGED <<cur, contents, open>>

\* Every handle of the import closure is evaluated and goes to the batch.
AddHandles(t) ==
    /\ At(t, "handles") /\ th[t].pend = NoHandles
    /\ LET s == th[t].s
           node == th[t].node
       IN /\ \A p \in Needed(t) : node[p] # NoHandle
          /\ batch' = [batch EXCEPT ![s].handles =
                [p \in Pkg |-> IF node[p] # NoHandle /\ Better(node[p], @[p])
                               THEN node[p] ELSE @[p]]]
    /\ th' = [th EXCEPT ![t].pc = "check",
                        ![t].trans = NoTrans, ![t].known = {}, ![t].full = {}]
    /\ UNCHANGED <<cur, contents, open, packages>>

\* The package is type-checked with the imports its handle has kept, or with those
\* the handles of the batch stand for.
HandleSyntaxPackage(t) ==
    /\ At(t, "check")
    /\ LET s == th[t].s
           p == th[t].p
           handles == batch[s].handles
           h == handles[p]
           imports == IF h.state >= ValidImports THEN h.data.imports
                      ELSE [q \in Pkg |-> IF q \in ImportsIn(contents[s], p)
                                          THEN handles[q].key ELSE NoKey]
       IN th' = [th EXCEPT ![t].pc = "post", ![t].result =
                    IF h.state = ValidPackage THEN h.data.pkg
                    ELSE [local |-> <<p, h.local>>, imports |-> imports]]
    /\ UNCHANGED <<cur, contents, open, packages, batch>>

\* post2: the checked package is kept if the package is open; then the request
\* leaves the batch.
Post(t) ==
    /\ At(t, "post")
    /\ LET s == th[t].s
           p == th[t].p
           h == th[t].node[p]
           pkg == th[t].result
           ph == [h EXCEPT !.state = ValidPackage,
                           !.data = [pkg |-> pkg, imports |-> pkg.imports]]
       IN /\ packages' = IF /\ h.open /\ h.state < ValidPackage
                            /\ Better(ph, packages[s][p])
                         THEN [packages EXCEPT ![s][p] = ph] ELSE packages
          /\ Leave(s)
    /\ th' = [th EXCEPT ![t].pc = "done", ![t].node = NoHandles]
    /\ UNCHANGED <<cur, contents, open>>

Return(t) ==
    /\ At(t, "done")
    /\ End(t)
    /\ UNCHANGED <<cur, contents, open, batch>>

ClonedDirect(touched, inv) ==                                 \* mutant
    [p \in Pkg |->
        LET h == packages[cur][p] IN
        IF h = NoHandle \/ p \in RevDeps(contents[cur], inv) THEN NoHandle
        ELSE IF p \in touched THEN [h EXCEPT !.state = ValidMetadata] ELSE h]

\* What clone keeps of the handles if the files of the packages in touched have
\* changed and the metadata of those in inv must be loaded again.
Cloned(touched, inv) ==
    [p \in Pkg |->
        LET h == packages[cur][p] IN
        IF h = NoHandle \/ p \in RevDeps(contents[cur], inv) THEN NoHandle
        ELSE IF p \in touched THEN [h EXCEPT !.state = ValidMetadata]
        ELSE IF p \in RevDeps(contents[cur], touched) /\ h.state > ValidLocalData
             THEN [h EXCEPT !.state = ValidLocalData]
        ELSE h]

\* An edit gives the touched packages new contents, or opens or closes them; their
\* metadata are invalidated if their imports change.
Clone(touched, w, o) ==
    /\ cur < MaxEdits
    /\ \A p \in Pkg \ touched : /\ w[p] = contents[cur][p]
                                /\ p \in o <=> p \in open[cur]
    /\ cur' = cur + 1
    /\ contents' = [contents EXCEPT ![cur + 1] = w]
    /\ open' = [open EXCEPT ![cur + 1] = o]
    /\ packages' = [packages EXCEPT
          ![cur] = IF Users(cur) = {} THEN NoHandles ELSE @,
          ![cur + 1] = Cloned(touched,
              {p \in touched : ImportsIn(w, p) # ImportsIn(contents[cur], p)})]
    /\ UNCHANGED <<batch, th>>

Edit == \E touched \in SUBSET Pkg : Cardinality(touched) \in 1 .. MaxTouched /\
           \E w \in Worlds, o \in SUBSET Openable : Clone(touched, w, o)

Next == \/ Edit
        \/ \E t \in Thread :
              \/ \E p \in Queried : ForEachPackage(t, p)
              \/ \E p \in Pkg : EvaluatePackageHandle(t, p) \/ StoreHandle(t, p)
              \/ \E p, q \in Pkg : GetTransitiveRefs(t, p, q)
              \/ Cancel(t) \/ AddHandles(t) \/ HandleSyntaxPackage(t)
              \/ Post(t) \/ Return(t)

Spec == Init /\ [][Next]_vars

-----------------------------------------------------------------------------
\* The data of a handle are valid in a world as far as its state says (check.go:823-855):
\* the local data from validLocalData on, the keys of the package and of its imports
\* from validKey on, and what is left of type checking above.
Current(h, w, p) ==
    /\ h.state >= ValidLocalData => h.local = w[p]
    /\ h.state >= ValidKey => KeyFor(h.key, w, p) /\ DepKeysFor(h.depKeys, w, p)
    /\ h.state >= ValidImports => h.data # NoData /\ DepKeysFor(h.data.imports, w, p)
    /\ h.state >= ValidPackage => CheckedIn(h.data.pkg, w, p)

\* After any edits, whatever was kept, pruned or found again, every handle of a
\* snapshot, of its batch and of its requests is valid for the snapshot's files, and
\* its key covers its imports and what their names refer to.
HandlesCurrent ==
    /\ \A s \in Snapshot : s <= cur => \A p \in Pkg :
          /\ packages[s][p] # NoHandle => Current(packages[s][p], contents[s], p)
          /\ batch[s].handles[p] # NoHandle =>
                /\ batch[s].handles[p].state >= ValidKey
                /\ Current(batch[s].handles[p], contents[s], p)
    /\ \A t \in Thread, p \in Pkg : th[t].node[p] # NoHandle =>
          th[t].node[p].state >= ValidKey /\ Current(th[t].node[p], contents[th[t].s], p)

\* "any instance of the requested package must be ok to return" (check.go:144-145):
\* a request returns the package of its own snapshot, checked with imports whose keys
\* are those of the snapshot.
ResultsCurrent == \A t \in Thread :
    At(t, "post") \/ At(t, "done") =>
        CheckedIn(th[t].result, contents[th[t].s], th[t].p)

\* "The cache key for saved type information must thus incorporate information from all
\* reachable dependencies" (check.go:833-834): the key of a handle has the local key of
\* every package reached along references from the names of its imports.  The code
\* breaks it: a set computed for the first time is lost.
Reached(w, p) ==
    LET start == ImportsIn(w, p) \X Name
        closed == {Y \in SUBSET Symbol : start \subseteq Y /\ \A x \in Y : RefsIn(w, x) \subseteq Y}
    IN  ImportsIn(w, p) \union {x[1] : x \in {x \in Symbol : \A Y \in closed : x \in Y}}
KeysCoverReachable == \A s \in Snapshot, p \in Pkg :
    LET h == packages[s][p]
    IN  h # NoHandle /\ h.state >= ValidKey =>
            \A q \in Reached(contents[s], p) : LocalKey(contents[s], q) \in h.key.deps

\* A batch counts its requests (the assertions of acquireTypeChecking), and while a
\* request is checking a package the batch has every handle this may ask for.
BatchServesRequests ==
    /\ \A s \in Snapshot : batch[s].ref =
          Cardinality({t \in Thread : th[t].s = s /\ ~At(t, "idle") /\ ~At(t, "done")})
    /\ \A t \in Thread : At(t, "check") => \A p \in Needed(t) :
          batch[th[t].s].handles[p] # NoHandle

\* While a snapshot is in use, requests that race never replace a handle by a worse
\* one.
HandlesImprove == [][\A s \in Snapshot, p \in Pkg :
    (s = cur \/ Users(s) # {})' /\ packages[s][p] # NoHandle =>
        /\ packages'[s][p] # NoHandle
        /\ packages'[s][p].state >= packages[s][p].state]_vars
=============================================================================
