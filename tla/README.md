# Verification of gopls-mcp

gopls-mcp is a fork of gopls that serves its language intelligence to agents
over the Model Context Protocol. This directory holds TLA+ models of its core,
the TLC configurations that check them on small instances, and proofs, checked
by TLAPS, of what matters most for every instance. Line numbers are those of the
files under `src/`; `cache/` stands for `gopls/internal/cache/`, `mcpbridge/` for
`gopls/mcpbridge/`. `PROJECT.json` lists every component, run, mutant, mapped
definition, finding, hazard and theorem.

## 1. Inventory

How the program works: `Execute` (`mcpbridge/pkg/execute.go`) makes a
`cache.Session` with one view of the working directory, starts a file watcher and
serves MCP tool calls. A tool call takes a snapshot of a view, awaits its initial
load, asks it for packages (which are type-checked in batches, through futures and
promises) and releases it. The watcher turns events of the file system into
`Session.DidModifyFiles`, which replaces the current snapshot of every view by a
clone, and sometimes the views themselves.

| part | state | operations | what is hard | what makes it correct |
|---|---|---|---|---|
| process (`mcpbridge/pkg/execute.go`) | one session, one view, the MCP server, the watcher | start, serve, exit on signal or end of input | a snapshot released explicitly and by a defer | each reference given back once |
| LSP stand-in (`mcpbridge/pkg/lsp_wrapper.go`) | a pointer to the session | `DidChangeWatchedFiles`, `Symbol` | replaces gopls's own conversion of watcher events | the session learns every change |
| bridge watcher (`mcpbridge/watcher/watcher.go`) | an event queue, a wake-up channel | handler, notifier, `Close` | lost wake-ups, shutdown in the middle | no batch is lost or reordered |
| file watcher (`gopls/internal/filewatcher/`) | two queues, a timer, known directories | `run`, `process`, directory walks, `Close` | the disk changes while it is walked; `Add` may block until fsnotify is drained | no change lost, what a walk finds in order, `Close` returns and ends everything |
| session and views (`cache/session.go`, `cache/view.go`) | views, file-to-view map, `viewMu`, the wait group of snapshots | `NewView`, `RemoveView`, `ResetView`, `DidModifyFiles`, `InvalidateView`, `SnapshotOf`, `Shutdown` | requests hold snapshots while edits replace them and views are shut down; an edit waits for a load with `viewMu` held | a snapshot lives exactly as long as somebody holds it; a request after an edit sees it |
| snapshots (`cache/snapshot.go`) | reference count, `initialized`, the data of a view at one moment | `Acquire`, `decref`, `AwaitInitialized`, `clone` | the first load is shared, cancelled and retried | initialized once, cloned only then |
| loading and invalidation (`cache/load.go`, `cache/snapshot.go`) | `shouldLoad`, metadata, files read, unloadable files | `load`, `reloadWorkspace`, `MetadataForFile`, `preloadFiles`, `clone` | loads race with each other and with edits; the go command and the snapshot read the disk at different moments; failures part-way | metadata agree with the files the events have told of, what an edit drops is loaded again |
| futures (`cache/future.go`) | per key a future with `refs`, `done`, `acquire` | `get` | cancellation hands work from one goroutine to another | one worker and one value a round, nobody waits for ever |
| promises (`gopls/internal/util/memoize/`) | per promise state, waiters, `done`; a counted store | `Get`, `Store.Promise`, its release | the last waiter's cancellation races with completion and with new callers | callers share one promise, a completed one never changes, the argument outlives the function |
| type checking (`cache/check.go`) | the current batch, package handles and their keys | `acquireTypeChecking`, `forEachPackage`, `evaluatePackageHandle`, `clone` | handles outlive edits and are pruned, evaluated by several requests at once; batches joined and left concurrently | a handle is never stale, a request gets a package of its own snapshot |
| parse cache (`cache/parse_cache.go`) | entries, a clock, a collector | `startParse`, `gcOnce`, `allocateSpace` | eviction while requests wait | a bounded cache, no parse lost |
| analysis driver (`cache/analysis.go`) | the graph of actions with counters | scheduling of an action when its dependencies are done | failures and cancellation of a dependency | every action runs once, after its dependencies |
| overlays and memoized files (`cache/fs_overlay.go`, `cache/fs_memoized.go`) | contents by URI; by modification time | `ReadFile`, `updateOverlays` | stat and read are two steps; part of a batch may fail | a cached content is that of its modification time |
| disk cache (`gopls/internal/filecache/`) | files shared by processes | `Get`, `Set`, eviction | several processes publish and evict | what is read was written whole |
| LSP server (`gopls/internal/server/`, `lsprpc/`, `progress/`) | server state, views to diagnose | the LSP requests | diagnoses overtaken by edits | not part of the gopls-mcp binary |
| tool handlers (`mcpbridge/core/`) | none | the MCP tools | views come and go between two calls | snapshots taken are released |
| limits and truncation (`mcpbridge/core/response_limiter.go`, `truncation.go`) | none | pure functions | boundaries | results within the limit |
| metadata graph, indexes, language features, analyzers | none | pure functions of a snapshot or a package | algorithms | agreement with a definition |

Interaction: the watcher calls the session, one `DidModifyFiles` at a time; tool
calls share the session through `viewMu`, `snapshotMu` and reference counts;
snapshots share promises through a store and packages through futures; the
goroutine of a view's first load shares its first snapshot with the requests.

## 2. Modules and the code

| module | models | how it corresponds |
|---|---|---|
| `SingleFlight` | what `futureCache` promises (`cache/future.go:13-50`) | abstract: per key a round of callers, at most one worker, a value |
| `FutureCache` | `cache/future.go:52-143` | one action per step of `get`: lookup, the select on `done`, `acquire` and the context, computing, handing the unit back, storing, closing `done`, the deferred decrement. `token` is the content of the channel `acquire` |
| `FutureCacheProofs` | | proofs about `FutureCache`, and that it implements `SingleFlight` |
| `Session`, `MCSession` | `cache/session.go`, `cache/view.go`, and of `cache/snapshot.go` the counting and initialization | see below |
| `SessionProofs` | | proofs about `Session`: counts, locks, shutdown |
| `SessionEditProofs` | | proofs about `Session`: what edits promise to requests |
| `Bridge`, `MCBridge` | `mcpbridge/pkg/execute.go` on top of `Session` | `main` is the control point of `Execute`; tool calls and edits are `Session`'s |
| `BridgeProofs` | | proofs about `Bridge`, and that it implements `Session` until it exits |
| `Memoize` | `gopls/internal/util/memoize/memoize.go` | each section under a mutex is an action; a run is the goroutine of one call of the function, which may outlive its promise |
| `MemoizeProofs` | | proofs about `Memoize` |
| `FileWatcher` | `gopls/internal/filewatcher/filewatcher.go`, over an external model of the disk and of fsnotify | the goroutines `run` (`Receive`, `Flush`, `RunStops`) and `process` (`Take` to `ProcessStops`), the walk one system call at a time, `Close` in its three steps |
| `PackageHandles`, `MCPackageHandles` | of `cache/check.go` the handles, their keys and the batch; of `cache/snapshot.go` what `clone` keeps of them | see below |
| `PackageHandlesProofs` | | proofs about `PackageHandles` |
| `Loading`, `MCLoading` | `cache/load.go`; of `cache/snapshot.go` `reloadWorkspace`, `MetadataForFile`, `preloadFiles` and what `clone` does to metadata | see below |
| `LoadingProofs` | | proofs about `Loading` |
| `BridgeWatcher`, `MCBridgeWatcher` | `mcpbridge/watcher/watcher.go` and `DidChangeWatchedFiles`, extending `FileWatcher` | the queue, the notifier, `Close`; `seen` is which version of each file the session has |
| `BridgeWatcherProofs` | | proofs about `FileWatcher` and `BridgeWatcher` |

**Session.** A mutex whose critical section cannot block makes that section one
action. `viewMu` is nevertheless a variable, because `DidModifyFiles` keeps it
while it waits for a load and creates and retires views one after the other;
`View.snapshotMu` is held across steps only by `invalidateViewLocked`, and the
operator `Invalidating` says when. Threads are goroutines that serve any number of
calls. A view has its current snapshot (`cur`), the flag that `initialWorkspaceLoad`
is closed (`iwl`), its initialization semaphore, and the goroutine of `createView`
(`lpc`, `lsnap`). A snapshot has its count, its view, `initialized`, and the number
of the last edit it has seen, which stands for its file contents. `DidModifyFiles`
changes the overlays, may choose any new set of view definitions for the same
folders, creates and retires views, resets `viewMap`, looks up a view for the
changed file, and replaces the snapshot of every view. `SnapshotOf` has its fast
path, the retry when the view it found is shut down meanwhile, the search
through all views and the last resort. Contexts of requests are cancelled at any
moment; edits run on a detached context (`view.go:785`).

**Bridge.** Nobody calls `Shutdown` or `NewView` again; the `Watcher` thread edits
and the others make tool calls. `Exit` is the end of the select, `DeferredRelease`
the second call of `releaseView`.

**Memoize.** `arg` counts the references to the argument of `Get` (a snapshot);
a value computed on an argument that was given back too early is `Spoiled`.

**PackageHandles.** A snapshot is the number of edits before it; its files are
`world[k]`, a content for every package, and the contents say what a package
imports and which packages its names refer to. A handle has its state (metadata,
local data, key, imports, package: `check.go:806-812`), its local key, its key and
the data of the last type check. A request keeps its snapshot, walks the packages
of its graph from the leaves up (`node`), and between reading a handle and storing
the new one other requests work on the same package. A key is the set of pairs of
a package and its local key that `evaluatePackageHandle` hashes; `trans` is
what a request remembers of `getOneTransitiveRefLocked`, computed with the code's
order of operations, the shadowed variable included. `Clone` lowers the handles of
the reverse dependencies of what was touched. The batch is the current one, its
count of requests and the handles they gave it.

**Loading.** Only the current snapshot is modelled: a load that goes on in one that
was replaced changes nothing anybody takes again. A package has one file and a
directory of its own. The disk changes at any moment; its changes wait in
`pending` until `DidModifyFiles` reports some of them, so that the go command and
`ReadFile` may be ahead of the events. A request is in one of the steps of `load`:
run the go command (`GoList`, which reads what is imported as the disk has it, and
may fail or be cancelled), add new metadata (`Update`), read their files
(`Preload`), and end (`EndLoad`, which clears the marks). `edit` is between the
reading of the changed files and the clone, which compares the two files' header
and package clause (`Header`, `Clause`) and waits for the first load. `Closure` is what `go list -deps`
lists, `RevDeps` what the loops of `clone` collect. `owed` and `raced` are history
variables.

**FileWatcher.** The disk is a small tree whose files and directories are made,
written, removed, moved away and moved in as whole trees, between any two system
calls of the watcher. `disk[p]` tells the versions of a path apart. fsnotify
reports events of the directories it watches and forgets directories that are
removed or moved. `failed` are the directories that could not be watched or read
for good.

## 3. Runs

| run | checks | shows |
|---|---|---|
| `future_cache` | `TokenConserved`, `EntriesExact`, `ReturnsRoundValue`, `PersistentOnce`, `CallsReturn`, and that it implements `SingleFlight` | three goroutines, a transient key and a persistent one; every call may be cancelled at any moment; under fairness every call returns |
| `session_edits` | `InvalidatesCurrent`, `RegistryConsistent`, `RequestsSeeEdits` | requests race with two edits that may replace the view; 527,268 states |
| `session_shutdown` | `RefsExact`, `WaitGroupExact`, `ShutdownDrains`, `InitializedOnce` | tool calls race with resets, removals, invalidations and the end of the session; 692,049 states |
| `session_liveness` | `LockReleased`, `AwaitEnds` | an edit that waits for a load gives `viewMu` back, and a finished load lets its waiters go on; 55,320 states |
| `bridge_serve` | `ServingRefsExact` | the process with the watcher and one client, two edits; 603,081 states |
| `memoize` | `SharedWhileHeld`, `RunningWhileAwaited`, `GetReturnsValue`, `ArgumentAlive`, `CompletedForGood`, `GetReturns` | two goroutines get one key, any `Get` cancelled at any moment, late runs; 248,753 states |
| `bridge_watcher` | `ParentsFirst`, `ChangesReachSession`, `NothingAfterClose`, `Settles`, `CloseReturns` | three changes race with the watcher, one directory may fail, `Close` at any moment; 688,779 states |
| `package_handles` | `HandlesCurrent`, `ResultsCurrent`, `BatchServesRequests`, `HandlesImprove` | two edits of bodies, imports and open files of a chain of three packages race with up to two requests, any of which may be cancelled; 182,700 states |
| `loading` | `HandlesHaveMetadata`, `DroppedMarked`, `MetadataFollowDisk` | two loads of any kind, failing or cancelled, race with a change of the disk and two edits, of which the events may come late and one at a time; 1,857,775 states |
| `package_keys` | `KeysCoverReachable` | violated, see below |
| `bridge_exit` | `ExitsCleanly` | violated, see below |
| `bridge_moves` | `SessionFollowsDisk` | violated, see below |

Each module's type invariant is checked too, in one of its runs. Every property
has a mutant of the code (the definitions marked `mutant`) that violates it.

**Findings.** What the violated runs show of the code:

* `package_keys`: the key of a package must incorporate "all reachable
  dependencies" (`check.go:833`), and `getOneTransitiveRefLocked` is to compute "the
  full set" (`check.go:1117`). It declares a second `pkgs` in the branch that computes
  a set (`check.go:1166`) and returns the outer one, nil (`check.go:1175`): who asks
  for a set first gets nothing. On a chain of four packages whose names refer to
  each other the key of the first does not depend on the last. The proofs of
  `HandlesCurrent` and `ResultsCurrent` take keys as the code computes them: a handle
  has the key of its snapshot's files, and a package is one checked under that key.
* `bridge_exit`: `Execute` calls `releaseView` when it has started
  (`execute.go:196`) and by a defer (`execute.go:193`). After one file change the
  first snapshot may be destroyed, and the deferred call panics on exit; the
  comment says "Always exit cleanly" (`execute.go:279`).
* `bridge_moves`: `minimalServer` does not expand directories to their files, as
  gopls does (`text_synchronization.go:255`), although its comment says that it
  converts events as gopls does (`lsp_wrapper.go:91-92`). A directory that is moved
  away is one event, and the session keeps its files. `ChangesReachSession` says
  that nothing else is lost.

`ParentsFirst` is about what `process` appends at a time, as far as the comment
"parent directory creation events always precede those of their children"
(`filewatcher.go:213-214`) is true. Of a whole batch, which is to be "logically correct
(maybe slightly outdated)" (`filewatcher.go:254-255`), it is not: let `d` be made and its
walk begin; `d` is removed and made again, and the walk watches the new one; `d/g` is
made and `d` moved away. The batch is `CREATE d`, then `DELETE d` for the first
removal, then `CREATE d/g`, since the second `d` is taken for a directory no more
and its events are dropped. It takes five changes, more than the run
allows. The session is not misled: it reads the disk, not the types of events.

Two more disagreements seen while modelling, without a run: `createView`'s
goroutine may take the cancelled context in its select (`view.go:617`) and return
without closing `initialWorkspaceLoad` when the view is shut down early, although the
first attempt "must be allowed to run to completion" (`view.go:603-604`); and
`viewMap` maps a file to its "best view or nil" (`session.go:67`), but `NewView`
does not reset it, so that a nil memoized earlier stays.

`MetadataFollowDisk` is what the files' events are for: when the last change of a
file has been reported, the metadata of its package have its header, and a missing
import is missing, whatever loads and edits did in between. It exempts the files
in the history variable `raced`, where the code lets it fail, for good: (a) the go
command or the snapshot read the file after a change and before the event, which
then finds nothing changed (the detection "broke", `snapshot.go:1600-1602`), while
`load` replaces no metadata (`load.go:265-272`); a new file read that way resolves
no missing import; (b) a file of known metadata that was never read, since
`preloadFiles` was cancelled or overtaken by the edit, is removed: `clone` has no
old file to compare with. A file leaves `raced` when an edit reports it while no
metadata that are kept mention it. (c) A new package in a new directory is marked
by no event: only `MetadataForFile` or an importer finds it.

**Bounds, and why they are enough.** Two threads are one request and one edit, or
two requests, racing (the proofs cover any number). Two views are a view
and the one that replaces it, three or four snapshots the current one, its clone
and the ones still held; identities are used again when nothing mentions them, so
the number of calls is not bounded. Two definitions of one folder make an edit
that replaces a view. `MaxEdits` is 1 or 2: an edit during a request, and one more
to overtake it. Three goroutines in `FutureCache` are one that computes, one that
takes over and one that comes in between; two keys show that they do not disturb
each other, and a future that nobody can reach any more is used again. In `Memoize` two runs
are the one that was cancelled and its successor. In `BridgeWatcher` the tree is
three directories deep with a file in each of the lower two; `MaxChanges = 3`
suffices for a directory to be made, filled and removed during one walk,
`MaxFailures = 1` for a directory that cannot be watched. In `PackageHandles` a
chain of three packages has an importer whose import is itself an importer: its key
stays, is pruned or changes as the middle one's key does; two edits (`MaxEdits = 2`)
let a handle survive one and be checked after the next; `MaxTouched` bounds how
many packages an edit touches, `Busy` how many requests work on each snapshot. In
`Loading` two packages are an importer and its import, with three worlds:
the import is there or missing at first (`FirstWorlds`), and may come, go or not be
imported any more; `MaxChanges = 1` changes both files or one and the events
may still come in two edits; `Busy = <<1, 2, 1>>` allows two loads at a time after
the first edit. (The proofs of both have no bound on packages, edits or requests.) Symmetry of threads,
views and snapshots is used in safety runs only; `bridge_serve` keeps the threads
apart because one is the watcher. Deadlock is not checked where the system may
really stop: sessions that are shut down, clients with no calls left to make, edits
and changes at their bound, a closed watcher.

**Fairness, and why the code justifies it.** Goroutines that can go on do so
(weak fairness of every internal step). Strong fairness stands for first-in
first-out queues of the runtime: senders on `acquire` and `initializationSema`
are served in order. `SF(Release)` says that a request uses its snapshot finitely
often. Loads (`go list`) and computed functions end. Nobody need begin a call, be
cancelled, change a file or call `Close`. In the watcher, the timer fires in the
end, and `process` counts on progress while it adds a watch only when fsnotify is
drained or closed (`ProcessUnblocked`), which is how `fsnotify/fsnotify#502` is
taken into account: safety lets it go on at any moment, liveness does not rely on
it.

## 4. Proofs

`FutureCacheProofs` (826 obligations), from `ConstantAssumption` (a finite set of
goroutines, values that are not the markers): the inductive invariant `IInv` adds
to the checked invariants which locals a goroutine has at each point (`Calls`),
that a future serves one key (`Injective`) and that results are of the right round
(`Results`). The unit of a future is conserved only together with the exact count
of its holders, since a future is forgotten by its last holder and its identity
used again. There is a lemma per action group (`EnterIInv`, `StepIInv`,
`CancelIInv`, `LeaveIInv`). Theorems: `TypeCorrect`, `TokenConservation`,
`SharedFuture`, `ReturnsAgree`, `DecidedOnce` (an action
property) and `Refinement` (the code implements `SingleFlight`: initial states map
to initial states, each step to a step or a stutter).

`SessionProofs` (2476 obligations), from `SessionAssumption` (finitely many threads
and snapshots, distinct markers), for any numbers of threads, views, snapshots,
files, folders, definitions, edits and for any set of calls. `RefsExact` is not
inductive by itself: an edit decrements the count of the snapshot it replaces,
and that the replaced one is still current follows from who holds `viewMu`. So
`IInv` is `TypeOK`, `RefsExact` and `WaitGroupExact` with

* `Registry`: a view's current snapshot and its loader's belong to it (so
  no two views share one), active views have a current snapshot unless somebody is
  replacing views, and a shut-down session has none;
* `Local(t)`: where a call of each kind may be (`Control`), which snapshots it
  holds there (`Holds`), that edits hold `viewMu` and a shutdown excludes them
  (`Locks`), and what is known of the views it keeps and will visit (`Visits`).

Frame lemmas say what a step of one thread leaves alone (`ThreadOnly`,
`ThreadStep`, `ReferenceStep`, `DecrefStep`); lemmas on cardinalities say what
acquiring and releasing do to the count; then there is one lemma per action.
Theorems: `TypeCorrect` (counts never become negative), `ReferencesExact`,
`WaitGroupCounts`, `Drains`, `InvalidatesCurrentSnapshot`.

`SessionEditProofs` (2404 obligations), on top of it and from the same assumption.
A request takes the snapshot of a view that an edit may be replacing, so that it sees
the edits that had ended when it began depends on what every edit has done so far.
`EditInv` says, for each thread,

* `Replacement`: while views are replaced, any view with a snapshot is to be
  kept or will be shut down, and those kept and those to be made have different
  definitions;
* `Sees`: which edits the snapshots held by a request have seen, and that an edit in
  progress has brought every active view it has already visited up to itself;
* `Loads`: who is in `initializationSema`, with a snapshot of that view that is not
  initialized; a snapshot is cloned by `invalidateViewLocked` only when it is;

that until the goroutine of `createView` has ended its load nobody else loads the
view (`FirstLoad`), and that between replacements every view with a snapshot is active
(`Active`). When `DidModifyFiles` returns it has visited them all, so every snapshot
that can still be obtained has seen its edit. Theorems: `RegistryStaysConsistent`,
`EditsAreSeen`, `LoadsHappenOnce`. A second invariant, `WaitInv` (who is in
`initializationSema` is loading; a view's first load is not given up unless the view is
shut down), gives `WaitsAreNotInVain`: `viewMu` is held by edits only, which wait for
views that are not shut down, and whoever waits for a load waits for one that can go on.
That is the part of `LockReleased` and `AwaitEnds` that is not fairness.

`BridgeProofs` (655 obligations) lifts them to the process. Its refinement mapping adds
to the goroutines one, `Main`, that calls `NewView` (`Boot`) and then holds the first
snapshot until it releases it (`ReleaseFirst`): `process` is the session's `th`. Each
action of a goroutine of the process is then the same action of that session (one
lemma each); the only thing to show is that what is fresh for the process is fresh
with `Main` too, because the reference it holds keeps the first snapshot alive. So
every step but `DeferredRelease` is a step of `Session` or a stutter
(`ServesAsSession`), and `IInv` and `EditInv` of the mapped session are invariants
until then: `ServingReferencesExact`, `ToolCallsSeeEdits`. Nothing of the kind holds
after the deferred release, which is the finding of the run `bridge_exit`.

`PackageHandlesProofs` (1738 obligations), for any packages, contents, imports,
references, edits and requests. `HandlesCurrent` is about handles that were stored
two edits ago, lowered and declared valid again, so `IInv` says what every handle is
worth at the snapshot it is in: `Stored` (what its state claims of its local key,
key, imports and data is true of that snapshot's files, and its imports have
handles), `Unborn` (snapshots to come have none), `Requests` (the same of what a
request has read, and of the results it has got) and `Counted` (the batch's count
and handles). The argument: a local key and a key are facts of a world; an edit
lowers every handle whose local key or reachable packages it may have changed and
no other keeps a claim that is not true of both worlds (`ClonedSound`); and if
neither the local key nor the keys of the imports have changed, neither has the key
(`KeyLocal`, `KeyPruned`), which is what makes pruning right. `HandlesOnlyImprove` is
an action property.

`LoadingProofs` (655 obligations), from `LoadingAssumption`, for any packages, contents, worlds,
edits and requests. `IInv` adds to `TypeOK`, `HandlesHaveMetadata` and
`DroppedMarked` that what is owed has no metadata (`OwedGone`: a load that gives it
metadata pays), and which edits there can be (`EditAllowed`). An edit keeps the
first because the dropped packages are closed under reverse dependencies
(`RevDeps`). `MetadataFollowDisk` relates metadata and disk, while an edit compares
files with files, so `FollowInv` goes through what the snapshot has read: a file
read is the disk's unless its event is to come (`FilesFollow`), so is what an edit
has read (`EventsFollow`), and metadata, added or listed and about to be, agree with
the file read, or with the disk if none was (`MetaSeen`, `ListSeen`). Loads and
changes keep that (`SeenKept`: what is read of an unsettled file is `raced`); an edit
does because it drops every known package whose header differs from the file read
before, or, when a file comes, that misses an import, and what it keeps agrees with the
new file (`CloneFollows`). Theorems: `TypeCorrect`, `HandlesAgree`,
`DroppedStayMarked`, `MetadataFollow`.

`MemoizeProofs` (1430 obligations), from `MemoizeAssumption` (a finite set of
goroutines, distinct markers), for any goroutines, keys, promises, runs and values
and for both eviction policies. `RunningWhileAwaited` and `GetReturnsValue` say what
a waiting caller may count on, but a run reads and writes its promise long after it was
started. So `IInv` adds to the checked invariants: a key has a promise of its own
(`Injective`); a promise's `waiters` is at least the number of goroutines that wait
(`Waiters`), and while there are any its current run is neither cancelled nor over
(`Running`); only completion wakes a caller, and what is published is a value
(`Completed`), which rests on what each run is at each point (`RunsWork`): a run
publishes only if it has not seen its context cancelled, and then it has a
value. `ArgumentAlive` needs that
the references to each goroutine's argument are exactly the one of its call and those
of the runs it was passed to (`ArgsCounted`). Theorems: `TypeCorrect`,
`PromisesShared`, `AwaitedRuns`, `GetsReturnValues`, `ArgumentsAlive`, and the
action property `CompletedStays`.

`BridgeWatcherProofs` (1826 obligations), from `FileWatcherAssumption` (a finite tree of
paths, no path below itself, and at the start every path on disk with its directory),
for any tree, changes and failures. `TypeCorrect` needs `Working` (`process` has an event
while it walks and a directory while it reads), and `ClosedForGood` (the action property
`NothingAfterClose`) the order in which `Close` ends things (`Closing`). `Lineage` is
defined as the least set with all parents, from which the lemmas on the tree follow
without induction (`LineageLeast`, `LineageParent`, `LineageChild`).

`NoChangeIsLost` (`[]ChangesReachSession`). The property speaks of quiet moments only;
the invariant `Tracked` says at every moment why a change will get there. A directory
on disk is watched, or `process` will come to it or to a directory above it
(`ToBeWalked`: a creation is reported, in hand, or the walk has it or its directory
before it); a file is known to the session as it is, or an event for it is somewhere
between fsnotify and `DidModifyFiles` (`OnItsWay`), or a walk will find it, or it
vanished unnoticed. A change in a directory that is not watched is covered because that
directory is itself still to be walked (`ParentComes`); a walk that comes to a directory
watches it before it reads it, and everything present is among its entries
(`ProcessComes`); and whatever is taken from one queue is put in the next
(`ProcessCarries`, `OthersTracked`). It also needs that the disk is always a tree
(`Tree`) and that who waits has nothing in hand (`Empty`).

`WalksInOrder` (the action property `ParentsFirst`). `Walk` relates what is still to be
visited to what was found: it lies in directories already met, is listed once, and
nothing met lies below it, so that a directory that is read anew, whatever happened
to it meanwhile, lists nothing the walk has seen.

Only model-checked: the liveness properties (`Settles`, `CloseReturns`, `CallsReturn`,
`LockReleased`, `AwaitEnds`, `GetReturns`), which are out of the prover's reach;
`WaitsAreNotInVain` proves the safety part of `LockReleased` and `AwaitEnds`.
Every other property of a passing run is a theorem.

## 5. Not modelled

* Of `Session`: what a load finds and what a clone keeps (a clone either must be
  initialized again or not), the choice of view definitions (any choice),
  the order of the list of views, orphaned-file diagnostics, and failures of
  `createView`.
* Of `Bridge`: HTTP mode, which ends with the process and reaches no deferred call, and dynamic views, which are for tests (`handlers.go:115`).
* Of `Memoize`: `Cached`, `Stats` and `DebugOnlyIterate`, which only read. The run
  is of the policy `RefCounted`; `neverEvict` is a parameter.
* Of the watchers: `WatchDir` at start (so also changes between the first load and
  its end, which nobody notices), `os.Stat` errors other than absence, events the
  kernel drops, the length of the delay, events that fsnotify still reports for
  directories below one that was moved, a path that is a file first and a directory
  later. A directory removed, made and removed
  again before the first removal is processed is forgotten by `knownDirs`, so its
  second removal is not reported; the files in it are. The notifier may make one
  last call of `DidModifyFiles` after `Close` has returned.
* Of `PackageHandles`: how imports and syntax are computed (the futures of the batch
  are `FutureCache`'s), export data and diagnostics kept on disk under a key, errors
  other than cancellation.
* Of `Loading`: overlays, packages of several files, several packages of a
  directory, test variants, `command-line-arguments` and standalone packages, import
  cycles, the go.mod handles that `clone` resets, vendoring.
* The memoized file system: its rule for caching by modification time depends on
  the clock of the disk, and gopls-mcp opens no overlays. The parse cache is a cache
  of promises (`Memoize`) whose evictions cost time only. The analysis driver and the
  go.mod handles are not on the path of the tools, or thin users of promises. The disk
  cache rests on renames and checksums a model would have to assume.
* The LSP server, transport and progress are not in the gopls-mcp binary. Language
  features, indexes, analyzers, limits and truncation are functions without
  state of their own. Vendored tools and the web site, most of the repository's
  lines, are not this program.

## 6. Plan

Done, in this order, the most important behaviour first: `FutureCache` with its
abstract specification and proofs; `Session` and its proofs of both
kinds; `Bridge` on top of it and its proofs; `Memoize` and its proofs; `FileWatcher`
and, on top of it, `BridgeWatcher`, and their proofs; `PackageHandles` and its proofs; `Loading` and its
proofs.

Next:

1. `MemoizedFS` under `Loading`, with the clock of the disk; packages of several files.
2. `Startup`: the first load composed with `WatchDir`.
3. `AnalysisScheduler`, the counters of the action graph; `ParseCache`; `FileCache`
   with two processes.
