------------------------------- MODULE Loading -------------------------------
(***************************************************************************)
(* Loading and invalidation of metadata (gopls/internal/cache/load.go and  *)
(* snapshot.go): what initialize, reloadWorkspace and MetadataForFile load *)
(* into the current snapshot, and what clone drops and marks when the      *)
(* watcher's events arrive.                                                *)
(*                                                                         *)
(* The go command and the snapshot read the disk at different moments, and *)
(* an edit compares what a file's event says with what the snapshot has    *)
(* read.  A package has one file and a directory of its own; its header    *)
(* is what metadata depend on.  Requests that hold a snapshot an edit has  *)
(* replaced change only that one, which nobody takes again, so an edit     *)
(* ends their part here.                                                   *)
(***************************************************************************)
EXTENDS Naturals, FiniteSets

CONSTANTS Thread, Pkg, Content,
          Header,     \* by content: package clause, imports and magic comments
          Clause,     \* by content: the package clause
          Imports,    \* by content: the packages imported
          Worlds,     \* the disks there may be
          FirstWorlds, \* those there may be at first
          MaxEdits,   \* bound: the number of snapshots after the first
          MaxChanges, \* bound: the number of changes of the disk
          Busy,       \* bound: by snapshot, how many loads are in progress at a time
          NoFile, Unread, NoMeta, NoEdit

Files == [Pkg -> Content \union {NoFile}]
Metas == [content : Content,       \* what the go command read
          deps    : SUBSET Pkg,    \* DepsByPkgPath; other imports are missing
          at      : 0 .. MaxEdits] \* the snapshot it was loaded in: its identity
Edits == [reinit : BOOLEAN, changed : SUBSET Pkg, to : Files]

ASSUME LoadingAssumption ==
    /\ MaxEdits \in Nat /\ MaxChanges \in Nat
    /\ Imports \in [Content -> SUBSET Pkg] /\ Header \in [Content -> Content]
    /\ Clause \in [Content -> Content]
    /\ \A x, y \in Content : Header[x] = Header[y] => /\ Imports[x] = Imports[y]
                                                     /\ Clause[x] = Clause[y]
    /\ FirstWorlds \subseteq Worlds /\ Worlds \subseteq Files
    /\ NoFile \notin Content /\ Unread \notin Content /\ NoFile # Unread
    /\ NoMeta \notin Metas /\ NoEdit \notin Edits

VARIABLES
    disk,        \* the file of each package
    pending,     \* packages whose file has changed and whose event is to come
    changes,     \* the number of changes of the disk
    edit,        \* the files DidModifyFiles has read, and whether a go.mod file changed
    cur,         \* the current snapshot: the number of edits
    initialized,
    files,       \* the files it has read
    meta,        \* its metadata
    shouldLoad,  \* the packages to be loaded again
    unloadable,  \* unloadableFiles
    packages,    \* the metadata of its package handles
    owed,        \* history: metadata dropped and in no load that came to its end since
    raced,       \* history: files read, or removed unread, ahead of their event
    th           \* the requests that load

snapVars == <<initialized, files, meta, shouldLoad, unloadable, packages, owed, raced>>
vars == <<disk, pending, changes, edit, cur, snapVars, th>>

Idle == [pc |-> "idle", kind |-> "reload", scope |-> {}, listed |-> [p \in Pkg |-> NoMeta],
         todo |-> {}]
Threads == [pc     : {"idle", "list", "update", "preload", "end"},
            kind   : {"init", "reload", "file"},
            scope  : SUBSET Pkg,
            listed : [Pkg -> Metas \union {NoMeta}], \* newMetadata
            todo   : SUBSET Pkg]                     \* files to preload

TypeOK == /\ disk \in Files
          /\ pending \subseteq Pkg
          /\ changes \in 0 .. MaxChanges
          /\ edit \in Edits \union {NoEdit}
          /\ cur \in 0 .. MaxEdits
          /\ initialized \in BOOLEAN
          /\ files \in [Pkg -> Content \union {NoFile, Unread}]
          /\ meta \in [Pkg -> Metas \union {NoMeta}]
          /\ shouldLoad \subseteq Pkg /\ unloadable \subseteq Pkg
          /\ owed \subseteq Pkg /\ raced \subseteq Pkg
          /\ packages \in [Pkg -> Metas \union {NoMeta}]
          /\ th \in [Thread -> Threads]

NoMetas == [p \in Pkg |-> NoMeta]

Init == /\ disk \in FirstWorlds /\ pending = {} /\ changes = 0 /\ edit = NoEdit
        /\ cur = 0 /\ initialized = FALSE
        /\ files = [p \in Pkg |-> Unread]
        /\ meta = NoMetas /\ packages = NoMetas
        /\ shouldLoad = {} /\ unloadable = {} /\ owed = {} /\ raced = {}
        /\ th = [t \in Thread |-> Idle]

At(t, l) == th[t].pc = l
Exists(f) == f \in Content

\* The packages whose file has changed and whose event no edit has taken in yet.
Unsettled == pending \union (IF edit = NoEdit THEN {} ELSE edit.changed)
Starts(t) == At(t, "idle") /\ Cardinality({x \in Thread : ~At(x, "idle")}) < Busy[cur]

-----------------------------------------------------------------------------
(* Loading.                                                                *)

\* initialize loads the whole workspace, one request at a time.
StartInit(t) ==
    /\ Starts(t) /\ ~initialized
    /\ \A x \in Thread : At(x, "idle") \/ th[x].kind # "init"
    /\ th' = [th EXCEPT ![t] = [Idle EXCEPT !.pc = "list", !.kind = "init", !.scope = Pkg]]
    /\ UNCHANGED <<disk, pending, changes, edit, cur, snapVars>>

\* reloadWorkspace loads what is marked.
StartReload(t) ==
    /\ Starts(t) /\ initialized /\ shouldLoad # {}
    /\ th' = [th EXCEPT ![t] = [Idle EXCEPT !.pc = "list", !.scope = shouldLoad]]
    /\ UNCHANGED <<disk, pending, changes, edit, cur, snapVars>>

\* MetadataForFile loads a file that is in no package, or in one that is marked; the
\* load reads the file and does nothing if it does not exist or, since the request is
\* cancelled, cannot be read.
StartFile(t, p) ==
    /\ Starts(t) /\ p \notin unloadable
    /\ meta[p] = NoMeta \/ p \in shouldLoad
    /\ \E f \in {files[p]} \union (IF files[p] = Unread THEN {disk[p]} ELSE {}) :
          /\ files' = [files EXCEPT ![p] = f]
          /\ raced' = IF f = files[p] THEN raced ELSE raced \union ({p} \intersect Unsettled)
          /\ th' = [th EXCEPT ![t] = [Idle EXCEPT !.pc = IF Exists(f) THEN "list" ELSE "end",
                                                  !.kind = "file", !.scope = {p}]]
    /\ UNCHANGED <<disk, pending, changes, edit, cur, initialized, meta, shouldLoad,
                   unloadable, packages, owed>>

\* The packages of the scope and what they import, as they are on the disk.
DiskImports(p) == IF Exists(disk[p]) THEN Imports[disk[p]] ELSE {}
Closure(scope) == {q \in Pkg : \A S \in SUBSET Pkg :
    scope \subseteq S /\ (\A p \in S : DiskImports(p) \subseteq S) => q \in S}

ListedAll(scope) == [p \in Pkg |->                            \* mutant
    IF p \in Closure(scope)
    THEN [content |-> disk[p], deps |-> {q \in DiskImports(p) : Exists(disk[q])}, at |-> cur]
    ELSE NoMeta]

\* Packages without a file are ignored.
Listed(scope) == [p \in Pkg |->
    IF p \in Closure(scope) /\ Exists(disk[p])
    THEN [content |-> disk[p], deps |-> {q \in DiskImports(p) : Exists(disk[q])}, at |-> cur]
    ELSE NoMeta]

\* packages.Load runs the go command; it may fail, or be cancelled.
GoList(t) ==
    /\ At(t, "list")
    /\ \/ /\ th' = [th EXCEPT ![t].pc = "update", ![t].listed = Listed(th[t].scope)]
          /\ raced' = raced \union (Closure(th[t].scope) \intersect Unsettled)
       \/ th' = [th EXCEPT ![t].pc = "end"] /\ UNCHANGED raced
       \/ th' = [th EXCEPT ![t] = Idle] /\ UNCHANGED raced
    /\ UNCHANGED <<disk, pending, changes, edit, cur, initialized, files, meta, shouldLoad,
                   unloadable, packages, owed>>

\* Metadata are added, never replaced; the files of what is new will be read
\* unless the snapshot has them.
Update(t) ==
    /\ At(t, "update")
    /\ LET new == {p \in Pkg : th[t].listed[p] # NoMeta /\ meta[p] = NoMeta}
       IN /\ meta' = [p \in Pkg |-> IF p \in new THEN th[t].listed[p] ELSE meta[p]]
          /\ shouldLoad' = shouldLoad \ new
          /\ owed' = owed \ new
          /\ th' = [th EXCEPT ![t].pc = "preload", ![t].listed = NoMetas,
                              ![t].todo = {p \in new : files[p] = Unread}]
    /\ UNCHANGED <<disk, pending, changes, edit, cur, initialized, files, unloadable,
                   packages, raced>>

\* A file may have been read meanwhile; reading fails if the request is cancelled.
Preload(t, p) ==
    /\ At(t, "preload") /\ p \in th[t].todo
    /\ th' = [th EXCEPT ![t].todo = @ \ {p}]
    /\ \/ UNCHANGED <<files, raced>>
       \/ /\ files[p] = Unread /\ files' = [files EXCEPT ![p] = disk[p]]
          /\ raced' = raced \union ({p} \intersect Unsettled)
    /\ UNCHANGED <<disk, pending, changes, edit, cur, initialized, meta, shouldLoad,
                   unloadable, packages, owed>>

\* clearShouldLoad: for a file only its packages that have metadata are known.
Clears(t) == CASE th[t].kind = "init"   -> {}
               [] th[t].kind = "reload" -> th[t].scope
               [] th[t].kind = "file"   -> {p \in th[t].scope : meta[p] # NoMeta}

\* A load that was not cancelled ends, whether it failed or not.
EndLoad(t) ==
    /\ At(t, "end") \/ (At(t, "preload") /\ th[t].todo = {})
    /\ initialized' = (initialized \/ th[t].kind = "init")
    /\ shouldLoad' = shouldLoad \ Clears(t)
    /\ owed' = IF th[t].kind = "reload" THEN owed \ th[t].scope ELSE owed
    /\ unloadable' = IF th[t].kind = "file"
                     THEN unloadable \union {p \in th[t].scope : meta[p] = NoMeta}
                     ELSE unloadable
    /\ th' = [th EXCEPT ![t] = Idle]
    /\ UNCHANGED <<disk, pending, changes, edit, cur, files, meta, packages, raced>>

\* A request evaluates the handle of a package after those of its imports (module
\* PackageHandles); the metadata it took are those of the snapshot, which are not
\* replaced.
Evaluate(p) ==
    /\ meta[p] # NoMeta /\ packages[p] = NoMeta
    /\ \A q \in meta[p].deps : packages[q] # NoMeta
    /\ packages' = [packages EXCEPT ![p] = meta[p]]
    /\ UNCHANGED <<disk, pending, changes, edit, cur, initialized, files, meta, shouldLoad,
                   unloadable, owed, raced, th>>

-----------------------------------------------------------------------------
(* Edits.                                                                  *)

Change == \E w \in Worlds :
    /\ w # disk /\ changes < MaxChanges
    /\ disk' = w
    /\ pending' = pending \union {p \in Pkg : w[p] # disk[p]}
    /\ changes' = changes + 1
    /\ UNCHANGED <<edit, cur, snapVars, th>>

\* DidModifyFiles reads the files of a batch of events; a go.mod file may be among
\* them.
DidModifyFiles(changed, reinit) ==
    /\ edit = NoEdit /\ cur < MaxEdits
    /\ changed \subseteq pending /\ (changed # {} \/ reinit)
    /\ edit' = [reinit |-> reinit, changed |-> changed, to |-> disk]
    /\ pending' = pending \ changed
    /\ UNCHANGED <<disk, changes, cur, snapVars, th>>

\* metadataChanges, for a change of a file from old to new.
ComesOrGoes(old, new) == Exists(old) # Exists(new)
IdentityChanges(old, new) == ComesOrGoes(old, new)            \* mutant
MetadataChanges(old, new) ==
    \/ ComesOrGoes(old, new)
    \/ Exists(old) /\ Exists(new) /\ Header[old] # Header[new]
PkgFileChanges(old, new) ==
    \/ ComesOrGoes(old, new)
    \/ Exists(old) /\ Exists(new) /\ Clause[old] # Clause[new]

\* The packages that have one of S in their imports, as far as metadata know.
DirectOnly(S) == S \intersect {p \in Pkg : meta[p] # NoMeta}  \* mutant
RevDeps(S) == {p \in Pkg : /\ meta[p] # NoMeta
                           /\ \A X \in SUBSET Pkg :
                                 /\ S \subseteq X
                                 /\ \A q \in Pkg : meta[q] # NoMeta
                                       /\ meta[q].deps \intersect X # {} => q \in X
                                 => p \in X}

Missing(p) == Imports[meta[p].content] \ meta[p].deps

\* The marks of the next snapshot.
MarkedAfresh(direct, invalid) == direct \union invalid        \* mutant
Marked(direct, invalid) == shouldLoad \union direct \union invalid

\* The edit's metadata changes, with the snapshot's files and metadata, once it is
\* initialized.
Clone ==
    /\ edit # NoEdit /\ initialized
    /\ LET to == edit.to
           invalidates == {p \in edit.changed : MetadataChanges(files[p], to[p])}
           anyPkgFileChanged == \E p \in edit.changed : PkgFileChanges(files[p], to[p])
           known == {p \in Pkg : meta[p] # NoMeta}
           inDirect == IF edit.reinit THEN known
                       ELSE (invalidates \intersect known) \union
                            {p \in known : anyPkgFileChanged /\ Missing(p) # {}}
           direct == inDirect \union (edit.changed \intersect known)
           invalid == RevDeps(inDirect)
           kept == known \ invalid
           mentioned == kept \union UNION {Missing(p) : p \in kept}
       IN /\ initialized' = ~edit.reinit
          /\ files' = [p \in Pkg |-> IF p \in edit.changed THEN to[p] ELSE files[p]]
          /\ meta' = [p \in Pkg |-> IF p \in invalid THEN NoMeta ELSE meta[p]]
          /\ packages' = [p \in Pkg |-> IF p \in invalid THEN NoMeta ELSE packages[p]]
          /\ shouldLoad' = Marked(direct, invalid)
          /\ unloadable' = unloadable \ invalidates
          /\ owed' = owed \union invalid
          /\ raced' = (raced \ (edit.changed \ mentioned)) \union
                      {p \in edit.changed \intersect kept : files[p] = Unread /\ ~Exists(to[p])}
    /\ cur' = cur + 1
    /\ edit' = NoEdit
    /\ th' = [t \in Thread |-> Idle]
    /\ UNCHANGED <<disk, pending, changes>>

Next == \/ \E t \in Thread :
              \/ StartInit(t) \/ StartReload(t) \/ GoList(t) \/ Update(t) \/ EndLoad(t)
              \/ \E p \in Pkg : StartFile(t, p) \/ Preload(t, p)
        \/ \E p \in Pkg : Evaluate(p)
        \/ Change
        \/ \E changed \in SUBSET Pkg, reinit \in BOOLEAN : DidModifyFiles(changed, reinit)
        \/ Clone

Spec == Init /\ [][Next]_vars

-----------------------------------------------------------------------------
\* The invariants that snapshot.go:132-135 wants preserved: a handle has the metadata
\* of the snapshot (load panics with "inconsistent metadata" if it has not), and the
\* imports of a package that has a handle have one.
HandlesHaveMetadata == \A p \in Pkg : packages[p] # NoMeta =>
    /\ packages[p] = meta[p]
    /\ \A q \in packages[p].deps : packages[q] # NoMeta

\* Metadata that edits have dropped are marked to be loaded again until a load of them
\* comes to its end: cancelled loads, loads into snapshots that are replaced meanwhile,
\* failed loads of single files and further edits do not lose them.
DroppedMarked == owed \subseteq shouldLoad

\* Once the event of a file's last change has been taken in, metadata agree with the
\* disk on the file's header, and on whether it is there if it was a missing import: what
\* a load has found before, or adds later, is dropped by the edit.  It is not if the file
\* was read ahead of its event, which breaks the detection of changes (snapshot.go:
\* 1600-1602), or was never read and is removed.
Agrees(p, m) == Exists(disk[p]) /\ Header[disk[p]] = Header[m.content]
MetadataFollowDisk == \A p \in Pkg : meta[p] # NoMeta =>
    /\ p \notin Unsettled \union raced => Agrees(p, meta[p])
    /\ \A q \in Missing(p) \ (Unsettled \union raced) : ~Exists(disk[q])
=============================================================================
