---------------------------- MODULE LoadingProofs ----------------------------
(***************************************************************************)
(* What Loading promises, for any packages, contents and requests.  The    *)
(* invariant adds to its properties that dropped metadata that are owed    *)
(* are not there (so that loading a file, which clears the marks of its    *)
(* packages, clears none of theirs) and that an edit being made is one of  *)
(* those the bound allows; the last section relates metadata and disk.     *)
(***************************************************************************)
EXTENDS Loading, TLAPS

OwedGone == \A p \in owed : meta[p] = NoMeta
EditAllowed == edit # NoEdit => cur < MaxEdits
IInv == TypeOK /\ HandlesHaveMetadata /\ DroppedMarked /\ OwedGone /\ EditAllowed

-----------------------------------------------------------------------------
\* Types.  What the go command lists are metadata of the current snapshot.
LEMMA ListedTyped ==
    ASSUME TypeOK, NEW S \in SUBSET Pkg
    PROVE  Listed(S) \in [Pkg -> Metas \union {NoMeta}]
<1> SUFFICES ASSUME NEW p \in Pkg, Exists(disk[p])
             PROVE  [content |-> disk[p], deps |-> {q \in DiskImports(p) : Exists(disk[q])},
                     at |-> cur] \in Metas
  BY DEF Listed
<1>1. disk[p] \in Content /\ cur \in 0 .. MaxEdits
  BY DEF TypeOK, Exists
<1>2. DiskImports(p) \subseteq Pkg
  BY <1>1, LoadingAssumption DEF DiskImports
<1> QED BY <1>1, <1>2 DEF Metas

LEMMA IdleTyped == Idle \in Threads
BY DEF Idle, Threads

LEMMA TypeInit == Init => TypeOK
<1> SUFFICES ASSUME Init  PROVE TypeOK
  OBVIOUS
<1>1. disk \in Files
  BY LoadingAssumption DEF Init
<1>2. changes \in 0 .. MaxChanges /\ cur \in 0 .. MaxEdits
  BY LoadingAssumption DEF Init
<1>3. th \in [Thread -> Threads]
  BY IdleTyped DEF Init
<1> QED BY <1>1, <1>2, <1>3 DEF Init, TypeOK, NoMetas

\* The steps of a load keep the types.
LEMMA TypeLoad ==
    ASSUME TypeOK, NEW t \in Thread,
           \/ StartInit(t) \/ StartReload(t) \/ GoList(t) \/ Update(t) \/ EndLoad(t)
           \/ \E p \in Pkg : StartFile(t, p) \/ Preload(t, p)
    PROVE  TypeOK'
<1> USE DEF TypeOK
<1>0. th[t] \in Threads
  OBVIOUS
<1>1. CASE StartInit(t)
  <2>1. [Idle EXCEPT !.pc = "list", !.kind = "init", !.scope = Pkg] \in Threads
    BY IdleTyped DEF Threads
  <2> QED BY <1>1, <2>1 DEF StartInit, snapVars
<1>2. CASE StartReload(t)
  <2>1. [Idle EXCEPT !.pc = "list", !.scope = shouldLoad] \in Threads
    BY IdleTyped DEF Threads
  <2> QED BY <1>2, <2>1 DEF StartReload, snapVars
<1>3. CASE GoList(t)
  <2>1. [th[t] EXCEPT !.pc = "update", !.listed = Listed(th[t].scope)] \in Threads
    BY <1>0, ListedTyped DEF Threads
  <2>2. [th[t] EXCEPT !.pc = "end"] \in Threads
    BY <1>0 DEF Threads
  <2>3. th' \in [Thread -> Threads]
    BY <1>3, <2>1, <2>2, IdleTyped DEF GoList
  <2>4. raced' \subseteq Pkg
    BY <1>3 DEF GoList, Closure
  <2> QED BY <1>3, <2>3, <2>4 DEF GoList
<1>4. CASE Update(t)
  <2> DEFINE new == {p \in Pkg : th[t].listed[p] # NoMeta /\ meta[p] = NoMeta}
  <2>1. [th[t] EXCEPT !.pc = "preload", !.listed = NoMetas,
                      !.todo = {p \in new : files[p] = Unread}] \in Threads
    BY <1>0 DEF Threads, NoMetas
  <2>2. meta' \in [Pkg -> Metas \union {NoMeta}]
    BY <1>0, <1>4 DEF Update, Threads
  <2>3. th' \in [Thread -> Threads]
    BY <1>4, <2>1 DEF Update
  <2> QED BY <1>4, <2>2, <2>3 DEF Update
<1>5. CASE EndLoad(t)
  <2>1. unloadable' \subseteq Pkg
    BY <1>0, <1>5 DEF EndLoad, Threads
  <2>2. th' \in [Thread -> Threads]
    BY <1>5, IdleTyped DEF EndLoad
  <2> QED BY <1>5, <2>1, <2>2 DEF EndLoad
<1>6. ASSUME NEW p \in Pkg, StartFile(t, p)  PROVE TypeOK'
  <2>1. PICK f \in {files[p], disk[p]} :
          /\ files' = [files EXCEPT ![p] = f]
          /\ raced' = IF f = files[p] THEN raced ELSE raced \union ({p} \intersect Unsettled)
          /\ th' = [th EXCEPT ![t] = [Idle EXCEPT !.pc = IF Exists(f) THEN "list" ELSE "end",
                                                  !.kind = "file", !.scope = {p}]]
    BY <1>6 DEF StartFile
  <2>2. files' \in [Pkg -> Content \union {NoFile, Unread}]
    BY <2>1 DEF Files
  <2>3. [Idle EXCEPT !.pc = IF Exists(f) THEN "list" ELSE "end",
                     !.kind = "file", !.scope = {p}] \in Threads
    BY IdleTyped DEF Threads
  <2>4. th' \in [Thread -> Threads]
    BY <2>1, <2>3
  <2>5. raced' \subseteq Pkg
    BY <2>1
  <2> QED BY <1>6, <2>2, <2>4, <2>5 DEF StartFile
<1>7. ASSUME NEW p \in Pkg, Preload(t, p)  PROVE TypeOK'
  <2>1. [th[t] EXCEPT !.todo = @ \ {p}] \in Threads
    BY <1>0 DEF Threads
  <2>2. files' \in [Pkg -> Content \union {NoFile, Unread}] /\ raced' \subseteq Pkg
    BY <1>7 DEF Preload, Files
  <2>3. th' \in [Thread -> Threads]
    BY <1>7, <2>1 DEF Preload
  <2> QED BY <1>7, <2>2, <2>3 DEF Preload
<1> QED BY <1>1, <1>2, <1>3, <1>4, <1>5, <1>6, <1>7

\* So do an edit and what precedes it, as long as the bound allows them.
LEMMA TypeEdit ==
    ASSUME TypeOK, EditAllowed,
           \/ \E p \in Pkg : Evaluate(p)
           \/ Change \/ Clone
           \/ \E changed \in SUBSET Pkg, reinit \in BOOLEAN : DidModifyFiles(changed, reinit)
    PROVE  TypeOK'
<1> USE DEF TypeOK
<1>1. CASE \E p \in Pkg : Evaluate(p)
  BY <1>1 DEF Evaluate
<1>2. CASE Change
  BY <1>2, LoadingAssumption DEF Change, snapVars
<1>3. CASE Clone
  <2>1. edit \in Edits /\ cur < MaxEdits
    BY <1>3 DEF Clone, EditAllowed
  <2>2. files' \in [Pkg -> Content \union {NoFile, Unread}]
    BY <1>3, <2>1 DEF Clone, Edits, Files
  <2>3. meta' \in [Pkg -> Metas \union {NoMeta}] /\ packages' \in [Pkg -> Metas \union {NoMeta}]
    BY <1>3 DEF Clone
  <2>4. shouldLoad' \subseteq Pkg /\ unloadable' \subseteq Pkg /\ owed' \subseteq Pkg
    BY <1>3 DEF Clone, Marked, RevDeps
  <2>5. cur' \in 0 .. MaxEdits /\ initialized' \in BOOLEAN
    BY <1>3, <2>1, LoadingAssumption DEF Clone, Edits
  <2>7. raced' \subseteq Pkg
    BY <1>3, <2>1 DEF Clone, Edits
  <2>6. th' \in [Thread -> Threads]
    BY <1>3, IdleTyped DEF Clone
  <2> QED BY <1>3, <2>2, <2>3, <2>4, <2>5, <2>6, <2>7 DEF Clone
<1>4. ASSUME NEW changed \in SUBSET Pkg, NEW reinit \in BOOLEAN, DidModifyFiles(changed, reinit)
      PROVE  TypeOK'
  BY <1>4 DEF DidModifyFiles, Edits, snapVars
<1> QED BY <1>1, <1>2, <1>3, <1>4

-----------------------------------------------------------------------------
\* What a package imports is invalidated only with the package.
LEMMA RevDepsClosed ==
    ASSUME NEW S, NEW p \in Pkg, NEW q \in Pkg, meta[p] # NoMeta, q \in meta[p].deps,
           q \in RevDeps(S)
    PROVE  p \in RevDeps(S)
BY DEF RevDeps

LEMMA RevDepsOf ==
    ASSUME NEW S, NEW p \in S, p \in Pkg, meta[p] # NoMeta
    PROVE  p \in RevDeps(S)
BY DEF RevDeps

\* The packages whose metadata an edit drops and keeps.
Known == {p \in Pkg : meta[p] # NoMeta}
Invalidating == {p \in edit.changed : MetadataChanges(files[p], edit.to[p])}
AnyPkgFileChanged == \E p \in edit.changed : PkgFileChanges(files[p], edit.to[p])
Dropping == IF edit.reinit THEN Known
            ELSE (Invalidating \intersect Known) \union
                 {p \in Known : AnyPkgFileChanged /\ Missing(p) # {}}
Keeping == Known \ RevDeps(Dropping)
Mentioned == Keeping \union UNION {Missing(p) : p \in Keeping}

LEMMA CloneDrops ==
    ASSUME Clone
    PROVE  /\ files' = [p \in Pkg |-> IF p \in edit.changed THEN edit.to[p] ELSE files[p]]
           /\ meta' = [p \in Pkg |-> IF p \in RevDeps(Dropping) THEN NoMeta ELSE meta[p]]
           /\ packages' = [p \in Pkg |-> IF p \in RevDeps(Dropping) THEN NoMeta ELSE packages[p]]
           /\ RevDeps(Dropping) \subseteq shouldLoad' /\ shouldLoad \subseteq shouldLoad'
           /\ owed' = owed \union RevDeps(Dropping)
           /\ raced' = (raced \ (edit.changed \ Mentioned)) \union
                  {p \in edit.changed \intersect Keeping :
                     files[p] = Unread /\ ~Exists(edit.to[p])}
BY DEF Clone, Dropping, Known, Invalidating, AnyPkgFileChanged, Marked, Keeping, Mentioned

\* Handles go with the metadata of their package, and with those of its imports.
LEMMA HandlesKept ==
    ASSUME TypeOK, HandlesHaveMetadata, Next
    PROVE  HandlesHaveMetadata'
<1> USE DEF HandlesHaveMetadata
<1>1. ASSUME NEW t \in Thread, Update(t)  PROVE HandlesHaveMetadata'
  BY <1>1 DEF Update
<1>2. ASSUME NEW p \in Pkg, Evaluate(p)  PROVE HandlesHaveMetadata'
  BY <1>2 DEF Evaluate, TypeOK, Metas
<1>3. CASE Clone
  <2> DEFINE D == RevDeps(Dropping)
  <2> SUFFICES ASSUME NEW p \in Pkg, packages'[p] # NoMeta
               PROVE  /\ packages'[p] = meta'[p]
                      /\ \A q \in packages'[p].deps : packages'[q] # NoMeta
    OBVIOUS
  <2>1. p \notin D /\ packages'[p] = packages[p] /\ meta'[p] = meta[p] /\ packages[p] = meta[p]
    BY <1>3, CloneDrops
  <2>2. ASSUME NEW q \in packages[p].deps  PROVE packages'[q] # NoMeta
    <3>1. q \in Pkg /\ packages[q] # NoMeta
      BY <2>1 DEF TypeOK, Metas
    <3>2. q \notin D
      BY <2>1, <3>1, RevDepsClosed
    <3> QED BY <1>3, <3>1, <3>2, CloneDrops
  <2> QED BY <2>1, <2>2
<1>4. CASE UNCHANGED <<meta, packages>>
  BY <1>4
<1> QED BY <1>1, <1>2, <1>3, <1>4
       DEF Next, StartInit, StartReload, StartFile, GoList, Preload, EndLoad, Change,
           DidModifyFiles, snapVars

\* Marks are cleared only of what is loaded, or of what a load that ended was for.
LEMMA OwedKept ==
    ASSUME TypeOK, DroppedMarked, OwedGone, Next
    PROVE  DroppedMarked' /\ OwedGone'
<1> USE DEF DroppedMarked, OwedGone
<1>1. ASSUME NEW t \in Thread, Update(t)  PROVE DroppedMarked' /\ OwedGone'
  BY <1>1 DEF Update, TypeOK
<1>2. ASSUME NEW t \in Thread, EndLoad(t)  PROVE DroppedMarked' /\ OwedGone'
  <2>1. th[t].kind \in {"init", "reload", "file"}
    BY DEF TypeOK, Threads
  <2>2. CASE th[t].kind = "reload"
    BY <1>2, <2>2 DEF EndLoad, Clears
  <2>3. CASE th[t].kind = "init"
    BY <1>2, <2>3 DEF EndLoad, Clears
  <2>4. CASE th[t].kind = "file"
    BY <1>2, <2>4 DEF EndLoad, Clears
  <2> QED BY <2>1, <2>2, <2>3, <2>4
<1>3. CASE Clone
  BY <1>3, CloneDrops DEF TypeOK, RevDeps
<1>4. CASE UNCHANGED <<meta, shouldLoad, owed>>
  BY <1>4
<1> QED BY <1>1, <1>2, <1>3, <1>4
       DEF Next, StartInit, StartReload, StartFile, GoList, Preload, Evaluate, Change,
           DidModifyFiles, snapVars

LEMMA EditKept ==
    ASSUME TypeOK, EditAllowed, Next
    PROVE  EditAllowed'
<1> USE DEF EditAllowed
<1>1. CASE Clone
  BY <1>1 DEF Clone
<1>2. ASSUME NEW changed \in SUBSET Pkg, NEW reinit \in BOOLEAN, DidModifyFiles(changed, reinit)
      PROVE  EditAllowed'
  BY <1>2 DEF DidModifyFiles
<1>3. CASE UNCHANGED <<edit, cur>>
  BY <1>3
<1> QED BY <1>1, <1>2, <1>3
       DEF Next, StartInit, StartReload, StartFile, GoList, Update, Preload, EndLoad,
           Evaluate, Change, snapVars

-----------------------------------------------------------------------------
\* The conjunction is an invariant.
THEOREM Invariance == Spec => []IInv
<1>1. Init => IInv
  BY TypeInit DEF Init, IInv, HandlesHaveMetadata, DroppedMarked, OwedGone, EditAllowed, NoMetas
<1>2. IInv /\ [Next]_vars => IInv'
  <2> SUFFICES ASSUME IInv, [Next]_vars  PROVE IInv'
    OBVIOUS
  <2> USE DEF IInv
  <2>1. CASE Next
    <3>1. TypeOK'
      BY <2>1, TypeLoad, TypeEdit DEF Next
    <3> QED BY <2>1, <3>1, HandlesKept, OwedKept, EditKept
  <2>2. CASE UNCHANGED vars
    BY <2>2 DEF vars, snapVars, TypeOK, HandlesHaveMetadata, DroppedMarked, OwedGone, EditAllowed
  <2> QED BY <2>1, <2>2
<1> QED BY <1>1, <1>2, PTL DEF Spec

\* The type invariant.
THEOREM TypeCorrect == Spec => []TypeOK
BY Invariance, PTL DEF IInv

\* Handles have the snapshot's metadata, and the imports of a package with a handle
\* have one: load never panics with "inconsistent metadata".
THEOREM HandlesAgree == Spec => []HandlesHaveMetadata
BY Invariance, PTL DEF IInv

\* Dropped metadata stay marked until a load of them ends.
THEOREM DroppedStayMarked == Spec => []DroppedMarked
BY Invariance, PTL DEF IInv

-----------------------------------------------------------------------------
(* Metadata follow the disk.  What an edit compares is the files the       *)
(* snapshot has read; these are the disk's as far as events have been      *)
(* taken in, and metadata, added or about to be, agree with them.          *)

FilesFollow == \A p \in Pkg \ (Unsettled \union raced) : files[p] \in {Unread, disk[p]}
EventsFollow == edit # NoEdit => \A p \in edit.changed \ pending : edit.to[p] = disk[p]

\* The header in m, and the absence of q, are as the snapshot has read the file; or, if
\* it has not, as the disk has it unless it has changed since.
HeaderSeen(p, m) == p \notin raced =>
    /\ files[p] # Unread => Exists(files[p]) /\ Header[files[p]] = Header[m.content]
    /\ files[p] = Unread /\ p \notin Unsettled => Agrees(p, m)
AbsenceSeen(q) == q \notin raced =>
    /\ files[q] # Unread => ~Exists(files[q])
    /\ files[q] = Unread /\ q \notin Unsettled => ~Exists(disk[q])
Seen(p, m) == /\ HeaderSeen(p, m)
              /\ \A q \in Imports[m.content] \ m.deps : AbsenceSeen(q)

MetaSeen == \A p \in Pkg : meta[p] # NoMeta => Seen(p, meta[p])
ListSeen == \A t \in Thread, p \in Pkg : th[t].listed[p] # NoMeta => Seen(p, th[t].listed[p])
FollowInv == FilesFollow /\ EventsFollow /\ MetaSeen /\ ListSeen

\* What the disk and the reads of the snapshot do between edits.
ReadStep ==
    /\ raced \subseteq raced' /\ Unsettled \subseteq Unsettled'
    /\ \A q \in Pkg : disk'[q] = disk[q] \/ q \in Unsettled'
    /\ \A q \in Pkg : \/ files'[q] = files[q]
                      \/ /\ files[q] = Unread /\ files'[q] = disk[q]
                         /\ q \in Unsettled => q \in raced'

\* What metadata agree with stays so: a change of the disk is unsettled, and a read of
\* an unsettled file is noted (snapshot.go:1600-1602).
LEMMA SeenKept ==
    ASSUME TypeOK, FilesFollow, ReadStep, NEW p \in Pkg, NEW m \in Metas, Seen(p, m)
    PROVE  Seen(p, m)'
<1>1. \A q \in Pkg : disk[q] # Unread
  BY LoadingAssumption DEF TypeOK, Files
<1>2. HeaderSeen(p, m)'
  BY <1>1 DEF ReadStep, Seen, HeaderSeen, Agrees, Exists
<1>3. ASSUME NEW q \in Imports[m.content] \ m.deps  PROVE AbsenceSeen(q)'
  <2>1. q \in Pkg
    BY LoadingAssumption DEF Metas
  <2> QED BY <1>1, <2>1 DEF ReadStep, Seen, AbsenceSeen, Exists
<1> QED BY <1>2, <1>3 DEF Seen

\* So do the files read with the disk.
LEMMA FilesKept ==
    ASSUME FilesFollow, ReadStep
    PROVE  FilesFollow'
BY DEF FilesFollow, ReadStep

\* A step that adds no metadata but those listed, and lists none.
LEMMA MetaKept ==
    ASSUME TypeOK, FollowInv, ReadStep, EventsFollow',
           \A p \in Pkg : \/ meta'[p] = meta[p]
                          \/ \E t \in Thread : th[t].listed[p] # NoMeta /\ meta'[p] = th[t].listed[p],
           \A t \in Thread, p \in Pkg : th'[t].listed[p] \in {NoMeta, th[t].listed[p]}
    PROVE  FollowInv'
<1>1. FilesFollow'
  BY FilesKept DEF FollowInv
<1>2. ASSUME NEW p \in Pkg, meta'[p] # NoMeta  PROVE Seen(p, meta[p])'
  <2>1. PICK m \in Metas : m = meta'[p] /\ Seen(p, m)
    BY <1>2 DEF FollowInv, MetaSeen, ListSeen, TypeOK, Threads
  <2>2. Seen(p, m)'
    BY <2>1, SeenKept DEF FollowInv
  <2> QED BY <2>1, <2>2 DEF Seen, HeaderSeen, Agrees
<1>3. ASSUME NEW t \in Thread, NEW p \in Pkg, th'[t].listed[p] # NoMeta
      PROVE  Seen(p, th[t].listed[p])'
  <2>1. PICK m \in Metas : m = th'[t].listed[p] /\ Seen(p, m)
    BY <1>3 DEF FollowInv, ListSeen, TypeOK, Threads
  <2>2. Seen(p, m)'
    BY <2>1, SeenKept DEF FollowInv
  <2> QED BY <2>1, <2>2 DEF Seen, HeaderSeen, Agrees
<1> QED BY <1>1, <1>2, <1>3 DEF FollowInv, MetaSeen, ListSeen

\* What is listed is what the disk has, which is what was read of what is settled.
LEMMA ListedSeen ==
    ASSUME TypeOK, FilesFollow, NEW S \in SUBSET Pkg, NEW p \in Pkg,
           UNCHANGED <<disk, pending, edit, files>>,
           raced' = raced \union (Closure(S) \intersect Unsettled),
           NEW m, m = Listed(S)[p], m # NoMeta
    PROVE  Seen(p, m)'
<1>1. /\ p \in Closure(S) /\ Exists(disk[p])
      /\ m = [content |-> disk[p], deps |-> {q \in DiskImports(p) : Exists(disk[q])}, at |-> cur]
  BY DEF Listed
<1>2. m.content = disk[p] /\ m.deps = {q \in DiskImports(p) : Exists(disk[q])}
  BY <1>1
<1>3. DiskImports(p) = Imports[disk[p]] /\ DiskImports(p) \subseteq Pkg
  BY <1>1, LoadingAssumption DEF DiskImports, Exists
<1>4. DiskImports(p) \subseteq Closure(S)
  BY <1>1, <1>3 DEF Closure
<1>5. Unsettled' = Unsettled
  BY DEF Unsettled
<1>6. \A q \in Closure(S) : q \notin raced' => q \notin Unsettled /\ files[q] \in {Unread, disk[q]}
  BY DEF FilesFollow, Closure
<1>7. HeaderSeen(p, m)'
  BY <1>1, <1>2, <1>6 DEF HeaderSeen, Agrees
<1>8. ASSUME NEW q \in Imports[m.content] \ m.deps  PROVE AbsenceSeen(q)'
  <2>1. q \in Closure(S) /\ ~Exists(disk[q])
    BY <1>2, <1>3, <1>4
  <2> QED BY <1>6, <2>1 DEF AbsenceSeen
<1> QED BY <1>7, <1>8 DEF Seen

\* packages.Load lists what is on the disk (load.go:122), of what is settled too.
LEMMA GoListFollows ==
    ASSUME TypeOK, FollowInv, NEW t \in Thread, GoList(t)
    PROVE  FollowInv'
<1>1. /\ th \in [Thread -> Threads] /\ UNCHANGED <<disk, pending, edit, files, meta>>
      /\ th[t].scope \subseteq Pkg
  BY DEF GoList, TypeOK, Threads
<1>2. ReadStep
  BY <1>1 DEF GoList, ReadStep, Unsettled
<1>3. EventsFollow'
  BY <1>1 DEF FollowInv, EventsFollow
<1>4. CASE \/ th' = [th EXCEPT ![t].pc = "end"]
           \/ th' = [th EXCEPT ![t] = Idle]
  <2>1. \A x \in Thread, p \in Pkg : th'[x].listed[p] \in {NoMeta, th[x].listed[p]}
    BY <1>1, <1>4 DEF Idle, Threads
  <2> QED BY <1>1, <1>2, <1>3, <2>1, MetaKept
<1>5. CASE /\ th' = [th EXCEPT ![t].pc = "update", ![t].listed = Listed(th[t].scope)]
           /\ raced' = raced \union (Closure(th[t].scope) \intersect Unsettled)
  <2>1. /\ \A x \in Thread \ {t} : th'[x] = th[x]
        /\ th'[t].listed = Listed(th[t].scope)
    BY <1>1, <1>5 DEF Threads
  <2>2. FilesFollow'
    BY <1>2, FilesKept DEF FollowInv
  <2>3. ASSUME NEW p \in Pkg, meta'[p] # NoMeta  PROVE Seen(p, meta[p])'
    <3>1. PICK m \in Metas : m = meta'[p] /\ Seen(p, m)
      BY <1>1, <2>3 DEF FollowInv, MetaSeen, TypeOK
    <3>2. Seen(p, m)'
      BY <1>2, <3>1, SeenKept DEF FollowInv
    <3> QED BY <3>1, <3>2 DEF Seen, HeaderSeen, Agrees
  <2>4. ASSUME NEW x \in Thread, NEW p \in Pkg, th'[x].listed[p] # NoMeta
        PROVE  Seen(p, th[x].listed[p])'
    <3>1. CASE x = t
      <4>1. PICK m : m = Listed(th[t].scope)[p]
        OBVIOUS
      <4>2. Seen(p, m)'
        BY <1>1, <1>5, <2>1, <2>4, <3>1, <4>1, ListedSeen DEF FollowInv
      <4> QED BY <2>1, <3>1, <4>1, <4>2 DEF Seen, HeaderSeen, Agrees
    <3>2. CASE x # t
      <4>1. PICK m \in Metas : m = th'[x].listed[p] /\ Seen(p, m)
        BY <1>1, <2>1, <2>4, <3>2 DEF FollowInv, ListSeen, Threads
      <4>2. Seen(p, m)'
        BY <1>2, <4>1, SeenKept DEF FollowInv
      <4> QED BY <4>1, <4>2 DEF Seen, HeaderSeen, Agrees
    <3> QED BY <3>1, <3>2
  <2> QED BY <1>3, <2>2, <2>3, <2>4 DEF FollowInv, MetaSeen, ListSeen
<1> QED BY <1>4, <1>5 DEF GoList

\* The other steps of loads, and those of the disk and the watcher.
LEMMA ReadsFollow ==
    ASSUME TypeOK, FollowInv, NEW t \in Thread,
           \/ StartInit(t) \/ StartReload(t) \/ Update(t) \/ EndLoad(t)
           \/ \E p \in Pkg : StartFile(t, p) \/ Preload(t, p)
    PROVE  FollowInv'
<1>1. /\ th \in [Thread -> Threads] /\ UNCHANGED <<disk, pending, edit>>
      /\ files \in [Pkg -> Content \union {NoFile, Unread}] /\ raced \subseteq Pkg
  BY DEF TypeOK, StartInit, StartReload, Update, EndLoad, StartFile, Preload
<1>2. EventsFollow'
  BY <1>1 DEF FollowInv, EventsFollow
<1>3. Unsettled' = Unsettled
  BY <1>1 DEF Unsettled
<1>4. ReadStep
  <2>1. CASE StartInit(t) \/ StartReload(t) \/ Update(t) \/ EndLoad(t)
    BY <1>1, <1>3, <2>1 DEF ReadStep, StartInit, StartReload, Update, EndLoad, snapVars
  <2>2. ASSUME NEW p \in Pkg, StartFile(t, p)  PROVE ReadStep
    <3>1. PICK f : /\ f = files[p] \/ (files[p] = Unread /\ f = disk[p])
                   /\ files' = [files EXCEPT ![p] = f]
                   /\ raced' = IF f = files[p] THEN raced ELSE raced \union ({p} \intersect Unsettled)
      BY <2>2 DEF StartFile
    <3> QED BY <1>1, <1>3, <3>1 DEF ReadStep
  <2>3. ASSUME NEW p \in Pkg, Preload(t, p)  PROVE ReadStep
    BY <1>1, <1>3, <2>3 DEF ReadStep, Preload
  <2> QED BY <2>1, <2>2, <2>3
<1>5. \A p \in Pkg : \/ meta'[p] = meta[p]
                     \/ th[t].listed[p] # NoMeta /\ meta'[p] = th[t].listed[p]
  BY DEF StartInit, StartReload, Update, EndLoad, StartFile, Preload, snapVars
<1>6. \A x \in Thread, p \in Pkg : th'[x].listed[p] \in {NoMeta, th[x].listed[p]}
  <2>1. \A x \in Thread \ {t} : th'[x] = th[x]
    BY <1>1 DEF StartInit, StartReload, Update, EndLoad, StartFile, Preload
  <2>2. th'[t].listed \in {NoMetas, th[t].listed}
    <3>1. /\ Idle.listed = NoMetas
          /\ \A k, l, s : /\ [Idle EXCEPT !.pc = l, !.kind = k, !.scope = s].listed = NoMetas
                          /\ [Idle EXCEPT !.pc = l, !.scope = s].listed = NoMetas
      BY DEF Idle, NoMetas
    <3>2. CASE StartInit(t)
      BY <1>1, <3>1, <3>2 DEF StartInit
    <3>3. CASE StartReload(t)
      BY <1>1, <3>1, <3>3 DEF StartReload
    <3>4. CASE EndLoad(t)
      BY <1>1, <3>1, <3>4 DEF EndLoad
    <3>5. CASE Update(t)
      <4>1. PICK d : th' = [th EXCEPT ![t].pc = "preload", ![t].listed = NoMetas, ![t].todo = d]
        BY <3>5 DEF Update
      <4> QED BY <1>1, <4>1 DEF Threads
    <3>6. ASSUME NEW p \in Pkg, Preload(t, p)
          PROVE  th'[t].listed = th[t].listed
      BY <1>1, <3>6 DEF Preload, Threads
    <3>7. ASSUME NEW p \in Pkg, StartFile(t, p)  PROVE th'[t].listed = NoMetas
      <4>1. PICK l : th' = [th EXCEPT ![t] = [Idle EXCEPT !.pc = l, !.kind = "file", !.scope = {p}]]
        BY <3>7 DEF StartFile
      <4> QED BY <1>1, <3>1, <4>1
    <3> QED BY <3>2, <3>3, <3>4, <3>5, <3>6, <3>7
  <2> QED BY <2>1, <2>2 DEF NoMetas
<1> QED BY <1>2, <1>4, <1>5, <1>6, MetaKept

\* A handle's evaluation reads nothing (check.go:1182).
LEMMA EvaluateFollows ==
    ASSUME TypeOK, FollowInv, NEW p \in Pkg, Evaluate(p)
    PROVE  FollowInv'
<1>1. UNCHANGED <<disk, pending, edit, files, raced, meta, th>>
  BY DEF Evaluate
<1>2. ReadStep /\ EventsFollow'
  BY <1>1 DEF ReadStep, Unsettled, FollowInv, EventsFollow
<1> QED BY <1>1, <1>2, MetaKept

\* A change is pending until DidModifyFiles has read it (session.go:823).
LEMMA ChangesFollow ==
    ASSUME TypeOK, FollowInv,
           Change \/ \E changed \in SUBSET Pkg, reinit \in BOOLEAN : DidModifyFiles(changed, reinit)
    PROVE  FollowInv'
<1>1. UNCHANGED <<files, raced, meta, th>>
  BY DEF Change, DidModifyFiles, snapVars
<1>2. CASE Change
  <2>1. PICK w \in Worlds : /\ disk' = w /\ edit' = edit
                            /\ pending' = pending \union {p \in Pkg : w[p] # disk[p]}
    BY <1>2 DEF Change
  <2>2. ReadStep
    BY <1>1, <2>1 DEF ReadStep, Unsettled
  <2>3. EventsFollow'
    BY <2>1 DEF FollowInv, EventsFollow, TypeOK, Edits
  <2> QED BY <1>1, <2>2, <2>3, MetaKept
<1>3. ASSUME NEW changed \in SUBSET Pkg, NEW reinit \in BOOLEAN, DidModifyFiles(changed, reinit)
      PROVE  FollowInv'
  <2>1. /\ edit = NoEdit /\ changed \subseteq pending /\ disk' = disk
        /\ edit' = [reinit |-> reinit, changed |-> changed, to |-> disk]
        /\ pending' = pending \ changed
    BY <1>3 DEF DidModifyFiles
  <2>2. edit' \in Edits /\ edit'.changed = changed /\ edit'.to = disk
    BY <2>1 DEF Edits, TypeOK
  <2>3. pending \subseteq Unsettled'
    BY <2>1, <2>2, LoadingAssumption DEF Unsettled
  <2>4. ReadStep
    BY <1>1, <2>1, <2>3 DEF ReadStep, Unsettled
  <2>5. EventsFollow'
    BY <2>1, <2>2 DEF EventsFollow
  <2> QED BY <1>1, <2>4, <2>5, MetaKept
<1> QED BY <1>2, <1>3

\* An edit drops what it finds out of date, and notes what it cannot find.
LEMMA CloneFollows ==
    ASSUME TypeOK, FollowInv, Clone
    PROVE  FollowInv'
<1>1. /\ edit \in Edits /\ edit # NoEdit /\ edit' = NoEdit /\ UNCHANGED <<disk, pending>>
      /\ th' = [t \in Thread |-> Idle]
  BY DEF Clone, TypeOK
<1>2. Unsettled = pending \union edit.changed /\ Unsettled' = pending
  BY <1>1 DEF Unsettled
<1>3. EventsFollow'
  BY <1>1 DEF EventsFollow
<1>4. \A p \in Pkg : edit.to[p] # Unread
  BY <1>1, LoadingAssumption DEF Edits, Files
<1>5. FilesFollow'
  <2> SUFFICES ASSUME NEW p \in Pkg, p \notin Unsettled', p \notin raced'
               PROVE  files'[p] \in {Unread, disk[p]}
    BY <1>1 DEF FilesFollow
  <2>1. CASE p \in edit.changed
    BY <1>1, <1>2, <2>1, CloneDrops DEF FollowInv, EventsFollow
  <2>2. CASE p \notin edit.changed
    <3>1. p \notin raced /\ files'[p] = files[p]
      BY <2>2, CloneDrops
    <3> QED BY <1>2, <2>2, <3>1 DEF FollowInv, FilesFollow
  <2> QED BY <2>1, <2>2
<1>6. ASSUME NEW p \in Pkg, meta'[p] # NoMeta  PROVE Seen(p, meta[p])'
  <2>1. PICK m \in Metas : m = meta[p] /\ m = meta'[p] /\ Seen(p, m)
    BY <1>6, CloneDrops DEF FollowInv, MetaSeen, TypeOK
  <2>2. p \in Known /\ p \notin RevDeps(Dropping) /\ p \in Keeping
    BY <1>6, CloneDrops DEF Known, Keeping
  <2>3. p \notin Dropping /\ ~edit.reinit
    BY <2>2, RevDepsOf DEF Dropping, Known
  <2>4. p \in Mentioned /\ Missing(p) \subseteq Mentioned
    BY <2>2 DEF Mentioned
  <2>5. Missing(p) = Imports[m.content] \ m.deps /\ Missing(p) \subseteq Pkg
    BY <2>1, LoadingAssumption DEF Missing, Metas
  <2>6. HeaderSeen(p, m)'
    <3> SUFFICES ASSUME p \notin raced'
                 PROVE  /\ files'[p] # Unread => Exists(files'[p]) /\ Header[files'[p]] = Header[m.content]
                        /\ files'[p] = Unread /\ p \notin Unsettled' => Agrees(p, m)'
      BY DEF HeaderSeen
    <3>1. p \notin raced /\ HeaderSeen(p, m)
      BY <2>1, <2>4, CloneDrops DEF Seen
    <3>2. CASE p \in edit.changed
      <4>1. ~MetadataChanges(files[p], edit.to[p]) /\ files'[p] = edit.to[p]
        BY <2>2, <2>3, <3>2, CloneDrops DEF Dropping, Invalidating
      <4>2. files[p] # Unread
        <5>1. files[p] = Unread => ~Exists(edit.to[p])
          BY <4>1, LoadingAssumption DEF MetadataChanges, ComesOrGoes, Exists
        <5> QED BY <2>2, <3>2, <5>1, CloneDrops
      <4>3. Exists(files[p]) /\ Header[files[p]] = Header[m.content]
        BY <3>1, <4>2 DEF HeaderSeen
      <4>4. Exists(edit.to[p]) /\ Header[edit.to[p]] = Header[m.content]
        BY <4>1, <4>3 DEF MetadataChanges, ComesOrGoes
      <4> QED BY <1>4, <4>1, <4>4
    <3>3. CASE p \notin edit.changed
      <4>1. files'[p] = files[p] /\ (p \notin Unsettled' => p \notin Unsettled)
        BY <1>2, <3>3, CloneDrops
      <4> QED BY <1>1, <3>1, <4>1 DEF HeaderSeen, Agrees
    <3> QED BY <3>2, <3>3
  <2>7. ASSUME NEW q \in Imports[m.content] \ m.deps  PROVE AbsenceSeen(q)'
    <3> SUFFICES ASSUME q \notin raced'
                 PROVE  /\ files'[q] # Unread => ~Exists(files'[q])
                        /\ files'[q] = Unread /\ q \notin Unsettled' => ~Exists(disk'[q])
      BY DEF AbsenceSeen
    <3>1. q \in Pkg /\ q \notin raced /\ AbsenceSeen(q)
      BY <2>1, <2>4, <2>5, CloneDrops DEF Seen
    <3>2. CASE q \in edit.changed
      <4>1. ~AnyPkgFileChanged
        BY <2>2, <2>3, <2>5, <2>7 DEF Dropping
      <4>2. ~ComesOrGoes(files[q], edit.to[q])
        BY <3>2, <4>1 DEF AnyPkgFileChanged, PkgFileChanges
      <4>3. ~Exists(files[q])
        BY <3>1, LoadingAssumption DEF AbsenceSeen, Exists
      <4> QED BY <1>4, <3>1, <3>2, <4>2, <4>3, CloneDrops DEF ComesOrGoes
    <3>3. CASE q \notin edit.changed
      <4>1. files'[q] = files[q] /\ (q \notin Unsettled' => q \notin Unsettled)
        BY <1>2, <3>1, <3>3, CloneDrops
      <4> QED BY <1>1, <3>1, <4>1 DEF AbsenceSeen
    <3> QED BY <3>2, <3>3
  <2>8. Seen(p, m)'
    BY <2>6, <2>7 DEF Seen
  <2> QED BY <2>1, <2>8 DEF Seen, HeaderSeen, Agrees
<1>7. ListSeen'
  BY <1>1 DEF ListSeen, Idle
<1> QED BY <1>3, <1>5, <1>6, <1>7 DEF FollowInv, MetaSeen

\* Between the event of a file's last change and the next change, metadata say of the
\* file what the disk does, unless its detection was broken by a read (snapshot.go:
\* 1600-1602; load.go:122): for any worlds, loads, failures and edits.
THEOREM MetadataFollow == Spec => []MetadataFollowDisk
<1>1. Init => FollowInv
  BY DEF Init, FollowInv, FilesFollow, EventsFollow, MetaSeen, ListSeen, NoMetas, Idle
<1>2. IInv /\ FollowInv /\ [Next]_vars => FollowInv'
  <2> SUFFICES ASSUME TypeOK, FollowInv, [Next]_vars  PROVE FollowInv'
    BY DEF IInv
  <2>1. CASE Next
    <3>1. CASE \E t \in Thread : GoList(t)
      BY <3>1, GoListFollows
    <3>2. CASE \E t \in Thread : \/ StartInit(t) \/ StartReload(t) \/ Update(t) \/ EndLoad(t)
                                \/ \E p \in Pkg : StartFile(t, p) \/ Preload(t, p)
      BY <3>2, ReadsFollow
    <3>3. CASE \E p \in Pkg : Evaluate(p)
      BY <3>3, EvaluateFollows
    <3>4. CASE \/ Change
               \/ \E changed \in SUBSET Pkg, reinit \in BOOLEAN : DidModifyFiles(changed, reinit)
      BY <3>4, ChangesFollow
    <3> QED BY <2>1, <3>1, <3>2, <3>3, <3>4, CloneFollows DEF Next
  <2>2. CASE UNCHANGED vars
    <3>1. ReadStep /\ EventsFollow'
      BY <2>2 DEF vars, snapVars, ReadStep, Unsettled, FollowInv, EventsFollow
    <3> QED BY <2>2, <3>1, MetaKept DEF vars, snapVars
  <2> QED BY <2>1, <2>2
<1>3. IInv /\ FollowInv => MetadataFollowDisk
  <2> SUFFICES ASSUME TypeOK, FollowInv, NEW p \in Pkg, meta[p] # NoMeta
               PROVE  /\ p \notin Unsettled \union raced => Agrees(p, meta[p])
                      /\ \A q \in Missing(p) \ (Unsettled \union raced) : ~Exists(disk[q])
    BY DEF MetadataFollowDisk, IInv
  <2>1. Seen(p, meta[p]) /\ Missing(p) \subseteq Pkg
    BY LoadingAssumption DEF FollowInv, MetaSeen, TypeOK, Metas, Missing
  <2>2. p \notin Unsettled \union raced => Agrees(p, meta[p])
    BY <2>1 DEF FollowInv, FilesFollow, Seen, HeaderSeen, Agrees
  <2>3. ASSUME NEW q \in Missing(p) \ (Unsettled \union raced)  PROVE ~Exists(disk[q])
    BY <2>1 DEF FollowInv, FilesFollow, Seen, AbsenceSeen, Missing
  <2> QED BY <2>2, <2>3
<1> QED BY <1>1, <1>2, <1>3, Invariance, PTL DEF Spec
=============================================================================
