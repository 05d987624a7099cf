----------------------------- MODULE FileWatcher -----------------------------
(***************************************************************************)
(* The file watcher of gopls (internal/filewatcher): it turns the events   *)
(* of fsnotify into batches of created, changed and deleted paths.         *)
(*                                                                         *)
(* The goroutine run drains fsnotify into the queue in and hands the batch *)
(* out to a handler when its timer fires; the goroutine process converts   *)
(* the events and walks new directories, which it watches.  The files on   *)
(* disk change all the time, and an event is judged by what is on disk     *)
(* when it is processed.                                                   *)
(*                                                                         *)
(* The disk, the kernel and fsnotify are external.  The model begins when  *)
(* WatchDir has returned.  The timer may fire at any moment: how long the  *)
(* debounce delay is, and what resets it, is left out.                     *)
(***************************************************************************)
EXTENDS Naturals, FiniteSets, SequencesExt

CONSTANTS Dir, File, Root,
          Parent,      \* [(Dir \ {Root}) \union File -> Dir]
          Skipped,     \* the paths that skipDir, skipDirFunc and skipFile exclude
          FirstFiles,  \* what is on disk in the beginning
          MaxChanges,  \* bound on the changes of the disk
          MaxFailures, \* bound on the directories that cannot be watched or read
          NoPath

Path == Dir \union File

\* A path and the directories above it: the least set with all their parents.
Upward(S) == \A p \in S \ {Root} : Parent[p] \in S
Lineage == [p \in Path |-> {q \in Path : \A S \in SUBSET Path : p \in S /\ Upward(S) => q \in S}]
Under(p, d) == d \in Lineage[p]   \* p is d or a path below it

ASSUME FileWatcherAssumption ==
    /\ IsFiniteSet(Path) /\ Root \in Dir /\ Dir \cap File = {} /\ NoPath \notin Path
    /\ Parent \in [Path \ {Root} -> Dir]
    /\ \A p \in Path \ {Root} : ~Under(Parent[p], p)
    /\ Skipped \subseteq Path \ {Root}
    /\ Root \in FirstFiles /\ FirstFiles \subseteq Path /\ Upward(FirstFiles)
    /\ MaxChanges \in Nat /\ MaxFailures \in Nat

VARIABLES
    disk,      \* when each path on disk was last changed, 0 if it is absent
    changes,   \* the changes made so far
    watched,   \* the directories fsnotify watches
    fsq,       \* the events fsnotify has not delivered
    in, ready, out, knownDirs,          \* Watcher's fields
    proc,      \* the goroutine process
    running,   \* the goroutines that have not returned (wg)
    phase,     \* of Close
    vanished,  \* the files that went away unnoticed: with a directory that was moved
               \* away, or out of one that was not watched
    failed     \* the directories whose failure was reported to errHandler

diskVars == <<disk, changes, vanished>>
watchVars == <<in, ready, out, knownDirs, proc, running, failed>>
vars == <<diskVars, watchVars, watched, fsq, phase>>

Ops == {"Create", "Write", "Remove", "Rename"}
Types == {"Created", "Changed", "Deleted"}
FsEvent == [op : Ops, path : Path]
Event == [type : Types, path : Path]
Batch == Seq(Event)

Present(p) == disk[p] > 0
Children(d) == {p \in Path \ {Root} : Parent[p] = d}

TypeOK ==
    /\ disk \in [Path -> 0..MaxChanges + 1] /\ changes \in 0..MaxChanges
    /\ watched \subseteq Dir /\ fsq \in Seq(FsEvent)
    /\ in \in Seq(FsEvent) /\ ready \in BOOLEAN /\ out \in Batch
    /\ knownDirs \subseteq Dir
    /\ proc \in [pc    : {"idle", "next", "stat", "visit", "read", "append"},
                 batch : Seq(FsEvent),        \* the events in hand
                 event : Event \union {NoPath}, \* the converted first one
                 found : Batch,               \* synthesized
                 todo  : Seq(Path),           \* still to be walked
                 at    : Dir \union {NoPath}] \* the directory being read
    /\ running \subseteq {"run", "process"}
    /\ phase \in {"open", "stopping", "waiting", "closed"}
    /\ vanished \subseteq File /\ failed \subseteq Dir

Idle == [pc |-> "idle", batch |-> <<>>, event |-> NoPath, found |-> <<>>,
         todo |-> <<>>, at |-> NoPath]

Init ==
    /\ disk = [p \in Path |-> IF p \in FirstFiles THEN 1 ELSE 0] /\ changes = 0
    /\ watched = (Dir \cap FirstFiles) \ Skipped /\ fsq = <<>>
    /\ in = <<>> /\ ready = FALSE /\ out = <<>> /\ knownDirs = watched
    /\ proc = Idle /\ running = {"run", "process"} /\ phase = "open"
    /\ vanished = {} /\ failed = {}

-----------------------------------------------------------------------------
\* The disk.  fsnotify reports what happens in the directories it watches, and
\* forgets a directory that is removed or moved away.  (On some systems it goes on
\* to report on directories below one that was moved; that is left out.)
Change(op, p, now, gone) ==
    /\ changes < MaxChanges /\ changes' = changes + 1
    /\ disk' = now
    /\ vanished' = {f \in File : now[f] = 0 /\
                      (f \in vanished \/ (Present(f) /\ (f # p \/ Parent[f] \notin watched)))}
    /\ watched' = watched \ gone
    /\ fsq' = IF Parent[p] \in watched THEN Append(fsq, [op |-> op, path |-> p]) ELSE fsq
    /\ UNCHANGED <<watchVars, phase>>

\* A file or an empty directory is made, or a tree is moved here.
Make(p) ==
    /\ p # Root /\ ~Present(p) /\ Present(Parent[p])
    /\ \E tree \in SUBSET {q \in Path : Under(q, p)} :
          /\ p \in tree /\ \A q \in tree \ {p} : Parent[q] \in tree
          /\ Change("Create", p, [q \in Path |-> IF q \in tree THEN changes + 2 ELSE disk[q]], {})

Write(f) ==
    /\ Present(f)
    /\ Change("Write", f, [disk EXCEPT ![f] = changes + 2], {})

\* A file or an empty directory is removed ...
Delete(p) ==
    /\ p # Root /\ Present(p) /\ \A q \in Children(p) : ~Present(q)
    /\ Change("Remove", p, [disk EXCEPT ![p] = 0], {p})

\* ... or a directory is moved away with all it contains.
Move(d) ==
    /\ d # Root /\ Present(d) /\ \E q \in Children(d) : Present(q)
    /\ LET tree == {q \in Path : Under(q, d)} IN
       Change("Rename", d, [q \in Path |-> IF q \in tree THEN 0 ELSE disk[q]], tree)

Disk == \/ \E p \in Path : Make(p) \/ Delete(p)
        \/ \E f \in File : Write(f)
        \/ \E d \in Dir : Move(d)

-----------------------------------------------------------------------------
\* run enqueues an event and signals process; closing fsnotify ends its events.
ReceiveUnsignalled ==                                         \* mutant
    /\ "run" \in running /\ phase = "open" /\ fsq # <<>>
    /\ in' = Append(in, Head(fsq)) /\ fsq' = Tail(fsq)
    /\ ready' = (ready \/ proc.pc = "idle")
    /\ UNCHANGED <<diskVars, watched, out, knownDirs, proc, running, failed, phase>>
Receive ==
    /\ "run" \in running /\ phase = "open" /\ fsq # <<>>
    /\ in' = Append(in, Head(fsq)) /\ fsq' = Tail(fsq)
    /\ ready' = TRUE
    /\ UNCHANGED <<diskVars, watched, out, knownDirs, proc, running, failed, phase>>

\* The timer fires: the handler gets the batch out.
Flush ==
    /\ "run" \in running /\ out # <<>>
    /\ out' = <<>>
    /\ UNCHANGED <<diskVars, watched, fsq, in, ready, knownDirs, proc, running, failed, phase>>

RunStops ==
    /\ phase = "waiting" /\ "run" \in running /\ running' = running \ {"run"}
    /\ UNCHANGED <<diskVars, watched, fsq, in, ready, out, knownDirs, proc, failed, phase>>

-----------------------------------------------------------------------------
\* process takes all events there are, and handles them one by one.
Take ==
    /\ "process" \in running /\ proc.pc = "idle" /\ ready
    /\ ready' = FALSE /\ in' = <<>>
    /\ proc' = [proc EXCEPT !.pc = "next", !.batch = in]
    /\ UNCHANGED <<diskVars, watched, fsq, out, knownDirs, running, failed, phase>>

\* convertEvent: only the directories on disk, or known, are directories; the name
\* of a directory is not that of an interesting file.
IsDir(p) == IF Present(p) THEN p \in Dir ELSE p \in knownDirs
Interesting(p) == p \notin Skipped /\ (p \in File \/ IsDir(p))
TypeIsOp(op) == op                                            \* mutant
Type(op) == CASE op \in {"Remove", "Rename"} -> "Deleted"
              [] op = "Create" -> "Created"
              [] op = "Write" -> "Changed"
Convert(ev) == [type |-> Type(ev.op), path |-> ev.path]

\* A deleted directory is known no more, and a created one is walked.
ConvertNext ==
    /\ "process" \in running /\ proc.pc = "next" /\ proc.batch # <<>>
    /\ phase # "waiting"
    /\ LET e == Convert(Head(proc.batch))
           rest == Tail(proc.batch)
       IN \/ /\ ~Interesting(e.path)
             /\ proc' = [proc EXCEPT !.batch = rest] /\ UNCHANGED knownDirs
          \/ /\ Interesting(e.path) /\ IsDir(e.path) /\ e.type = "Created"
             /\ proc' = [proc EXCEPT !.pc = "stat", !.batch = rest, !.event = e]
             /\ UNCHANGED knownDirs
          \/ /\ Interesting(e.path) /\ ~(IsDir(e.path) /\ e.type = "Created")
             /\ proc' = [proc EXCEPT !.pc = "append", !.batch = rest, !.event = e]
             /\ knownDirs' = IF IsDir(e.path) THEN knownDirs \ {e.path} ELSE knownDirs
    /\ UNCHANGED <<diskVars, watched, fsq, in, ready, out, running, failed, phase>>

\* walkDirWithRetry: os.Lstat may find that the directory is gone.
Lstat ==
    /\ "process" \in running /\ proc.pc = "stat"
    /\ proc' = IF Present(proc.event.path)
               THEN [proc EXCEPT !.pc = "visit", !.todo = <<proc.event.path>>]
               ELSE [proc EXCEPT !.pc = "append"]
    /\ UNCHANGED <<diskVars, watched, fsq, in, ready, out, knownDirs, running, failed,
                   phase>>

\* The walk visits a path: it is synthesized unless it is the root of the walk, and
\* a directory becomes known and watched (watchDir).  That fails if it is gone, if
\* fsnotify is closed, or for good, and then the subtree is skipped; but when the
\* watcher stops, watchDir reports no error.
Visit ==
    /\ "process" \in running /\ proc.pc = "visit" /\ proc.todo # <<>>
    /\ LET p == Head(proc.todo)
           visited == [proc EXCEPT !.todo = Tail(@),
                           !.found = IF p = proc.event.path THEN @
                                     ELSE Append(@, [type |-> "Created", path |-> p])]
       IN /\ knownDirs' = IF p \in Dir THEN knownDirs \union {p} ELSE knownDirs
          /\ \/ /\ p \in File \/ ~Present(p) \/ phase # "open"
                /\ proc' = visited /\ UNCHANGED <<watched, failed>>
             \/ /\ p \in Dir /\ Present(p) /\ phase = "open"
                /\ watched' = watched \union {p}
                /\ proc' = [visited EXCEPT !.pc = "read", !.at = p] /\ UNCHANGED failed
             \/ /\ p \in Dir /\ phase = "waiting"
                /\ proc' = [visited EXCEPT !.pc = "read", !.at = p]
                /\ UNCHANGED <<watched, failed>>
             \/ /\ p \in Dir /\ Present(p) /\ Cardinality(failed) < MaxFailures
                /\ failed' = failed \union {p} /\ proc' = visited /\ UNCHANGED watched
    /\ UNCHANGED <<diskVars, fsq, in, ready, out, running, phase>>

\* It then reads the directory, and goes on with what it finds there.
ReadDir ==
    /\ "process" \in running /\ proc.pc = "read"
    /\ LET entries == {q \in Children(proc.at) : Present(q) /\ q \notin Skipped}
           unread == [proc EXCEPT !.pc = "visit", !.at = NoPath]
       IN \/ /\ Present(proc.at) /\ UNCHANGED failed
             /\ proc' = [unread EXCEPT !.todo = SetToSeq(entries) \o @]
          \/ ~Present(proc.at) /\ proc' = unread /\ UNCHANGED failed
          \/ /\ Present(proc.at) /\ Cardinality(failed) < MaxFailures
             /\ failed' = failed \union {proc.at} /\ proc' = unread
    /\ UNCHANGED <<diskVars, watched, fsq, in, ready, out, knownDirs, running, phase>>

\* The event, unless it repeats the last one, and what was found go into the batch.
AppendFoundFirst ==                                           \* mutant
    /\ "process" \in running
    /\ proc.pc = "append" \/ (proc.pc = "visit" /\ proc.todo = <<>>)
    /\ out' = out \o proc.found \o <<proc.event>>
    /\ proc' = [Idle EXCEPT !.pc = "next", !.batch = proc.batch]
    /\ UNCHANGED <<diskVars, watched, fsq, in, ready, knownDirs, running, failed, phase>>
AppendOnlyEvent ==                                            \* mutant
    /\ "process" \in running
    /\ proc.pc = "append" \/ (proc.pc = "visit" /\ proc.todo = <<>>)
    /\ out' = Append(out, proc.event)
    /\ proc' = [Idle EXCEPT !.pc = "next", !.batch = proc.batch]
    /\ UNCHANGED <<diskVars, watched, fsq, in, ready, knownDirs, running, failed, phase>>
AppendEvents ==
    /\ "process" \in running
    /\ proc.pc = "append" \/ (proc.pc = "visit" /\ proc.todo = <<>>)
    /\ out' = (IF out # <<>> /\ Last(out) = proc.event THEN out ELSE Append(out, proc.event))
              \o proc.found
    /\ proc' = [Idle EXCEPT !.pc = "next", !.batch = proc.batch]
    /\ UNCHANGED <<diskVars, watched, fsq, in, ready, knownDirs, running, failed, phase>>

Done ==
    /\ "process" \in running /\ proc.pc = "next" /\ proc.batch = <<>>
    /\ proc' = Idle
    /\ UNCHANGED <<diskVars, watched, fsq, in, ready, out, knownDirs, running, failed, phase>>

ProcessStops ==
    /\ phase = "waiting" /\ "process" \in running
    /\ proc.pc = "idle" \/ (proc.pc = "next" /\ proc.batch # <<>>)
    /\ running' = running \ {"process"}
    /\ UNCHANGED <<diskVars, watched, fsq, in, ready, out, knownDirs, proc, failed, phase>>

Process == Take \/ ConvertNext \/ Lstat \/ Visit \/ ReadDir \/ AppendEvents \/ Done \/ ProcessStops

-----------------------------------------------------------------------------
\* Close ends fsnotify, then the two goroutines, and waits for them.
CloseFsnotify ==
    /\ phase = "open" /\ phase' = "stopping"
    /\ watched' = {} /\ fsq' = <<>>
    /\ UNCHANGED <<diskVars, watchVars>>
CloseStopLate ==                                              \* mutant
    /\ phase = "stopping" /\ running = {} /\ phase' = "waiting"
    /\ UNCHANGED <<diskVars, watchVars, watched, fsq>>
CloseStop ==
    /\ phase = "stopping" /\ phase' = "waiting"
    /\ UNCHANGED <<diskVars, watchVars, watched, fsq>>
CloseWaitsNot ==                                              \* mutant
    /\ phase = "waiting" /\ phase' = "closed"
    /\ UNCHANGED <<diskVars, watchVars, watched, fsq>>
CloseWait ==
    /\ phase = "waiting" /\ running = {} /\ phase' = "closed"
    /\ UNCHANGED <<diskVars, watchVars, watched, fsq>>
Close == CloseFsnotify \/ CloseStop \/ CloseWait

-----------------------------------------------------------------------------
\* Nothing is under way.
Quiet == /\ phase = "open" /\ proc.pc = "idle"
         /\ fsq = <<>> /\ in = <<>> /\ out = <<>>
Excluded(f) == \E d \in failed \union Skipped : Under(f, d)

\* "Parent directory creation events always precede those of their children", and what
\* is synthesized is "guaranteed to be unique" (filewatcher.go:210-214, 271): whatever
\* happens to the tree during a walk, in what process appends to the batch at a time,
\* after the event it handled, a path follows its directory and is there only once.
CreatedIn(d, b, I) == \E i \in I : b[i] = [type |-> "Created", path |-> d]
ParentsFirst == [][\A j \in Len(out)+1..Len(out') :
    \/ j = Len(out) + 1 /\ out'[j] = proc.event
    \/ /\ out'[j].type = "Created" /\ out'[j].path \notin {Root, proc.event.path}
       /\ CreatedIn(Parent[out'[j].path], out', {i \in 1..j-1 : i >= Len(out)})
       /\ ~CreatedIn(out'[j].path, out', Len(out)+1..j-1)]_out
=============================================================================
