------------------------- MODULE BridgeWatcherProofs -------------------------
(***************************************************************************)
(* Proofs about FileWatcher and BridgeWatcher, for every tree of           *)
(* directories and files and any number of changes and failures: types,    *)
(* shutdown, the order of what a walk finds, and that no change is lost.   *)
(***************************************************************************)
EXTENDS BridgeWatcher, FiniteSetTheorems, SequenceTheorems, TLAPS

\* fsnotify is closed before the goroutines end, and Close returns after they have.
Closing ==
    /\ phase \in {"open", "stopping", "waiting", "closed"}
    /\ phase # "open" => watched = {} /\ fsq = <<>>
    /\ phase = "closed" => running = {}

LEMMA InitClosing == BridgeInit => Closing
BY DEF BridgeInit, Init, Closing

\* The disk goes on changing, but nobody watches it any more.
LEMMA DiskClosing ==
  ASSUME Closing, Disk
  PROVE  Closing' /\ (phase = "closed" => UNCHANGED <<out, watched>>)
<1>1. PICK op, p, now, gone : Change(op, p, now, gone)
  BY DEF Disk, Make, Write, Delete, Move
<1>2. UNCHANGED <<watchVars, phase>> /\ watched' = watched \ gone
  BY <1>1 DEF Change
<1>3. phase # "open" => watched' = {} /\ fsq' = <<>>
  BY <1>1, <1>2 DEF Change, Closing
<1> QED
  BY <1>2, <1>3 DEF Closing, watchVars

\* The goroutines watch nothing new once fsnotify is closed.
LEMMA ProcessClosing ==
  ASSUME Closing, Process
  PROVE  Closing' /\ phase # "closed"
<1>1. "process" \in running /\ phase' = phase /\ fsq' = fsq /\ running' \subseteq running
  BY DEF Process, Take, ConvertNext, Lstat, Visit, ReadDir, AppendEvents, Done, ProcessStops
<1>2. phase # "open" => watched' = watched
  BY DEF Process, Take, ConvertNext, Lstat, Visit, ReadDir, AppendEvents, Done, ProcessStops
<1> QED
  BY <1>1, <1>2 DEF Closing

LEMMA RunClosing ==
  ASSUME Closing, Receive \/ Flush \/ RunStops
  PROVE  Closing' /\ phase # "closed"
BY DEF Closing, Receive, Flush, RunStops

LEMMA CloseClosing ==
  ASSUME Closing, Close
  PROVE  Closing' /\ phase # "closed"
BY DEF Closing, Close, CloseFsnotify, CloseStop, CloseWait, watchVars

LEMMA StepClosing ==
  ASSUME Closing, [BridgeNext]_allVars
  PROVE  Closing' /\ (phase = "closed" => UNCHANGED <<out, watched>>)
<1>1. CASE UNCHANGED vars
  BY <1>1 DEF Closing, vars, watchVars
<1>2. CASE Disk \/ Receive \/ Flush \/ RunStops \/ Process \/ Close
  BY <1>2, DiskClosing, ProcessClosing, RunClosing, CloseClosing
<1> QED
  BY <1>1, <1>2
     DEF BridgeNext, Handle, TakeEvents, Notify, NotifierReturns, BridgeClose, StopNotifier,
         allVars

\* The order in which Close ends things holds at every moment (filewatcher.go:448-461).
THEOREM ClosesInOrder == BridgeSpec => []Closing
  BY InitClosing, StepClosing, PTL DEF BridgeSpec

\* Once Close has returned no batch is handed over and nothing is watched, whatever the
\* goroutines were doing when it was called (filewatcher.go:446-447).
THEOREM ClosedForGood == BridgeSpec => NothingAfterClose
<1>1. Closing /\ [BridgeNext]_allVars => [phase = "closed" => UNCHANGED <<out, watched>>]_allVars
  BY StepClosing
<1> QED
  BY <1>1, ClosesInOrder, PTL DEF BridgeSpec, NothingAfterClose

-----------------------------------------------------------------------------
(* Sequences: their members, and the paths these are about. *)

PathsIn(q) == {q[i].path : i \in DOMAIN q}
Members(q) == {q[i] : i \in DOMAIN q}

LEMMA PathsOfMembers ==
  ASSUME NEW q
  PROVE  \A x : x \in PathsIn(q) <=> \E e \in Members(q) : e.path = x
BY DEF PathsIn, Members

LEMMA MembersOfTail ==
  ASSUME NEW S, NEW q \in Seq(S), q # <<>>
  PROVE  /\ Members(Tail(q)) \subseteq Members(q) /\ Head(q) \in Members(q)
         /\ Members(q) = {Head(q)} \union Members(Tail(q))
         /\ DOMAIN Tail(q) = 1..Len(q)-1 /\ \A i \in DOMAIN Tail(q) : Tail(q)[i] = q[i+1]
<1>1. Len(q) \in Nat \ {0} /\ DOMAIN q = 1..Len(q) /\ Head(q) = q[1]
  BY HeadTailProperties, LenProperties
<1>2. DOMAIN Tail(q) = 1..Len(q)-1 /\ \A i \in DOMAIN Tail(q) : Tail(q)[i] = q[i+1]
  BY <1>1
<1>3. \A i \in DOMAIN q : i = 1 \/ (i - 1 \in DOMAIN Tail(q) /\ Tail(q)[i-1] = q[i])
  BY <1>1, <1>2
<1>4. \A i \in DOMAIN Tail(q) : i + 1 \in DOMAIN q /\ 1 \in DOMAIN q
  BY <1>1, <1>2
<1>5. Head(q) \in Members(q)
  BY <1>1 DEF Members
<1>6. ASSUME NEW x \in Members(Tail(q)) PROVE x \in Members(q)
  BY <1>2, <1>4 DEF Members
<1>7. ASSUME NEW x \in Members(q) PROVE x \in {Head(q)} \union Members(Tail(q))
  <2>1. PICK i \in DOMAIN q : x = q[i]
    BY DEF Members
  <2> QED
    BY <1>1, <1>3, <2>1 DEF Members
<1> QED
  BY <1>2, <1>5, <1>6, <1>7

LEMMA MembersOfConcat ==
  ASSUME NEW S, NEW q \in Seq(S), NEW r \in Seq(S)
  PROVE  Members(q \o r) = Members(q) \union Members(r)
<1>1. /\ DOMAIN q = 1..Len(q) /\ DOMAIN r = 1..Len(r) /\ DOMAIN (q \o r) = 1..Len(q)+Len(r)
      /\ Len(q) \in Nat /\ Len(r) \in Nat
      /\ \A i \in 1..Len(q)+Len(r) : (q \o r)[i] = IF i <= Len(q) THEN q[i] ELSE r[i - Len(q)]
  BY ConcatProperties, LenProperties
<1>2. \A i \in DOMAIN q : i \in DOMAIN (q \o r) /\ (q \o r)[i] = q[i]
  BY <1>1
<1>3. \A i \in DOMAIN r : i + Len(q) \in DOMAIN (q \o r) /\ (q \o r)[i + Len(q)] = r[i]
  BY <1>1
<1>4. \A i \in DOMAIN (q \o r) : \/ i \in DOMAIN q /\ (q \o r)[i] = q[i]
                                 \/ i - Len(q) \in DOMAIN r /\ (q \o r)[i] = r[i - Len(q)]
  BY <1>1
<1>5. ASSUME NEW x \in Members(q) \union Members(r) PROVE x \in Members(q \o r)
  BY <1>2, <1>3 DEF Members
<1>6. ASSUME NEW x \in Members(q \o r) PROVE x \in Members(q) \union Members(r)
  <2>1. PICK i \in DOMAIN (q \o r) : x = (q \o r)[i]
    BY DEF Members
  <2> QED
    BY <1>4, <2>1 DEF Members
<1> QED
  BY <1>5, <1>6

\* A set in some order: every member, once.
LEMMA MembersOfSet ==
  ASSUME NEW X, IsFiniteSet(X)
  PROVE  /\ SetToSeq(X) \in Seq(X) /\ Members(SetToSeq(X)) = X
         /\ \A i, j \in DOMAIN SetToSeq(X) : SetToSeq(X)[i] = SetToSeq(X)[j] => i = j
<1>1. Cardinality(X) \in Nat /\ ExistsBijection(1..Cardinality(X), X)
  BY FS_CardinalityType
<1>2. PICK g \in [1..Cardinality(X) -> X] : IsInjective(g)
  BY <1>1 DEF ExistsBijection, Bijection, Injection
<1>3. SetToSeq(X) \in [1..Cardinality(X) -> X] /\ IsInjective(SetToSeq(X))
  BY <1>2 DEF SetToSeq
<1>4. \A i, j \in DOMAIN SetToSeq(X) : SetToSeq(X)[i] = SetToSeq(X)[j] => i = j
  BY <1>3 DEF IsInjective
<1>5. SetToSeq(X) \in Surjection(1..Cardinality(X), X)
  <2>1. IsFiniteSet(1..Cardinality(X)) /\ Cardinality(1..Cardinality(X)) = Cardinality(X)
    BY <1>1, FS_Interval
  <2>2. SetToSeq(X) \in Injection(1..Cardinality(X), X)
    BY <1>3 DEF Injection
  <2> QED
    BY <2>1, <2>2, FS_Injection
<1>6. SetToSeq(X) \in Seq(X) /\ DOMAIN SetToSeq(X) = 1..Cardinality(X)
  BY <1>1, <1>3
<1>7. \A x \in X : \E i \in DOMAIN SetToSeq(X) : SetToSeq(X)[i] = x
  BY <1>5, <1>6 DEF Surjection
<1> QED
  BY <1>3, <1>4, <1>6, <1>7 DEF Members

LEMMA PathsOfAppend ==
  ASSUME NEW S, NEW q \in Seq(S), NEW e
  PROVE  /\ PathsIn(Append(q, e)) = PathsIn(q) \union {e.path}
         /\ DOMAIN Append(q, e) = 1..Len(q)+1 /\ DOMAIN q = 1..Len(q) /\ Len(q) \in Nat
         /\ Append(q, e)[Len(q)+1] = e /\ \A i \in 1..Len(q) : Append(q, e)[i] = q[i]
<1>1. /\ DOMAIN Append(q, e) = 1..Len(q)+1 /\ DOMAIN q = 1..Len(q) /\ Len(q) \in Nat
      /\ Append(q, e)[Len(q)+1] = e /\ \A i \in 1..Len(q) : Append(q, e)[i] = q[i]
  BY LenProperties
<1>2. \A i \in DOMAIN Append(q, e) :
         i = Len(q) + 1 \/ (i \in DOMAIN q /\ Append(q, e)[i] = q[i])
  BY <1>1
<1>3. Len(q) + 1 \in DOMAIN Append(q, e) /\ DOMAIN q \subseteq DOMAIN Append(q, e)
  BY <1>1
<1>4. ASSUME NEW x \in PathsIn(q) \union {e.path} PROVE x \in PathsIn(Append(q, e))
  BY <1>1, <1>3 DEF PathsIn
<1>5. ASSUME NEW x \in PathsIn(Append(q, e)) PROVE x \in PathsIn(q) \union {e.path}
  BY <1>1, <1>2 DEF PathsIn
<1> QED
  BY <1>1, <1>4, <1>5

LEMMA MembersOfAppend ==
  ASSUME NEW S, NEW q \in Seq(S), NEW e
  PROVE  Members(Append(q, e)) = Members(q) \union {e}
<1>1. /\ DOMAIN Append(q, e) = 1..Len(q)+1 /\ DOMAIN q = 1..Len(q) /\ Len(q) \in Nat
      /\ Append(q, e)[Len(q)+1] = e /\ \A i \in 1..Len(q) : Append(q, e)[i] = q[i]
  BY PathsOfAppend
<1>2. \A i \in DOMAIN Append(q, e) :
         i = Len(q) + 1 \/ (i \in DOMAIN q /\ Append(q, e)[i] = q[i])
  BY <1>1
<1>3. Len(q) + 1 \in DOMAIN Append(q, e) /\ DOMAIN q \subseteq DOMAIN Append(q, e)
  BY <1>1
<1>4. ASSUME NEW x \in Members(q) \union {e} PROVE x \in Members(Append(q, e))
  BY <1>1, <1>3 DEF Members
<1>5. ASSUME NEW x \in Members(Append(q, e)) PROVE x \in Members(q) \union {e}
  BY <1>1, <1>2 DEF Members
<1> QED
  BY <1>4, <1>5

LEMMA PathsOfConcat ==
  ASSUME NEW S, NEW q \in Seq(S), NEW r \in Seq(S)
  PROVE  PathsIn(q \o r) = PathsIn(q) \union PathsIn(r)
BY MembersOfConcat, PathsOfMembers

LEMMA PathsOfTail ==
  ASSUME NEW S, NEW q \in Seq(S), q # <<>>
  PROVE  PathsIn(q) = {Head(q).path} \union PathsIn(Tail(q))
BY MembersOfTail, PathsOfMembers

-----------------------------------------------------------------------------
(* Type correctness. *)

Procs == [pc    : {"idle", "next", "stat", "visit", "read", "append"},
          batch : Seq(FsEvent),
          event : Event \union {NoPath},
          found : Batch,
          todo  : Seq(Path),
          at    : Dir \union {NoPath}]

\* process has an event while it walks for it, and a directory while it reads it.
Working == /\ proc.pc \in {"stat", "visit", "read", "append"} => proc.event \in Event
           /\ proc.pc = "read" => proc.at \in Dir

LEMMA IdleIsProc == Idle \in Procs
BY DEF Idle, Procs, Batch

\* The conversion of an event, whatever is on disk by now.
LEMMA ConvertType ==
  ASSUME NEW ev \in FsEvent
  PROVE  Convert(ev) \in Event
<1>1. Type(ev.op) \in Types /\ ev.path \in Path
  BY DEF FsEvent, Ops, Type, Types
<1> QED
  BY <1>1 DEF Convert, Event

LEMMA DiskType ==
  ASSUME TypeOK, Working, Disk
  PROVE  TypeOK' /\ Working'
<1> DEFINE Now == [Path -> 0..MaxChanges + 1]
<1>1. PICK op, p, now, gone : Change(op, p, now, gone) /\ op \in Ops /\ p \in Path /\ now \in Now
  <2>1. changes < MaxChanges /\ changes + 2 \in 0..MaxChanges + 1 /\ 0 \in 0..MaxChanges + 1
        /\ disk \in Now
    <3>1. changes < MaxChanges
      <4>1. \E op, p, now, gone : Change(op, p, now, gone)
        BY DEF Disk, Make, Write, Delete, Move
      <4> QED
        BY <4>1 DEF Change
    <3>2. changes \in Nat /\ MaxChanges \in Nat /\ disk \in Now
      BY FileWatcherAssumption DEF TypeOK
    <3> QED
      BY <3>1, <3>2
  <2>2. ASSUME NEW p \in Path, Make(p)
        PROVE  \E now, gone : Change("Create", p, now, gone) /\ now \in Now
    BY <2>1, <2>2 DEF Make
  <2>3. ASSUME NEW p \in Path, Delete(p)
        PROVE  \E now, gone : Change("Remove", p, now, gone) /\ now \in Now
    <3>1. Change("Remove", p, [disk EXCEPT ![p] = 0], {p})
      BY <2>3 DEF Delete
    <3>2. [disk EXCEPT ![p] = 0] \in Now
      BY <2>1
    <3> QED
      BY <3>1, <3>2
  <2>4. ASSUME NEW f \in File, Write(f)
        PROVE  f \in Path /\ \E now, gone : Change("Write", f, now, gone) /\ now \in Now
    <3>1. Change("Write", f, [disk EXCEPT ![f] = changes + 2], {})
      BY <2>4 DEF Write
    <3>2. [disk EXCEPT ![f] = changes + 2] \in Now
      BY <2>1
    <3> QED
      BY <3>1, <3>2 DEF Path
  <2>5. ASSUME NEW d \in Dir, Move(d)
        PROVE  d \in Path /\ \E now, gone : Change("Rename", d, now, gone) /\ now \in Now
    BY <2>1, <2>5 DEF Move, Path
  <2> QED
    BY <2>2, <2>3, <2>4, <2>5 DEF Disk, Ops
<1>2. /\ disk' \in Now /\ changes' \in 0..MaxChanges
      /\ watched' \subseteq Dir /\ vanished' \subseteq File
      /\ UNCHANGED <<watchVars, phase>>
  BY <1>1, FileWatcherAssumption DEF Change, TypeOK
<1>3. fsq' \in Seq(FsEvent)
  <2>1. [op |-> op, path |-> p] \in FsEvent
    BY <1>1 DEF FsEvent
  <2> QED
    BY <1>1, <2>1 DEF Change, TypeOK
<1> QED
  BY <1>2, <1>3 DEF TypeOK, Working, watchVars

LEMMA RunType ==
  ASSUME TypeOK, Working, Receive \/ Flush \/ RunStops \/ Close
  PROVE  TypeOK' /\ Working'
<1>1. CASE Receive
  <2>1. Head(fsq) \in FsEvent /\ Tail(fsq) \in Seq(FsEvent)
    BY <1>1, HeadTailProperties DEF Receive, TypeOK
  <2>2. in' \in Seq(FsEvent) /\ fsq' \in Seq(FsEvent)
    BY <1>1, <2>1 DEF Receive, TypeOK
  <2> QED
    BY <1>1, <2>2 DEF Receive, TypeOK, Working, diskVars
<1>2. CASE Flush
  BY <1>2 DEF Flush, TypeOK, Working, diskVars, Batch
<1>3. CASE RunStops
  <2>1. running' \subseteq running
        /\ UNCHANGED <<diskVars, watched, fsq, in, ready, out, knownDirs, proc, failed, phase>>
    BY <1>3 DEF RunStops
  <2> QED
    BY <2>1 DEF TypeOK, Working, diskVars
<1>4. CASE Close
  <2>1. /\ UNCHANGED <<diskVars, watchVars>> /\ watched' \subseteq watched
        /\ phase' \in {"stopping", "waiting", "closed"} /\ fsq' \in {fsq, <<>>}
    BY <1>4 DEF Close, CloseFsnotify, CloseStop, CloseWait
  <2>2. UNCHANGED <<disk, changes, vanished, in, ready, out, knownDirs, proc, running, failed>>
    BY <2>1 DEF diskVars, watchVars
  <2>3. fsq' \in Seq(FsEvent) /\ watched' \subseteq Dir
    <3>1. fsq \in Seq(FsEvent) /\ watched \subseteq Dir /\ <<>> \in Seq(FsEvent)
      BY DEF TypeOK
    <3> QED
      BY <2>1, <3>1, Zenon
  <2> QED
    BY <2>1, <2>2, <2>3 DEF TypeOK, Working
<1> QED
  BY <1>1, <1>2, <1>3, <1>4

\* What the steps of process must show.
LEMMA ProcType ==
  ASSUME TypeOK, proc' \in Procs, Working', watched' \subseteq Dir, knownDirs' \subseteq Dir,
         failed' \subseteq Dir, in' \in Seq(FsEvent), out' \in Batch, ready' \in BOOLEAN,
         running' \subseteq running, UNCHANGED <<diskVars, fsq, phase>>
  PROVE  TypeOK' /\ Working'
BY DEF TypeOK, Procs, diskVars

LEMMA ProcessType ==
  ASSUME TypeOK, Working, Process
  PROVE  TypeOK' /\ Working'
<1>0. /\ proc \in Procs /\ in \in Seq(FsEvent) /\ out \in Batch /\ ready \in BOOLEAN
      /\ watched \subseteq Dir /\ knownDirs \subseteq Dir /\ failed \subseteq Dir
  BY DEF TypeOK, Procs
<1>1. CASE Take
  <2>1. proc' \in Procs /\ Working'
    <3>1. proc' = [proc EXCEPT !.pc = "next", !.batch = in]
      BY <1>1 DEF Take
    <3> QED
      BY <1>0, <3>1 DEF Procs, Working
  <2> QED
    <3>1. ready' \in BOOLEAN
      BY <1>1 DEF Take
    <3>2. in' \in Seq(FsEvent)
      BY <1>1 DEF Take
    <3> QED
      BY <1>0, <1>1, <2>1, <3>1, <3>2, ProcType DEF Take
<1>2. CASE ConvertNext
  <2> DEFINE e == Convert(Head(proc.batch))  rest == Tail(proc.batch)
  <2>1. e \in Event /\ rest \in Seq(FsEvent)
    <3>1. Head(proc.batch) \in FsEvent /\ rest \in Seq(FsEvent)
      BY <1>0, <1>2, HeadTailProperties DEF ConvertNext, Procs
    <3> QED
      BY <3>1, ConvertType
  <2> HIDE DEF e, rest
  <2>2. \/ proc' = [proc EXCEPT !.batch = rest]
        \/ proc' = [proc EXCEPT !.pc = "stat", !.batch = rest, !.event = e]
        \/ proc' = [proc EXCEPT !.pc = "append", !.batch = rest, !.event = e]
    BY <1>2 DEF ConvertNext, e, rest
  <2>3. proc' \in Procs /\ Working'
    BY <1>0, <2>1, <2>2 DEF Procs, Working
  <2>4. knownDirs' \subseteq Dir
    BY <1>0, <1>2 DEF ConvertNext
  <2> QED
    BY <1>0, <1>2, <2>3, <2>4, ProcType DEF ConvertNext
<1>3. CASE Lstat
  <2>1. proc.event \in Event /\ proc.event.path \in Path
    BY <1>3 DEF Lstat, Working, Event
  <2>2. <<proc.event.path>> \in Seq(Path)
    BY <2>1
  <2>3. proc' \in Procs /\ Working'
    BY <1>0, <1>3, <2>1, <2>2 DEF Lstat, Procs, Working
  <2> QED
    BY <1>0, <1>3, <2>3, ProcType DEF Lstat
<1>4. CASE Visit
  <2> DEFINE p == Head(proc.todo)  tail == Tail(proc.todo)
             now == IF p = proc.event.path THEN proc.found
                    ELSE Append(proc.found, [type |-> "Created", path |-> p])
  <2>1. p \in Path /\ tail \in Seq(Path) /\ proc.event \in Event
    BY <1>0, <1>4, HeadTailProperties DEF Visit, Procs, Working
  <2>2. now \in Batch
    <3>1. [type |-> "Created", path |-> p] \in Event
      BY <2>1 DEF Event, Types
    <3> QED
      BY <1>0, <3>1 DEF Procs, Batch
  <2>3. \/ proc' = [proc EXCEPT !.todo = tail, !.found = now]
        \/ p \in Dir /\ proc' = [proc EXCEPT !.todo = tail, !.found = now, !.pc = "read", !.at = p]
    BY <1>4 DEF Visit
  <2>4. watched' \subseteq Dir /\ knownDirs' \subseteq Dir /\ failed' \subseteq Dir
    BY <1>0, <1>4 DEF Visit
  <2> HIDE DEF p, tail, now
  <2>5. proc' \in Procs /\ Working'
    BY <1>0, <1>4, <2>1, <2>2, <2>3 DEF Visit, Procs, Working
  <2> QED
    BY <1>0, <1>4, <2>4, <2>5, ProcType DEF Visit
<1>5. CASE ReadDir
  <2> DEFINE entries == {q \in Children(proc.at) : Present(q) /\ q \notin Skipped}
  <2>1. SetToSeq(entries) \in Seq(Path)
    <3>1. IsFiniteSet(entries) /\ entries \subseteq Path
      BY FileWatcherAssumption, FS_Subset DEF Children
    <3>2. SetToSeq(entries) \in Seq(entries)
      BY <3>1, MembersOfSet
    <3> QED
      BY <3>1, <3>2, SeqMonotonic
  <2> HIDE DEF entries
  <2>2. SetToSeq(entries) \o proc.todo \in Seq(Path)
    BY <1>0, <2>1, ConcatProperties DEF Procs
  <2>3. \/ proc' = [proc EXCEPT !.pc = "visit", !.at = NoPath,
                                !.todo = SetToSeq(entries) \o proc.todo]
        \/ proc' = [proc EXCEPT !.pc = "visit", !.at = NoPath]
    BY <1>5 DEF ReadDir, entries
  <2>4. proc' \in Procs /\ Working'
    BY <1>0, <1>5, <2>2, <2>3 DEF ReadDir, Procs, Working
  <2>5. failed' \subseteq Dir
    BY <1>0, <1>5 DEF ReadDir, Working
  <2> QED
    BY <1>0, <1>5, <2>4, <2>5, ProcType DEF ReadDir
<1>6. CASE AppendEvents
  <2>1. proc.event \in Event /\ proc.found \in Seq(Event) /\ out \in Seq(Event)
    BY <1>0, <1>6 DEF AppendEvents, Working, Procs, Batch
  <2> DEFINE front == IF out # <<>> /\ Last(out) = proc.event THEN out ELSE Append(out, proc.event)
  <2>2. front \in Seq(Event)
    BY <2>1
  <2>3. out' = front \o proc.found
    BY <1>6 DEF AppendEvents
  <2> HIDE DEF front
  <2>4. out' \in Batch
    BY <2>1, <2>2, <2>3, ConcatProperties DEF Batch
  <2>5. proc' \in Procs /\ Working'
    BY <1>0, <1>6, IdleIsProc DEF AppendEvents, Procs, Working
  <2> QED
    BY <1>0, <1>6, <2>4, <2>5, ProcType DEF AppendEvents
<1>7. CASE Done
  <2>1. proc' \in Procs /\ Working'
    BY <1>7, IdleIsProc DEF Done, Working, Idle
  <2> QED
    BY <1>0, <1>7, <2>1, ProcType DEF Done
<1>8. CASE ProcessStops
  BY <1>0, <1>8, ProcType DEF ProcessStops, Working
<1> QED
  BY <1>1, <1>2, <1>3, <1>4, <1>5, <1>6, <1>7, <1>8 DEF Process

LEMMA InitType == BridgeInit => BridgeTypeOK /\ Working
<1> SUFFICES ASSUME BridgeInit PROVE BridgeTypeOK /\ Working
  OBVIOUS
<1>1. TypeOK /\ Working
  <2>1. proc \in Procs
    BY IdleIsProc DEF BridgeInit, Init
  <2>2. disk \in [Path -> 0..MaxChanges + 1] /\ changes \in 0..MaxChanges
    BY FileWatcherAssumption DEF BridgeInit, Init
  <2>3. Working
    BY DEF BridgeInit, Init, Working, Idle
  <2>4. ready \in BOOLEAN
    BY DEF BridgeInit, Init
  <2>5. /\ watched \subseteq Dir /\ fsq \in Seq(FsEvent) /\ in \in Seq(FsEvent)
        /\ out \in Batch /\ knownDirs \subseteq Dir
        /\ running \subseteq {"run", "process"}
        /\ phase \in {"open", "stopping", "waiting", "closed"}
        /\ vanished \subseteq File /\ failed \subseteq Dir
    BY DEF BridgeInit, Init, Batch
  <2> QED
    BY <2>1, <2>2, <2>3, <2>4, <2>5 DEF TypeOK, Procs
<1>2. seen \in [File -> 0..MaxChanges + 1]
  <2>1. disk \in [Path -> 0..MaxChanges + 1] /\ seen = [f \in File |-> disk[f]]
    BY <1>1 DEF BridgeInit, TypeOK
  <2> QED
    BY <2>1 DEF Path
<1> QED
  <2>1. nonempty \in BOOLEAN /\ stopped \in BOOLEAN
    BY DEF BridgeInit
  <2>2. queue \in Batch /\ work \in Batch /\ notifier = "waiting"
    BY DEF BridgeInit, Batch
  <2> QED
    BY <1>1, <1>2, <2>1, <2>2 DEF BridgeTypeOK

LEMMA StepType ==
  ASSUME BridgeTypeOK, Working, [BridgeNext]_allVars
  PROVE  BridgeTypeOK' /\ Working'
<1>0. TypeOK
  BY DEF BridgeTypeOK
<1>1. CASE /\ UNCHANGED vars
           /\ \/ Notify \/ TakeEvents \/ NotifierReturns \/ StopNotifier
              \/ UNCHANGED bridgeVars
  <2>1. TypeOK' /\ Working'
    <3>1. UNCHANGED <<disk, changes, vanished, watched, fsq, in, ready, out, knownDirs, proc,
                      running, failed, phase>>
      BY <1>1 DEF vars, diskVars, watchVars
    <3> QED
      BY <1>0, <3>1 DEF TypeOK, Working
  <2>2. CASE Notify
    <3>1. seen' \in [File -> 0..MaxChanges + 1]
      <4>1. /\ disk \in [Path -> 0..MaxChanges + 1] /\ seen \in [File -> 0..MaxChanges + 1]
            /\ File \subseteq Path
        BY <1>0 DEF BridgeTypeOK, TypeOK, Path
      <4> QED
        BY <2>2, <4>1 DEF Notify
    <3>2. work' \in Batch /\ notifier' = "waiting" /\ UNCHANGED <<queue, nonempty, stopped>>
      BY <2>2 DEF Notify, Batch
    <3> QED
      BY <2>1, <3>1, <3>2 DEF BridgeTypeOK
  <2>3. CASE TakeEvents
    <3>1. /\ queue' \in Batch /\ work' \in Batch /\ nonempty' = FALSE
          /\ notifier' \in {"waiting", "notifying"} /\ UNCHANGED <<stopped, seen>>
      BY <2>3 DEF TakeEvents, BridgeTypeOK, Batch
    <3> QED
      BY <2>1, <3>1 DEF BridgeTypeOK
  <2>4. CASE NotifierReturns
    BY <2>1, <2>4 DEF NotifierReturns, BridgeTypeOK
  <2>5. CASE StopNotifier
    BY <2>1, <2>5 DEF StopNotifier, BridgeTypeOK
  <2>6. CASE UNCHANGED bridgeVars
    BY <2>1, <2>6 DEF bridgeVars, BridgeTypeOK
  <2> QED
    BY <1>1, <2>2, <2>3, <2>4, <2>5, <2>6
<1>2. CASE Handle
  <2>1. TypeOK' /\ Working'
    BY <1>0, <1>2, RunType DEF Handle
  <2>2. queue' \in Batch
    BY <1>0, <1>2, ConcatProperties DEF Handle, BridgeTypeOK, TypeOK, Batch
  <2> QED
    BY <1>2, <2>1, <2>2 DEF Handle, BridgeTypeOK
<1>3. CASE (Disk \/ Receive \/ RunStops \/ Process \/ Close) /\ UNCHANGED bridgeVars
  <2>1. TypeOK' /\ Working'
    BY <1>0, <1>3, DiskType, RunType, ProcessType
  <2> QED
    BY <1>3, <2>1 DEF BridgeTypeOK, bridgeVars
<1> QED
  BY <1>1, <1>2, <1>3
     DEF BridgeNext, TakeEvents, Notify, NotifierReturns, BridgeClose, StopNotifier, allVars

\* Type correctness; in particular process never handles an event it does not have
\* (filewatcher.go:186-273).
THEOREM TypeCorrect == BridgeSpec => []BridgeTypeOK
<1>1. BridgeTypeOK /\ Working /\ [BridgeNext]_allVars => (BridgeTypeOK /\ Working)'
  BY StepType
<1> QED
  BY InitType, <1>1, PTL DEF BridgeSpec

-----------------------------------------------------------------------------
(* The tree. *)

LEMMA ParentType == ASSUME NEW p \in Path, p # Root PROVE Parent[p] \in Path
BY FileWatcherAssumption DEF Path

\* Lineage[p] is the least set with p that has all parents of its members.
LEMMA LineageLeast ==
  ASSUME NEW p \in Path, NEW S \in SUBSET Path, p \in S, Upward(S)
  PROVE  Lineage[p] \subseteq S
BY DEF Lineage

\* It has them all itself.
LEMMA LineageUpward ==
  ASSUME NEW p \in Path
  PROVE  p \in Lineage[p] /\ Lineage[p] \subseteq Path /\ Upward(Lineage[p])
<1>1. p \in Lineage[p] /\ Lineage[p] \subseteq Path
  BY DEF Lineage
<1>2. ASSUME NEW q \in Lineage[p] \ {Root} PROVE Parent[q] \in Lineage[p]
  <2>1. q \in Path /\ Parent[q] \in Path
    BY <1>1, <1>2, ParentType
  <2>2. ASSUME NEW S \in SUBSET Path, p \in S, Upward(S) PROVE Parent[q] \in S
    <3>1. q \in S
      BY <1>2, <2>2, LineageLeast
    <3> QED
      BY <1>2, <2>2, <3>1 DEF Upward
  <2> QED
    BY <2>1, <2>2 DEF Lineage
<1> QED
  BY <1>1, <1>2 DEF Upward

LEMMA LineageTransitive ==
  ASSUME NEW p \in Path, NEW q \in Lineage[p]
  PROVE  Lineage[q] \subseteq Lineage[p]
BY LineageUpward, LineageLeast

\* What is above p's directory is above p, and nothing else but p.
LEMMA LineageParent ==
  ASSUME NEW p \in Path, p # Root
  PROVE  /\ Lineage[p] \subseteq {p} \union Lineage[Parent[p]]
         /\ Lineage[Parent[p]] \subseteq Lineage[p] \ {p}
<1>1. Parent[p] \in Path
  BY ParentType
<1>2. Upward({p} \union Lineage[Parent[p]]) /\ {p} \union Lineage[Parent[p]] \subseteq Path
  BY <1>1, LineageUpward DEF Upward
<1>3. p \in Lineage[p] /\ Upward(Lineage[p])
  BY LineageUpward
<1>4. Parent[p] \in Lineage[p]
  BY <1>3 DEF Upward
<1>5. p \notin Lineage[Parent[p]]
  BY FileWatcherAssumption DEF Under
<1> QED
  BY <1>2, <1>4, <1>5, LineageLeast, LineageTransitive

\* Below a directory of its lineage, p is below one of that directory's entries.
LEMMA LineageChild ==
  ASSUME NEW p \in Path, NEW q \in Lineage[p], q # p
  PROVE  \E a \in Lineage[p] : a # Root /\ Parent[a] = q
<1> SUFFICES ASSUME \A a \in Lineage[p] : a # Root => Parent[a] # q PROVE FALSE
  OBVIOUS
<1>1. Upward(Lineage[p] \ {q}) /\ p \in Lineage[p] \ {q} /\ Lineage[p] \subseteq Path
  BY LineageUpward DEF Upward
<1> QED
  BY <1>1, LineageLeast

-----------------------------------------------------------------------------
(* The walk, from a directory's event to what is appended for it. *)

\* The paths the walk has met.
Met == {proc.event.path} \union PathsIn(proc.found)

\* What is found follows its directory and is found only once ...
FoundInOrder == \A i \in DOMAIN proc.found :
    /\ proc.event.type = "Created"
    /\ proc.found[i].type = "Created" /\ proc.found[i].path \notin {Root, proc.event.path}
    /\ \/ Parent[proc.found[i].path] = proc.event.path
       \/ \E k \in 1..i-1 : proc.found[k].path = Parent[proc.found[i].path]
    /\ \A k \in 1..i-1 : proc.found[k].path # proc.found[i].path

\* ... because what is still to be visited lies in a directory the walk has met, is there
\* once, and the walk has met nothing below it.
TodoAhead ==
    /\ \A i, j \in DOMAIN proc.todo : proc.todo[i] = proc.todo[j] => i = j
    /\ \A x \in Members(proc.todo) :
         /\ x = proc.event.path \/ (x # Root /\ Parent[x] \in Met)
         /\ x \notin PathsIn(proc.found)
         /\ \A y \in Members(proc.todo) \union Met : Under(y, x) => x = y

\* The same of the directory that is read.
ReadingAhead ==
    /\ proc.at \in Met /\ proc.at \notin Members(proc.todo)
    /\ \A y \in Members(proc.todo) \union Met : Under(y, proc.at) => y = proc.at

\* What holds of process at any moment: it finds something only while it walks a created
\* directory.
Walk == /\ proc.pc \in {"idle", "next", "stat"} => proc.found = <<>>
        /\ FoundInOrder
        /\ proc.pc \in {"stat", "visit", "read"} => proc.event.type = "Created"
        /\ proc.pc \in {"visit", "read"} => TodoAhead
        /\ proc.pc = "read" => ReadingAhead

\* A visited path moves from what is to be visited to what was found.
LEMMA VisitWalk ==
  ASSUME TypeOK, Working, Walk, Visit
  PROVE  Walk'
<1> DEFINE p == Head(proc.todo)  tail == Tail(proc.todo)
           now == IF p = proc.event.path THEN proc.found
                  ELSE Append(proc.found, [type |-> "Created", path |-> p])
<1>1. /\ proc.pc = "visit" /\ proc.todo \in Seq(Path) /\ proc.todo # <<>>
      /\ proc.found \in Seq(Event) /\ proc \in Procs
  BY DEF Visit, TypeOK, Procs, Batch
<1>2. /\ \/ proc' = [proc EXCEPT !.todo = tail, !.found = now]
         \/ proc' = [proc EXCEPT !.todo = tail, !.found = now, !.pc = "read", !.at = p]
  BY DEF Visit
<1>3. /\ Members(tail) \subseteq Members(proc.todo) /\ p \in Members(proc.todo)
      /\ p \notin Members(tail)
      /\ \A i, j \in DOMAIN tail : tail[i] = tail[j] => i = j
  <2>1. /\ Members(tail) \subseteq Members(proc.todo) /\ p \in Members(proc.todo)
        /\ DOMAIN tail = 1..Len(proc.todo)-1 /\ p = proc.todo[1] /\ DOMAIN proc.todo = 1..Len(proc.todo)
        /\ \A i \in DOMAIN tail : tail[i] = proc.todo[i+1]
        /\ Len(proc.todo) \in Nat \ {0}
    BY <1>1, MembersOfTail, HeadTailProperties, LenProperties
  <2>2. \A i, j \in DOMAIN proc.todo : proc.todo[i] = proc.todo[j] => i = j
    BY <1>1 DEF Walk, TodoAhead
  <2>3. \A i \in DOMAIN tail : i + 1 \in DOMAIN proc.todo /\ i + 1 # 1 /\ 1 \in DOMAIN proc.todo
                               /\ i \in Int
    BY <2>1
  <2>4. \A i, j \in DOMAIN tail : tail[i] = tail[j] => i = j
    <3> SUFFICES ASSUME NEW i \in DOMAIN tail, NEW j \in DOMAIN tail, tail[i] = tail[j] PROVE i = j
      OBVIOUS
    <3>1. i + 1 = j + 1
      BY <2>1, <2>2, <2>3
    <3> QED
      BY <2>3, <3>1
  <2>5. p \notin Members(tail)
    BY <2>1, <2>2, <2>3 DEF Members
  <2> QED
    BY <2>1, <2>4, <2>5
<1> HIDE DEF p, tail, now
<1>4. /\ proc'.todo = tail /\ proc'.found = now /\ proc'.event = proc.event
      /\ proc'.pc \in {"visit", "read"} /\ (proc'.pc = "read" => proc'.at = p)
  BY <1>1, <1>2 DEF Procs
<1>5. /\ p = proc.event.path \/ (p # Root /\ Parent[p] \in Met)
      /\ p \notin PathsIn(proc.found)
      /\ \A y \in Members(proc.todo) \union Met : Under(y, p) => p = y
  BY <1>1, <1>3 DEF Walk, TodoAhead
<1>6. PathsIn(now) \subseteq PathsIn(proc.found) \union {p} /\ Met' = Met \union {p}
  BY <1>1, <1>4, PathsOfAppend DEF now, Met
<1>7. FoundInOrder'
  <2>1. CASE p = proc.event.path
    BY <1>4, <2>1 DEF now, Walk, FoundInOrder
  <2>2. CASE p # proc.event.path
    <3> DEFINE n == Len(proc.found)  f == proc.found
    <3>1. /\ DOMAIN now = 1..n+1 /\ DOMAIN f = 1..n /\ n \in Nat
          /\ now[n+1].type = "Created" /\ now[n+1].path = p
          /\ \A i \in 1..n : now[i] = f[i]
      BY <1>1, <2>2, PathsOfAppend DEF now
    <3> HIDE DEF n
    <3>2. ASSUME NEW i \in 1..n
          PROVE  /\ proc.event.type = "Created"
                 /\ now[i].type = "Created" /\ now[i].path \notin {Root, proc.event.path}
                 /\ Parent[now[i].path] = proc.event.path \/ \E k \in 1..i-1 : now[k].path = Parent[now[i].path]
                 /\ \A k \in 1..i-1 : now[k].path # now[i].path
      <4>1. \A k \in 1..i-1 : k \in 1..n /\ now[k] = f[k]
        BY <3>1
      <4>2. now[i] = f[i] /\ i \in DOMAIN f
        BY <3>1
      <4> QED
        BY <4>1, <4>2 DEF Walk, FoundInOrder
    <3>3. /\ proc.event.type = "Created"
          /\ now[n+1].type = "Created" /\ now[n+1].path \notin {Root, proc.event.path}
          /\ Parent[now[n+1].path] = proc.event.path \/ \E k \in 1..n+1-1 : now[k].path = Parent[now[n+1].path]
          /\ \A k \in 1..n+1-1 : now[k].path # now[n+1].path
      <4>1. n + 1 - 1 = n
        BY <3>1
      <4>2. \A x : x \in PathsIn(f) <=> \E k \in 1..n : now[k].path = x
        BY <3>1 DEF PathsIn
      <4> QED
        BY <1>1, <1>5, <2>2, <3>1, <4>1, <4>2 DEF Met, Walk
    <3>4. \A i \in DOMAIN now : i = n+1 \/ i \in 1..n
      BY <3>1
    <3>5. ASSUME NEW i \in DOMAIN now
          PROVE  /\ proc.event.type = "Created"
                 /\ now[i].type = "Created" /\ now[i].path \notin {Root, proc.event.path}
                 /\ Parent[now[i].path] = proc.event.path \/ \E k \in 1..i-1 : now[k].path = Parent[now[i].path]
                 /\ \A k \in 1..i-1 : now[k].path # now[i].path
      <4>1. CASE i = n+1
        <5>1. i - 1 = n + 1 - 1
          BY <3>1, <4>1
        <5> QED
          BY <3>3, <4>1, <5>1
      <4>2. CASE i \in 1..n
        BY <3>2, <4>2
      <4> QED
        BY <3>4, <4>1, <4>2
    <3> QED
      BY <1>4, <3>5 DEF FoundInOrder
  <2> QED
    BY <2>1, <2>2
<1>8. TodoAhead'
  <2>1. ASSUME NEW x \in Members(tail)
        PROVE  /\ x = proc.event.path \/ (x # Root /\ Parent[x] \in Met')
               /\ x \notin PathsIn(now)
               /\ \A y \in Members(tail) \union Met' : Under(y, x) => x = y
    BY <1>1, <1>3, <1>6 DEF Walk, TodoAhead
  <2> QED
    BY <1>3, <1>4, <2>1 DEF TodoAhead
<1>9. proc'.pc = "read" => ReadingAhead'
  BY <1>3, <1>4, <1>5, <1>6 DEF ReadingAhead
<1> QED
  BY <1>1, <1>4, <1>7, <1>8, <1>9 DEF Walk

\* What a directory contains is new to the walk, whatever it has met before.
LEMMA ReadDirWalk ==
  ASSUME TypeOK, Working, Walk, ReadDir
  PROVE  Walk'
<1> DEFINE x == proc.at
           entries == {q \in Children(x) : Present(q) /\ q \notin Skipped}
           read == SetToSeq(entries)
<1>1. /\ proc.pc = "read" /\ x \in Path /\ x \in Met /\ x \notin Members(proc.todo)
      /\ \A y \in Members(proc.todo) \union Met : Under(y, x) => y = x
      /\ TodoAhead /\ FoundInOrder /\ proc.event.type = "Created"
  BY DEF ReadDir, Working, Walk, ReadingAhead, Path
<1>2. \/ proc' = [proc EXCEPT !.pc = "visit", !.at = NoPath, !.todo = read \o proc.todo]
      \/ proc' = [proc EXCEPT !.pc = "visit", !.at = NoPath]
  BY DEF ReadDir
<1>3. proc \in Procs /\ proc.todo \in Seq(Path) /\ proc.event \in Event /\ proc.found \in Seq(Event)
  BY <1>1 DEF TypeOK, Procs, Working, Batch
<1>4. /\ proc'.pc = "visit" /\ proc'.found = proc.found /\ proc'.event = proc.event
      /\ proc'.todo \in {read \o proc.todo, proc.todo}
  BY <1>2, <1>3 DEF Procs
<1>5. FoundInOrder' /\ Met' = Met
  BY <1>1, <1>4 DEF FoundInOrder, Met
<1>6. CASE proc'.todo = proc.todo
  BY <1>1, <1>4, <1>5, <1>6 DEF Walk, TodoAhead
<1>7. CASE proc'.todo = read \o proc.todo
  <2>1. IsFiniteSet(entries) /\ entries \subseteq Path
    BY FileWatcherAssumption, FS_Subset DEF Children
  <2>2. /\ read \in Seq(Path) /\ Members(read) = entries
        /\ \A i, j \in DOMAIN read : read[i] = read[j] => i = j
    <3> HIDE DEF entries
    <3>1. /\ read \in Seq(entries) /\ Members(read) = entries
          /\ \A i, j \in DOMAIN read : read[i] = read[j] => i = j
      BY <2>1, MembersOfSet
    <3> QED
      BY <2>1, <3>1, SeqMonotonic
  <2>3. \A q \in entries : q \in Path /\ q # Root /\ Parent[q] = x
    BY DEF Children
  <2> HIDE DEF entries, read, x
  <2>4. Members(proc'.todo) = entries \union Members(proc.todo)
    BY <1>3, <1>7, <2>2, MembersOfConcat
  <2>5. Met \subseteq Path /\ Members(proc.todo) \subseteq Path
    <3>1. \A i \in DOMAIN proc.found : proc.found[i].path \in Path
      <4>1. \A i \in DOMAIN proc.found : proc.found[i] \in Event
        BY <1>3
      <4> QED
        BY <4>1 DEF Event
    <3>2. \A i \in DOMAIN proc.todo : proc.todo[i] \in Path
      BY <1>3
    <3>3. proc.event.path \in Path
      BY <1>3 DEF Event
    <3> QED
      BY <3>1, <3>2, <3>3 DEF Met, PathsIn, Members
  <2>6. \A q \in entries : ~Under(x, q)
    BY <2>3, FileWatcherAssumption
  \* Nothing that was met or is to be visited is an entry or below one.
  <2>7. ASSUME NEW q \in entries, NEW y \in Members(proc.todo) \union Met
        PROVE  ~Under(y, q)
    <3> SUFFICES ASSUME Under(y, q) PROVE FALSE
      OBVIOUS
    <3>1. y \in Path /\ q \in Lineage[y] /\ q \in Path
      BY <2>1, <2>5 DEF Under
    <3>2. x \in Lineage[y]
      BY <2>3, <3>1, LineageUpward DEF Upward
    <3>3. y = x
      BY <1>1, <3>2 DEF Under
    <3> QED
      BY <2>6, <3>3
  <2>8. \A q \in entries : q \notin Members(proc.todo) /\ q \notin Met
    <3>1. \A q \in entries : Under(q, q)
      BY <2>1, LineageUpward DEF Under
    <3> QED
      BY <2>7, <3>1
  \* What was to be visited is not above an entry, nor is another entry.
  <2>9. ASSUME NEW q \in entries, NEW y \in entries \union Members(proc.todo), Under(q, y)
        PROVE  q = y
    <3> SUFFICES ASSUME q # y PROVE FALSE
      OBVIOUS
    <3>1. Under(x, y)
      BY <2>1, <2>3, <2>9, LineageParent DEF Under
    <3>2. y \in Members(proc.todo)
      BY <2>6, <3>1
    <3> QED
      BY <1>1, <3>1, <3>2 DEF TodoAhead
  <2>10. ASSUME NEW q \in Members(proc'.todo)
         PROVE  /\ q = proc.event.path \/ (q # Root /\ Parent[q] \in Met)
                /\ q \notin PathsIn(proc.found)
                /\ \A y \in Members(proc'.todo) \union Met : Under(y, q) => q = y
    <3>1. CASE q \in entries
      BY <1>1, <2>3, <2>4, <2>7, <2>8, <2>9, <3>1 DEF Met
    <3>2. CASE q \in Members(proc.todo)
      BY <1>1, <2>4, <2>9, <3>2 DEF TodoAhead
    <3> QED
      BY <2>4, <3>1, <3>2
  <2>11. \A i, j \in DOMAIN proc'.todo : proc'.todo[i] = proc'.todo[j] => i = j
    <3> DEFINE todo == proc'.todo  n == Len(read)
    <3>1. /\ DOMAIN todo = 1..n+Len(proc.todo) /\ n \in Nat /\ Len(proc.todo) \in Nat
          /\ \A i \in DOMAIN todo : todo[i] = IF i <= n THEN read[i] ELSE proc.todo[i - n]
          /\ DOMAIN read = 1..n /\ DOMAIN proc.todo = 1..Len(proc.todo)
      BY <1>3, <1>7, <2>2, ConcatProperties, LenProperties
    <3>2. \A i \in DOMAIN todo : \/ i <= n /\ i \in DOMAIN read /\ todo[i] = read[i]
                                 \/ i > n /\ i - n \in DOMAIN proc.todo /\ todo[i] = proc.todo[i - n]
      BY <3>1
    <3>3. \A i \in DOMAIN todo : /\ i <= n => todo[i] \in entries
                                 /\ i > n => todo[i] \in Members(proc.todo)
      <4>1. \A i \in DOMAIN read : read[i] \in entries
        BY <2>2 DEF Members
      <4>2. \A i \in DOMAIN proc.todo : proc.todo[i] \in Members(proc.todo)
        BY DEF Members
      <4> QED
        BY <3>1, <3>2, <4>1, <4>2
    <3> SUFFICES ASSUME NEW i \in DOMAIN todo, NEW j \in DOMAIN todo, todo[i] = todo[j] PROVE i = j
      OBVIOUS
    <3>4. i \in Int /\ j \in Int
      BY <3>1
    <3> HIDE DEF todo, n
    <3>5. CASE i <= n /\ j <= n
      BY <2>2, <3>1, <3>2, <3>5
    <3>6. CASE i > n /\ j > n
      <4>1. proc.todo[i - n] = proc.todo[j - n] /\ i - n \in DOMAIN proc.todo /\ j - n \in DOMAIN proc.todo
        BY <3>1, <3>2, <3>4, <3>6
      <4>2. i - n = j - n
        BY <1>1, <4>1 DEF TodoAhead
      <4> QED
        BY <3>1, <3>4, <4>2
    <3>7. ~(i <= n /\ j > n) /\ ~(i > n /\ j <= n)
      BY <2>8, <3>3
    <3> QED
      BY <3>1, <3>4, <3>5, <3>6, <3>7
  <2> QED
    BY <1>1, <1>4, <1>5, <2>10, <2>11 DEF Walk, TodoAhead
<1> QED
  BY <1>4, <1>6, <1>7

LEMMA StepWalk ==
  ASSUME TypeOK, Working, Walk, Process \/ UNCHANGED proc
  PROVE  Walk'
<1>0. proc \in Procs
  BY DEF TypeOK, Procs
<1>1. CASE Take
  BY <1>0, <1>1 DEF Take, Walk, FoundInOrder, Procs
<1>2. CASE ConvertNext
  <2>1. proc.found = <<>> /\ proc'.found = <<>> /\ proc'.pc \in {"next", "stat", "append"}
    BY <1>0, <1>2 DEF ConvertNext, Walk, Procs
  <2>2. proc'.pc = "stat" => proc'.event.type = "Created"
    BY <1>0, <1>2 DEF ConvertNext, Procs
  <2> QED
    BY <2>1, <2>2 DEF Walk, FoundInOrder
<1>3. CASE Lstat
  <2> DEFINE p == proc.event.path
  <2>1. proc.found = <<>> /\ proc'.found = <<>> /\ proc'.event = proc.event
        /\ proc.event.type = "Created"
        /\ \/ proc'.pc = "visit" /\ proc'.todo = <<p>>
           \/ proc'.pc = "append"
    BY <1>0, <1>3 DEF Lstat, Walk, Procs
  <2>2. Members(<<p>>) = {p} /\ DOMAIN <<p>> = {1}
    BY DEF Members
  <2>3. FoundInOrder' /\ Met' = {p} /\ PathsIn(proc'.found) = {}
    BY <2>1 DEF FoundInOrder, Met, PathsIn
  <2> QED
    BY <2>1, <2>2, <2>3 DEF Walk, TodoAhead
<1>4. CASE AppendEvents \/ Done
  <2>1. proc' = Idle \/ proc' = [Idle EXCEPT !.pc = "next", !.batch = proc.batch]
    BY <1>4 DEF AppendEvents, Done
  <2>2. proc'.found = <<>> /\ proc'.pc \in {"next", "idle"}
    <3>1. Idle.found = <<>> /\ Idle.pc = "idle"
      BY DEF Idle
    <3> QED
      BY <2>1, <3>1, IdleIsProc DEF Procs
  <2> QED
    BY <2>2 DEF Walk, FoundInOrder
<1>5. CASE ProcessStops \/ UNCHANGED proc
  <2>1. UNCHANGED proc
    BY <1>5 DEF ProcessStops
  <2> QED
    BY <2>1 DEF Walk, FoundInOrder, TodoAhead, ReadingAhead, Met
<1> QED
  BY <1>1, <1>2, <1>3, <1>4, <1>5, VisitWalk, ReadDirWalk DEF Process

\* The batch grows by the event and by what was found, in that order.
LEMMA AppendsInOrder ==
  ASSUME TypeOK, Working, Walk, AppendEvents
  PROVE  \A j \in Len(out)+1..Len(out') :
           \/ j = Len(out) + 1 /\ out'[j] = proc.event
           \/ /\ out'[j].type = "Created" /\ out'[j].path \notin {Root, proc.event.path}
              /\ CreatedIn(Parent[out'[j].path], out', {i \in 1..j-1 : i >= Len(out)})
              /\ ~CreatedIn(out'[j].path, out', Len(out)+1..j-1)
<1> DEFINE e == proc.event  f == proc.found
           front == IF out # <<>> /\ Last(out) = e THEN out ELSE Append(out, e)
           n == Len(front)
<1>1. out \in Seq(Event) /\ e \in Event /\ f \in Seq(Event) /\ out' = front \o f
  BY DEF TypeOK, Working, AppendEvents, Batch
<1>2. /\ front \in Seq(Event) /\ n \in Nat /\ Len(out) \in Nat /\ Len(f) \in Nat
      /\ n >= 1 /\ front[n] = e /\ n \in {Len(out), Len(out) + 1}
  <2>1. Len(out) \in Nat /\ Len(f) \in Nat
    BY <1>1, LenProperties
  <2>2. CASE out # <<>> /\ Last(out) = e
    <3>1. front = out /\ n = Len(out)
      BY <2>2
    <3>2. Len(out) # 0 /\ out[Len(out)] = e
      BY <1>1, <2>2, EmptySeq DEF Last
    <3> QED
      BY <1>1, <2>1, <3>1, <3>2
  <2>3. CASE ~(out # <<>> /\ Last(out) = e)
    <3>1. front = Append(out, e)
      BY <2>3
    <3>2. front \in Seq(Event) /\ n = Len(out) + 1 /\ front[Len(out) + 1] = e
      BY <1>1, <3>1, AppendProperties
    <3> QED
      BY <2>1, <3>2
  <2> QED
    BY <2>2, <2>3
<1> HIDE DEF e, f, front, n
<1>3. /\ Len(out') = n + Len(f) /\ DOMAIN f = 1..Len(f)
      /\ \A i \in 1..n : out'[i] = front[i]
      /\ \A i \in 1..Len(f) : out'[n + i] = f[i]
  BY <1>1, <1>2, ConcatProperties, LenProperties DEF n
<1>4. \A i \in 1..Len(f) :
                          /\ e.type = "Created" /\ f[i].type = "Created" /\ f[i].path \notin {Root, e.path}
                          /\ Parent[f[i].path] = e.path \/ \E k \in 1..i-1 : f[k].path = Parent[f[i].path]
                          /\ \A k \in 1..i-1 : f[k].path # f[i].path
  BY <1>3 DEF Walk, FoundInOrder, f, e
<1>5. \A x \in Event : x = [type |-> x.type, path |-> x.path]
  BY DEF Event
<1> SUFFICES ASSUME NEW j \in Len(out)+1..Len(out')
    PROVE  \/ j = Len(out) + 1 /\ out'[j] = e
           \/ /\ out'[j].type = "Created" /\ out'[j].path \notin {Root, e.path}
              /\ CreatedIn(Parent[out'[j].path], out', {i \in 1..j-1 : i >= Len(out)})
              /\ ~CreatedIn(out'[j].path, out', Len(out)+1..j-1)
  BY DEF e
<1>6. CASE j <= n
  BY <1>2, <1>3, <1>6
<1>7. CASE j > n
  <2> DEFINE i == j - n
  <2>1. i \in 1..Len(f) /\ j = n + i /\ out'[j] = f[i]
    <3>1. i \in 1..Len(f) /\ j = n + i
      <4>1. j \in Int /\ j <= n + Len(f)
        BY <1>2, <1>3
      <4> QED
        BY <1>2, <1>7, <4>1
    <3> HIDE DEF i
    <3> QED
      BY <1>3, <3>1
  <2> HIDE DEF i
  <2>0. /\ e.type = "Created" /\ f[i].type = "Created" /\ f[i].path \notin {Root, e.path}
        /\ Parent[f[i].path] = e.path \/ \E k \in 1..i-1 : f[k].path = Parent[f[i].path]
        /\ \A k \in 1..i-1 : f[k].path # f[i].path
    BY <1>4, <2>1
  <2>2. CreatedIn(Parent[f[i].path], out', {k \in 1..j-1 : k >= Len(out)})
    <3>1. CASE Parent[f[i].path] = e.path
      <4>1. out'[n] = e /\ e = [type |-> "Created", path |-> e.path]
        BY <1>1, <1>2, <1>3, <1>5, <2>0, <2>1
      <4>2. n \in {k \in 1..j-1 : k >= Len(out)}
        BY <1>2, <2>1
      <4> QED
        BY <3>1, <4>1, <4>2 DEF CreatedIn
    <3>2. ASSUME NEW k \in 1..i-1, f[k].path = Parent[f[i].path]
          PROVE  CreatedIn(Parent[f[i].path], out', {m \in 1..j-1 : m >= Len(out)})
      <4>1. k \in 1..Len(f) /\ n + k \in {m \in 1..j-1 : m >= Len(out)}
        BY <1>2, <2>1
      <4>2. f[k] = [type |-> "Created", path |-> f[k].path]
        BY <1>1, <1>4, <1>5, <4>1
      <4>3. out'[n + k] = f[k]
        BY <1>3, <4>1
      <4> QED
        BY <3>2, <4>1, <4>2, <4>3 DEF CreatedIn
    <3> QED
      BY <2>0, <3>1, <3>2
  <2>3. ~CreatedIn(f[i].path, out', Len(out)+1..j-1)
    <3> SUFFICES ASSUME NEW m \in Len(out)+1..j-1 PROVE out'[m].path # f[i].path
      BY DEF CreatedIn
    <3>1. CASE m <= n
      <4>1. m = n
        BY <1>2, <3>1
      <4>2. n \in 1..n /\ out'[n] = e
        BY <1>2, <1>3
      <4> QED
        BY <2>0, <4>1, <4>2
    <3>2. CASE m > n
      <4>1. m - n \in 1..i-1 /\ m - n \in 1..Len(f) /\ m = n + (m - n)
        <5>1. m \in Int /\ m <= j - 1
          BY <1>2, <2>1
        <5>2. i \in Nat /\ i <= Len(f) /\ j = n + i
          BY <1>2, <2>1
        <5> QED
          BY <1>2, <3>2, <5>1, <5>2
      <4>2. out'[m] = f[m - n]
        BY <1>3, <4>1
      <4> QED
        BY <2>0, <4>1, <4>2
    <3> QED
      BY <1>2, <3>1, <3>2
  <2> QED
    BY <2>0, <2>1, <2>2, <2>3
<1> QED
  BY <1>2, <1>6, <1>7

LEMMA InitWalk == BridgeInit => Walk
BY DEF BridgeInit, Init, Idle, Walk, FoundInOrder

LEMMA BridgeStepWalk ==
  ASSUME BridgeTypeOK, Working, Walk, [BridgeNext]_allVars
  PROVE  Walk'
<1>1. Process \/ UNCHANGED proc
  BY DEF BridgeNext, Disk, Make, Write, Delete, Move, Change, Receive, Handle, Flush, RunStops,
         TakeEvents, Notify, NotifierReturns, BridgeClose, StopNotifier, Close, CloseFsnotify,
         CloseStop, CloseWait, allVars, vars, watchVars
<1> QED
  BY <1>1, StepWalk DEF BridgeTypeOK

\* The walk is right at every moment.
LEMMA WalkIsRight == BridgeSpec => [](BridgeTypeOK /\ Working /\ Walk)
<1>1. BridgeInit => BridgeTypeOK /\ Working /\ Walk
  BY InitType, InitWalk
<1>2. BridgeTypeOK /\ Working /\ Walk /\ [BridgeNext]_allVars => (BridgeTypeOK /\ Working /\ Walk)'
  BY StepType, BridgeStepWalk
<1> QED
  BY <1>1, <1>2, PTL DEF BridgeSpec

\* A directory's creation precedes those of its entries, each of which is synthesized once,
\* although the tree changes during the walk (filewatcher.go:204-237, 253-272).
THEOREM WalksInOrder == BridgeSpec => ParentsFirst
<1> DEFINE Appended == \A j \in Len(out)+1..Len(out') :
           \/ j = Len(out) + 1 /\ out'[j] = proc.event
           \/ /\ out'[j].type = "Created" /\ out'[j].path \notin {Root, proc.event.path}
              /\ CreatedIn(Parent[out'[j].path], out', {i \in 1..j-1 : i >= Len(out)})
              /\ ~CreatedIn(out'[j].path, out', Len(out)+1..j-1)
<1>1. BridgeTypeOK /\ Working /\ Walk /\ [BridgeNext]_allVars => [Appended]_out
  <2> SUFFICES ASSUME BridgeTypeOK, Working, Walk, [BridgeNext]_allVars, out' # out
               PROVE  Appended
    OBVIOUS
  <2>1. AppendEvents \/ out' = <<>>
    BY DEF BridgeNext, Disk, Make, Write, Delete, Move, Change, Receive, Handle, Flush, RunStops,
           Process, Take, ConvertNext, Lstat, Visit, ReadDir, Done, ProcessStops,
           TakeEvents, Notify, NotifierReturns, BridgeClose, StopNotifier, Close, CloseFsnotify,
           CloseStop, CloseWait, allVars, vars, watchVars
  <2>2. CASE AppendEvents
    BY <2>2, AppendsInOrder DEF BridgeTypeOK
  <2>3. CASE out' = <<>>
    <3>1. Len(out') = 0 /\ Len(out) \in Nat
      BY <2>3, LenProperties DEF BridgeTypeOK, TypeOK, Batch
    <3> QED
      BY <3>1
  <2> QED
    BY <2>1, <2>2, <2>3
<1> QED
  BY <1>1, WalkIsRight, PTL DEF BridgeSpec, ParentsFirst

-----------------------------------------------------------------------------
(* No change is lost: at any moment, what the session has not got is on its way. *)

\* An event in q says that p was created.
Announces(q, p) == [op |-> "Create", path |-> p] \in Members(q)

\* process has yet to come to p ...
Ahead(p) ==
    \/ Announces(fsq, p) \/ Announces(in, p) \/ Announces(proc.batch, p)
    \/ proc.pc = "stat" /\ proc.event.path = p
    \/ proc.pc \in {"visit", "read"} /\ p \in Members(proc.todo)
    \/ proc.pc = "read" /\ p # Root /\ Parent[p] = proc.at
\* ... or to a directory above it, and will walk down to p.
ToBeWalked(p) == \E a \in Lineage[p] : Ahead(a)

\* An event for p is on its way to the session.
InHand == proc.pc \in {"stat", "visit", "read", "append"}
OnItsWay(p) ==
    \/ p \in PathsIn(fsq) \/ p \in PathsIn(in) \/ p \in PathsIn(proc.batch)
    \/ InHand /\ (p = proc.event.path \/ p \in PathsIn(proc.found))
    \/ p \in PathsIn(out) \/ p \in PathsIn(queue) \/ p \in PathsIn(work)

\* What is on disk is a tree.
Tree == \A p \in Path \ {Root} : Present(p) => Present(Parent[p])

\* Whoever waits has nothing in hand.
Empty == /\ proc.pc = "idle" => proc.batch = <<>>
         /\ notifier # "notifying" => work = <<>>

\* Every directory is watched, and every file known to the session as it is on disk, unless
\* process will come to it or an event is on its way, or nobody noticed it vanish.
Tracked == phase = "open" => \A p \in Path : ~Excluded(p) =>
    /\ p \in Dir /\ Present(p) => p \in watched \/ ToBeWalked(p)
    /\ p \in File /\ Present(p) => seen[p] = disk[p] \/ OnItsWay(p) \/ ToBeWalked(p)
    /\ p \in File /\ ~Present(p) => seen[p] = disk[p] \/ OnItsWay(p) \/ p \in vanished

\* What is there has its directories.
LEMMA PresentAbove ==
  ASSUME Tree, NEW p \in Path, Present(p), NEW a \in Lineage[p]
  PROVE  a \in Path /\ Present(a)
<1>1. Upward({q \in Path : Present(q)})
  BY ParentType DEF Tree, Upward
<1> QED
  BY <1>1, LineageLeast

\* Only directories are above other paths.
LEMMA FileAbove ==
  ASSUME NEW p \in Path, NEW a \in Lineage[p], a \in File
  PROVE  a = p
<1>1. Lineage[p] \subseteq Path
  BY LineageUpward
<1> QED
  BY <1>1, LineageChild, FileWatcherAssumption

\* process comes to a path that is still there, or goes on towards it.
LEMMA ProcessComes ==
  ASSUME TypeOK, Working, Tree, Empty, Process, phase = "open",
         NEW p \in Path, Present(p), ~Excluded(p)', NEW a \in Lineage[p], Ahead(a)
  PROVE  p \in watched' \/ (p \in File /\ OnItsWay(p)') \/ ToBeWalked(p)'
<1>1. /\ a \in Path /\ Present(a) /\ a \notin Skipped /\ a \notin failed'
      /\ (a # Root => Parent[a] \in Lineage[p] /\ Present(Parent[a]) /\ Parent[a] \notin failed')
  BY PresentAbove, LineageUpward DEF Excluded, Under, Upward
<1>2. ASSUME Ahead(a)' PROVE ToBeWalked(p)'
  BY <1>2 DEF ToBeWalked
<1>3. proc \in Procs /\ in \in Seq(FsEvent) /\ fsq' = fsq
  BY DEF TypeOK, Procs, Process, Take, ConvertNext, Lstat, Visit, ReadDir, AppendEvents, Done,
         ProcessStops
<1>4. CASE Announces(fsq, a)
  BY <1>2, <1>3, <1>4 DEF Ahead
<1>5. CASE Take
  <2>1. /\ proc.pc = "idle" /\ proc'.batch = in /\ Members(proc.batch) = {}
    BY <1>3, <1>5 DEF Take, Empty, Procs, Members
  <2> QED
    BY <1>2, <1>4, <2>1 DEF Ahead, Announces
<1>6. CASE ConvertNext
  <2> DEFINE ev == Head(proc.batch)  e == Convert(ev)  rest == Tail(proc.batch)
  <2>1. /\ proc.pc = "next" /\ in' = in /\ ev \in FsEvent /\ rest \in Seq(FsEvent)
        /\ Members(proc.batch) = {ev} \union Members(rest)
    BY <1>3, <1>6, MembersOfTail, HeadTailProperties DEF ConvertNext, Procs
  <2>2. /\ e.path = ev.path /\ e.type = Type(ev.op)
    BY DEF Convert
  <2> HIDE DEF ev, rest
  <2>3. \/ /\ ~Interesting(e.path)
           /\ proc' = [proc EXCEPT !.batch = rest]
        \/ /\ Interesting(e.path) /\ IsDir(e.path) /\ e.type = "Created"
           /\ proc' = [proc EXCEPT !.pc = "stat", !.batch = rest, !.event = e]
        \/ /\ Interesting(e.path) /\ ~(IsDir(e.path) /\ e.type = "Created")
           /\ proc' = [proc EXCEPT !.pc = "append", !.batch = rest, !.event = e]
    BY <1>6 DEF ConvertNext, ev, rest
  <2> HIDE DEF e
  <2>4. /\ proc'.batch = rest
        /\ \/ ~Interesting(e.path)
           \/ /\ Interesting(e.path) /\ IsDir(e.path) /\ e.type = "Created"
              /\ proc'.pc = "stat" /\ proc'.event = e
           \/ /\ Interesting(e.path) /\ ~(IsDir(e.path) /\ e.type = "Created")
              /\ proc'.pc = "append" /\ proc'.event = e
    BY <1>3, <2>3 DEF Procs
  <2>5. CASE Announces(rest, a)
    BY <1>2, <2>4, <2>5 DEF Ahead, Announces
  <2>6. CASE ev = [op |-> "Create", path |-> a]
    <3>1. e.path = a /\ e.type = "Created" /\ (IsDir(a) <=> a \in Dir)
      BY <1>1, <2>2, <2>6 DEF Type, IsDir
    <3>2. Interesting(a)
      BY <1>1, <3>1 DEF Interesting, Path
    <3>3. CASE a \in Dir
      BY <1>2, <2>4, <3>1, <3>2, <3>3 DEF Ahead
    <3>4. CASE a \in File
      <4>1. a = p /\ ~IsDir(a)
        BY <3>1, <3>4, FileAbove, FileWatcherAssumption
      <4> QED
        BY <2>4, <3>1, <3>2, <3>4, <4>1 DEF OnItsWay, InHand
    <3> QED
      BY <1>1, <3>3, <3>4 DEF Path
  <2>7. Announces(in, a) \/ Announces(fsq, a) \/ Announces(rest, a) \/ ev = [op |-> "Create", path |-> a]
    BY <2>1 DEF Ahead, Announces
  <2>8. CASE Announces(in, a)
    BY <1>2, <2>1, <2>8 DEF Ahead
  <2> QED
    BY <1>4, <2>5, <2>6, <2>7, <2>8
<1>7. CASE Lstat
  <2>1. /\ proc.pc = "stat" /\ in' = in /\ proc'.batch = proc.batch
        /\ Present(proc.event.path) => proc'.pc = "visit" /\ proc'.todo = <<proc.event.path>>
    BY <1>3, <1>7 DEF Lstat, Procs
  <2>2. a = proc.event.path => a \in Members(<<proc.event.path>>)
    BY DEF Members
  <2> QED
    BY <1>1, <1>2, <1>4, <2>1, <2>2 DEF Ahead
<1>8. CASE Visit
  <2> DEFINE q == Head(proc.todo)  tail == Tail(proc.todo)
             now == IF q = proc.event.path THEN proc.found
                    ELSE Append(proc.found, [type |-> "Created", path |-> q])
  <2>1. /\ proc.pc = "visit" /\ in' = in /\ Members(proc.todo) = {q} \union Members(tail)
        /\ proc.found \in Seq(Event)
    BY <1>3, <1>8, MembersOfTail DEF Visit, Procs, Batch
  <2>2. /\ \/ /\ q \in File \/ ~Present(q)
              /\ proc' = [proc EXCEPT !.todo = tail, !.found = now]
           \/ /\ q \in Dir /\ watched' = watched \union {q}
              /\ proc' = [proc EXCEPT !.todo = tail, !.found = now, !.pc = "read", !.at = q]
           \/ /\ q \in Dir /\ q \in failed'
              /\ proc' = [proc EXCEPT !.todo = tail, !.found = now]
    BY <1>8 DEF Visit
  <2> HIDE DEF q, tail, now
  <2>3. /\ proc'.todo = tail /\ proc'.found = now /\ proc'.event = proc.event
        /\ proc'.pc \in {"visit", "read"} /\ proc'.batch = proc.batch
        /\ \/ q \in File \/ ~Present(q)
           \/ q \in watched' /\ proc'.pc = "read" /\ proc'.at = q
           \/ q \in Dir /\ q \in failed'
    BY <1>3, <2>1, <2>2 DEF Procs
  <2>4. CASE Announces(in, a) \/ Announces(proc.batch, a)
    BY <1>2, <2>1, <2>3, <2>4 DEF Ahead
  <2>5. CASE a \in Members(tail)
    BY <1>2, <2>3, <2>5 DEF Ahead
  <2>6. CASE a = q
    <3>1. CASE a \in File
      <4>1. a = p
        BY <3>1, FileAbove
      <4>2. q = proc.event.path \/ q \in PathsIn(now)
        BY <2>1, PathsOfAppend DEF now
      <4> QED
        BY <2>3, <2>6, <3>1, <4>1, <4>2 DEF OnItsWay, InHand
    <3>2. CASE a \in Dir /\ a \notin File
      <4>1. q \in watched' /\ proc'.pc = "read" /\ proc'.at = q
        BY <1>1, <2>3, <2>6, <3>2
      <4>2. CASE p = a
        BY <2>6, <4>1, <4>2
      <4>3. CASE p # a
        <5>1. PICK c \in Lineage[p] : c # Root /\ Parent[c] = a
          BY <4>3, LineageChild
        <5>2. Ahead(c)'
          BY <2>6, <4>1, <5>1 DEF Ahead
        <5> QED
          BY <5>2 DEF ToBeWalked
      <4> QED
        BY <4>2, <4>3
    <3> QED
      BY <1>1, <3>1, <3>2 DEF Path
  <2> QED
    BY <1>4, <2>1, <2>4, <2>5, <2>6 DEF Ahead
<1>9. CASE ReadDir
  <2> DEFINE entries == {q \in Children(proc.at) : Present(q) /\ q \notin Skipped}
  <2>1. /\ proc.pc = "read" /\ in' = in /\ proc.todo \in Seq(Path)
        /\ IsFiniteSet(entries) /\ entries \subseteq Path
    BY <1>3, <1>9, FileWatcherAssumption, FS_Subset DEF ReadDir, Procs, Children
  <2>2. \/ /\ Present(proc.at)
           /\ proc' = [proc EXCEPT !.pc = "visit", !.at = NoPath, !.todo = SetToSeq(entries) \o proc.todo]
        \/ /\ ~Present(proc.at) \/ proc.at \in failed'
           /\ proc' = [proc EXCEPT !.pc = "visit", !.at = NoPath]
    BY <1>9 DEF ReadDir
  <2>3. a # Root /\ Parent[a] = proc.at => a \in entries
    BY <1>1 DEF Children
  <2> HIDE DEF entries
  <2>4. Members(SetToSeq(entries) \o proc.todo) = entries \union Members(proc.todo)
    <3>1. SetToSeq(entries) \in Seq(entries) /\ Members(SetToSeq(entries)) = entries
      BY <2>1, MembersOfSet
    <3>2. SetToSeq(entries) \in Seq(Path)
      BY <2>1, <3>1, SeqMonotonic
    <3> QED
      BY <2>1, <3>1, <3>2, MembersOfConcat
  <2>5. /\ proc'.pc = "visit" /\ proc'.batch = proc.batch
        /\ \/ Members(proc'.todo) = entries \union Members(proc.todo)
           \/ /\ ~Present(proc.at) \/ proc.at \in failed'
              /\ Members(proc'.todo) = Members(proc.todo)
    BY <1>3, <2>2, <2>4 DEF Procs
  <2> QED
    BY <1>1, <1>2, <1>4, <2>1, <2>3, <2>5 DEF Ahead
<1>10. CASE AppendEvents
  <2>1. /\ proc.pc = "append" \/ (proc.pc = "visit" /\ Members(proc.todo) = {})
        /\ in' = in /\ proc'.batch = proc.batch
    BY <1>3, <1>10, IdleIsProc DEF AppendEvents, Members, Procs
  <2> QED
    BY <1>2, <1>4, <2>1 DEF Ahead
<1>11. CASE Done
  <2>1. proc.pc = "next" /\ in' = in /\ Members(proc.batch) = {}
    BY <1>3, <1>11 DEF Done, Members
  <2> QED
    BY <1>2, <1>4, <2>1 DEF Ahead, Announces
<1>12. CASE ProcessStops
  BY <1>12 DEF ProcessStops
<1> QED
  BY <1>5, <1>6, <1>7, <1>8, <1>9, <1>10, <1>11, <1>12 DEF Process

\* process loses no event of an interesting file.
LEMMA ProcessCarries ==
  ASSUME TypeOK, Working, Empty, Process, UNCHANGED bridgeVars,
         NEW f \in File, ~Excluded(f), OnItsWay(f)
  PROVE  OnItsWay(f)'
<1>1. f \notin Skipped /\ f \in Path
  BY LineageUpward DEF Excluded, Under, Path
<1>2. proc \in Procs /\ in \in Seq(FsEvent) /\ out \in Seq(Event) /\ fsq' = fsq
      /\ queue' = queue /\ work' = work
  BY DEF TypeOK, Procs, Process, Take, ConvertNext, Lstat, Visit, ReadDir, AppendEvents, Done,
         ProcessStops, Batch, bridgeVars
<1>3. CASE f \in PathsIn(fsq) \/ f \in PathsIn(queue) \/ f \in PathsIn(work)
  BY <1>2, <1>3 DEF OnItsWay
<1>4. CASE Take
  <2>1. /\ proc.pc = "idle" /\ proc'.batch = in /\ PathsIn(proc.batch) = {} /\ out' = out
    BY <1>2, <1>4 DEF Take, Empty, Procs, PathsIn
  <2> QED
    BY <1>3, <2>1 DEF OnItsWay, InHand
<1>5. CASE ConvertNext
  <2> DEFINE ev == Head(proc.batch)  e == Convert(ev)  rest == Tail(proc.batch)
  <2>1. /\ proc.pc = "next" /\ in' = in /\ out' = out
        /\ PathsIn(proc.batch) = {e.path} \union PathsIn(rest)
    BY <1>2, <1>5, PathsOfTail DEF ConvertNext, Procs, Convert
  <2> HIDE DEF e, rest
  <2>2. \/ ~Interesting(e.path) /\ proc' = [proc EXCEPT !.batch = rest]
        \/ proc' = [proc EXCEPT !.pc = "stat", !.batch = rest, !.event = e]
        \/ proc' = [proc EXCEPT !.pc = "append", !.batch = rest, !.event = e]
    BY <1>5 DEF ConvertNext, e, rest
  <2>3. /\ proc'.batch = rest
        /\ \/ ~Interesting(e.path)
           \/ proc'.pc \in {"stat", "append"} /\ proc'.event = e
    BY <1>2, <2>2 DEF Procs
  <2>4. e.path = f => Interesting(e.path)
    BY <1>1 DEF Interesting
  <2> QED
    BY <1>3, <2>1, <2>3, <2>4 DEF OnItsWay, InHand
<1>6. CASE Lstat
  <2>1. /\ in' = in /\ out' = out /\ proc'.batch = proc.batch /\ proc'.pc \in {"visit", "append"}
        /\ proc'.event = proc.event /\ proc'.found = proc.found
    BY <1>2, <1>6 DEF Lstat, Procs
  <2> QED
    BY <1>3, <2>1 DEF OnItsWay, InHand
<1>7. CASE Visit
  <2> DEFINE q == Head(proc.todo)  tail == Tail(proc.todo)
             now == IF q = proc.event.path THEN proc.found
                    ELSE Append(proc.found, [type |-> "Created", path |-> q])
  <2>1. \/ proc' = [proc EXCEPT !.todo = tail, !.found = now]
        \/ proc' = [proc EXCEPT !.todo = tail, !.found = now, !.pc = "read", !.at = q]
    BY <1>7 DEF Visit
  <2>2. PathsIn(proc.found) \subseteq PathsIn(now)
    BY <1>2, PathsOfAppend DEF Procs, Batch
  <2> HIDE DEF now
  <2>3. /\ in' = in /\ out' = out /\ proc'.batch = proc.batch /\ proc'.pc \in {"visit", "read"}
        /\ proc'.event = proc.event /\ proc'.found = now
    BY <1>2, <1>7, <2>1 DEF Visit, Procs
  <2> QED
    BY <1>3, <2>2, <2>3 DEF OnItsWay, InHand
<1>8. CASE ReadDir
  <2> DEFINE todo == SetToSeq({q \in Children(proc.at) : Present(q) /\ q \notin Skipped}) \o proc.todo
  <2>1. \/ proc' = [proc EXCEPT !.pc = "visit", !.at = NoPath, !.todo = todo]
        \/ proc' = [proc EXCEPT !.pc = "visit", !.at = NoPath]
    BY <1>8 DEF ReadDir
  <2> HIDE DEF todo
  <2>2. /\ in' = in /\ out' = out /\ proc'.batch = proc.batch /\ proc'.pc = "visit"
        /\ proc'.event = proc.event /\ proc'.found = proc.found
    BY <1>2, <1>8, <2>1 DEF ReadDir, Procs
  <2> QED
    BY <1>3, <2>2 DEF OnItsWay, InHand
<1>9. CASE AppendEvents
  <2> DEFINE e == proc.event
             front == IF out # <<>> /\ Last(out) = e THEN out ELSE Append(out, e)
  <2>1. /\ e \in Event /\ proc.found \in Seq(Event) /\ out' = front \o proc.found
        /\ in' = in /\ proc'.batch = proc.batch
    BY <1>2, <1>9, IdleIsProc DEF Working, AppendEvents, Procs, Batch
  <2>2. front \in Seq(Event) /\ PathsIn(front) = PathsIn(out) \union {e.path}
    <3>1. CASE out # <<>> /\ Last(out) = e
      <4>1. Len(out) \in DOMAIN out /\ out[Len(out)] = e
        <5>1. Len(out) \in Nat \ {0} /\ DOMAIN out = 1..Len(out)
          BY <1>2, <3>1, EmptySeq, LenProperties
        <5> QED
          BY <3>1, <5>1 DEF Last
      <4>2. e.path \in PathsIn(out)
        BY <4>1 DEF PathsIn
      <4> QED
        BY <1>2, <3>1, <4>2
    <3>2. CASE ~(out # <<>> /\ Last(out) = e)
      <4>1. front = Append(out, e)
        BY <3>2
      <4> QED
        BY <1>2, <2>1, <4>1, AppendProperties, PathsOfAppend
    <3> QED
      BY <3>1, <3>2
  <2> HIDE DEF front
  <2>3. PathsIn(out') = PathsIn(out) \union {e.path} \union PathsIn(proc.found)
    BY <2>1, <2>2, PathsOfConcat
  <2> QED
    BY <1>3, <2>1, <2>3 DEF OnItsWay
<1>10. CASE Done
  <2>1. proc.pc = "next" /\ in' = in /\ out' = out /\ PathsIn(proc.batch) = {}
    BY <1>2, <1>10 DEF Done, PathsIn
  <2> QED
    BY <1>3, <2>1 DEF OnItsWay, InHand
<1>11. CASE ProcessStops
  BY <1>2, <1>11 DEF ProcessStops, OnItsWay, InHand
<1> QED
  BY <1>4, <1>5, <1>6, <1>7, <1>8, <1>9, <1>10, <1>11 DEF Process

\* A directory process comes to is watched, and its events are passed on.
LEMMA ProcessTracked ==
  ASSUME TypeOK, Working, Tree, Empty, Tracked, Process, UNCHANGED bridgeVars
  PROVE  Tracked'
<1>1. UNCHANGED <<disk, vanished, phase, seen>> /\ watched \subseteq watched' /\ failed \subseteq failed'
  BY DEF Process, Take, ConvertNext, Lstat, Visit, ReadDir, AppendEvents, Done, ProcessStops,
         diskVars, bridgeVars
<1> SUFFICES ASSUME phase = "open", NEW p \in Path, ~Excluded(p)'
    PROVE  /\ p \in Dir /\ Present(p) => p \in watched' \/ ToBeWalked(p)'
           /\ p \in File /\ Present(p) => seen[p] = disk[p] \/ OnItsWay(p)' \/ ToBeWalked(p)'
           /\ p \in File /\ ~Present(p) => seen[p] = disk[p] \/ OnItsWay(p)' \/ p \in vanished
  BY <1>1 DEF Tracked, Present
<1>2. ~Excluded(p)
  BY <1>1 DEF Excluded
<1>3. p \in File /\ OnItsWay(p) => OnItsWay(p)'
  BY <1>2, ProcessCarries
<1>4. Present(p) /\ ToBeWalked(p) => p \in watched' \/ (p \in File /\ OnItsWay(p)') \/ ToBeWalked(p)'
  BY ProcessComes DEF ToBeWalked
<1>5. p \in File => p \notin watched'
  BY ProcessType, FileWatcherAssumption DEF TypeOK
<1>6. p \in Dir => p \notin File
  BY FileWatcherAssumption
<1> QED
  BY <1>1, <1>2, <1>3, <1>4, <1>5, <1>6 DEF Tracked

\* A step of another goroutine passes on what it takes.
LEMMA OthersTracked ==
  ASSUME Tracked, UNCHANGED <<disk, vanished, watched, failed, phase>>,
         \A a \in Path : Ahead(a) => Ahead(a)',
         \A f \in File : OnItsWay(f) => OnItsWay(f)' \/ seen'[f] = disk[f],
         \A f \in File : seen[f] = disk[f] => seen'[f] = disk[f]
  PROVE  Tracked'
<1> SUFFICES ASSUME phase = "open", NEW p \in Path, ~Excluded(p)
    PROVE  /\ p \in Dir /\ Present(p) => p \in watched \/ ToBeWalked(p)'
           /\ p \in File /\ Present(p) => seen'[p] = disk[p] \/ OnItsWay(p)' \/ ToBeWalked(p)'
           /\ p \in File /\ ~Present(p) => seen'[p] = disk[p] \/ OnItsWay(p)' \/ p \in vanished
  BY DEF Tracked, Present, Excluded
<1>1. ToBeWalked(p) => ToBeWalked(p)'
  BY LineageUpward DEF ToBeWalked
<1> QED
  BY <1>1 DEF Tracked

LEMMA RunTracked ==
  ASSUME TypeOK, Tracked, Receive /\ UNCHANGED bridgeVars
  PROVE  Tracked'
<1>1. /\ fsq \in Seq(FsEvent) /\ fsq # <<>> /\ in \in Seq(FsEvent) /\ in' = Append(in, Head(fsq)) /\ fsq' = Tail(fsq)
      /\ UNCHANGED <<disk, vanished, watched, failed, phase, proc, out, queue, work, seen>>
  BY DEF Receive, TypeOK, diskVars, bridgeVars
<1>2. Members(in') = Members(in) \union {Head(fsq)} /\ Members(fsq) = {Head(fsq)} \union Members(fsq')
  BY <1>1, MembersOfAppend, MembersOfTail
<1>3. \A x : /\ x \in PathsIn(fsq) => x \in PathsIn(fsq') \/ x \in PathsIn(in')
             /\ x \in PathsIn(in) => x \in PathsIn(in')
  BY <1>2, PathsOfMembers
<1>4. \A a \in Path : Ahead(a) => Ahead(a)'
  BY <1>1, <1>2 DEF Ahead, Announces
<1>5. \A f \in File : OnItsWay(f) => OnItsWay(f)'
  BY <1>1, <1>3 DEF OnItsWay, InHand
<1> QED
  BY <1>1, <1>4, <1>5, OthersTracked

LEMMA HandleTracked ==
  ASSUME BridgeTypeOK, Tracked, Handle
  PROVE  Tracked'
<1>1. /\ out \in Seq(Event) /\ queue \in Seq(Event) /\ queue' = queue \o out
      /\ UNCHANGED <<disk, vanished, watched, failed, phase, proc, fsq, in, work, seen>>
  BY DEF Handle, Flush, BridgeTypeOK, TypeOK, diskVars, Batch
<1>2. PathsIn(queue') = PathsIn(queue) \union PathsIn(out)
  BY <1>1, PathsOfConcat
<1>3. \A a \in Path : Ahead(a) => Ahead(a)'
  BY <1>1 DEF Ahead, Announces
<1>4. \A f \in File : OnItsWay(f) => OnItsWay(f)'
  BY <1>1, <1>2 DEF OnItsWay, InHand
<1> QED
  BY <1>1, <1>3, <1>4, OthersTracked

LEMMA NotifierTracked ==
  ASSUME Empty, Tracked, TakeEvents \/ Notify \/ NotifierReturns \/ StopNotifier
  PROVE  Tracked'
<1>1. UNCHANGED <<disk, vanished, watched, failed, phase, proc, fsq, in, out>>
  BY DEF TakeEvents, Notify, NotifierReturns, StopNotifier, vars, diskVars, watchVars
<1>2. \A a \in Path : Ahead(a) => Ahead(a)'
  BY <1>1 DEF Ahead, Announces
<1>3. CASE TakeEvents
  <2>1. work' = queue /\ work = <<>> /\ seen' = seen
    BY <1>3 DEF TakeEvents, Empty
  <2>2. PathsIn(work) = {}
    BY <2>1 DEF PathsIn
  <2>3. \A f \in File : OnItsWay(f) => OnItsWay(f)'
    BY <1>1, <2>1, <2>2 DEF OnItsWay, InHand
  <2> QED
    BY <1>1, <1>2, <2>1, <2>3, OthersTracked
<1>4. CASE Notify
  <2>1. /\ queue' = queue
        /\ \A f \in File : seen'[f] = IF f \in PathsIn(work) THEN disk[f] ELSE seen[f]
    BY <1>4 DEF Notify, PathsIn
  <2>2. \A f \in File : OnItsWay(f) => OnItsWay(f)' \/ seen'[f] = disk[f]
    BY <1>1, <2>1 DEF OnItsWay, InHand
  <2> QED
    BY <1>1, <1>2, <2>1, <2>2, OthersTracked
<1>5. CASE NotifierReturns \/ StopNotifier
  <2>1. UNCHANGED <<queue, work, seen>>
    BY <1>5 DEF NotifierReturns, StopNotifier
  <2>2. \A f \in File : OnItsWay(f) => OnItsWay(f)'
    BY <1>1, <2>1 DEF OnItsWay, InHand
  <2> QED
    BY <1>1, <1>2, <2>1, <2>2, OthersTracked
<1> QED
  BY <1>3, <1>4, <1>5

\* A change of the disk adds at most its own event, and takes nothing off its way.
LEMMA ChangeCarries ==
  ASSUME TypeOK, NEW op, NEW p \in Path, NEW now, NEW gone, Change(op, p, now, gone),
         UNCHANGED bridgeVars
  PROVE  /\ disk' = now /\ watched' = watched \ gone
         /\ UNCHANGED <<failed, phase, seen, proc, notifier, work>>
         /\ Parent[p] \in watched => [op |-> op, path |-> p] \in Members(fsq') /\ p \in PathsIn(fsq')
         /\ \A a \in Path : /\ Ahead(a) => Ahead(a)'
                            /\ ToBeWalked(a) => ToBeWalked(a)'
         /\ \A f \in File : OnItsWay(f) => OnItsWay(f)'
         /\ \A f \in File : f \in vanished' <=>
              now[f] = 0 /\ (f \in vanished \/ (Present(f) /\ (f # p \/ Parent[f] \notin watched)))
<1>1. /\ disk' = now /\ watched' = watched \ gone
      /\ UNCHANGED <<failed, phase, seen, proc, in, out, queue, notifier, work>>
  BY DEF Change, watchVars, bridgeVars
<1>2. fsq \in Seq(FsEvent)
  BY DEF TypeOK
<1>3. /\ Members(fsq) \subseteq Members(fsq')
      /\ Parent[p] \in watched => [op |-> op, path |-> p] \in Members(fsq')
  <2>1. CASE Parent[p] \in watched
    <3>1. fsq' = Append(fsq, [op |-> op, path |-> p])
      BY <2>1 DEF Change
    <3> QED
      BY <1>2, <3>1, MembersOfAppend
  <2>2. CASE Parent[p] \notin watched
    BY <2>2 DEF Change
  <2> QED
    BY <2>1, <2>2
<1>4. /\ PathsIn(fsq) \subseteq PathsIn(fsq')
      /\ Parent[p] \in watched => p \in PathsIn(fsq')
  <2>1. [op |-> op, path |-> p].path = p
    OBVIOUS
  <2> QED
    BY <1>3, <2>1, PathsOfMembers
<1>5. \A a \in Path : Ahead(a) => Ahead(a)'
  BY <1>1, <1>3 DEF Ahead, Announces
<1>6. \A a \in Path : ToBeWalked(a) => ToBeWalked(a)'
  BY <1>5, LineageUpward DEF ToBeWalked
<1>7. \A f \in File : OnItsWay(f) => OnItsWay(f)'
  BY <1>1, <1>4 DEF OnItsWay, InHand
<1>8. \A f \in File : f \in vanished' <=>
        now[f] = 0 /\ (f \in vanished \/ (Present(f) /\ (f # p \/ Parent[f] \notin watched)))
  BY DEF Change
<1> QED
  BY <1>1, <1>3, <1>4, <1>5, <1>6, <1>7, <1>8

LEMMA FilesOnDisk ==
  ASSUME TypeOK
  PROVE  \A p \in Path : disk[p] \in Nat /\ (Present(p) <=> disk[p] # 0)
<1>1. \A p \in Path : disk[p] \in 0..MaxChanges + 1
  BY DEF TypeOK
<1> QED
  BY <1>1, FileWatcherAssumption DEF Present

\* The directory of what changes is watched, or will be walked.
LEMMA ParentComes ==
  ASSUME TypeOK, Tree, Tracked, phase = "open", NEW p \in Path \ {Root}, NEW q \in Path, Under(q, p),
         ~Excluded(q), Present(Parent[p]), Parent[p] \notin watched
  PROVE  ToBeWalked(q)
<1>1. Parent[p] \in Dir /\ Parent[p] \in Path
  BY ParentType, FileWatcherAssumption
<1>2. Lineage[Parent[p]] \subseteq Lineage[q]
  <2>1. Lineage[p] \subseteq Lineage[q]
    BY LineageTransitive DEF Under
  <2> QED
    BY <2>1, LineageParent
<1>3. ~Excluded(Parent[p])
  BY <1>2 DEF Excluded, Under
<1>4. ToBeWalked(Parent[p])
  BY <1>1, <1>3 DEF Tracked
<1> QED
  BY <1>2, <1>4 DEF ToBeWalked

\* A change of the disk is noticed, or will be found by a walk, or takes a file unnoticed.
LEMMA DiskTracked ==
  ASSUME TypeOK, Tree, Tracked, Disk, UNCHANGED bridgeVars
  PROVE  Tree' /\ Tracked'
<1>0. /\ \A p \in Path : disk[p] \in Nat /\ (Present(p) <=> disk[p] # 0)
      /\ changes \in Nat /\ changes + 2 > 0
  <2>1. changes \in Nat
    BY FileWatcherAssumption DEF TypeOK
  <2> QED
    BY <2>1, FilesOnDisk
<1>a. File \subseteq Path /\ Dir \subseteq Path /\ Dir \cap File = {} /\ Root \notin File
  BY FileWatcherAssumption DEF Path
<1>1. ASSUME NEW p \in Path, Make(p)
      PROVE  Tree' /\ Tracked'
  <2>1. p # Root /\ ~Present(p) /\ Present(Parent[p])
    BY <1>1 DEF Make
  <2>2. PICK tree \in SUBSET {q \in Path : Under(q, p)} :
          /\ p \in tree /\ \A q \in tree \ {p} : Parent[q] \in tree
          /\ Change("Create", p, [q \in Path |-> IF q \in tree THEN changes + 2 ELSE disk[q]], {})
    BY <1>1 DEF Make
  <2> DEFINE now == [q \in Path |-> IF q \in tree THEN changes + 2 ELSE disk[q]]
  <2>3. \A q \in Path : /\ q \in tree => now[q] = changes + 2
                        /\ q \notin tree => now[q] = disk[q]
    OBVIOUS
  <2> HIDE DEF now
  <2>4. Change("Create", p, now, {})
    BY <2>2 DEF now
  <2>5. /\ disk' = now /\ watched' = watched /\ UNCHANGED <<failed, phase, seen>>
        /\ Parent[p] \in watched => Announces(fsq, p)'
        /\ \A a \in Path : /\ Ahead(a) => Ahead(a)'
                           /\ ToBeWalked(a) => ToBeWalked(a)'
        /\ \A f \in File : OnItsWay(f) => OnItsWay(f)'
        /\ \A f \in File : f \in vanished /\ now[f] = 0 => f \in vanished'
    BY <2>4, ChangeCarries DEF Announces
  <2>6. \A q \in Path : Present(q)' <=> q \in tree \/ Present(q)
    BY <1>0, <2>3, <2>5 DEF Present
  <2>7. Tree'
    BY <2>1, <2>2, <2>6, ParentType DEF Tree
  <2>8. ASSUME NEW q \in tree, ~Excluded(q), phase = "open" PROVE ToBeWalked(q)'
    <3>1. q \in Path /\ Under(q, p)
      OBVIOUS
    <3>2. CASE Parent[p] \in watched
      BY <2>5, <3>1, <3>2 DEF ToBeWalked, Ahead, Under
    <3>3. CASE Parent[p] \notin watched
      BY <2>1, <2>5, <2>8, <3>1, <3>3, ParentComes
    <3> QED
      BY <3>2, <3>3
  <2> SUFFICES ASSUME phase = "open", NEW q \in Path, ~Excluded(q)
      PROVE  /\ q \in Dir /\ Present(q)' => q \in watched \/ ToBeWalked(q)'
             /\ q \in File /\ Present(q)' => seen[q] = now[q] \/ OnItsWay(q)' \/ ToBeWalked(q)'
             /\ q \in File /\ ~Present(q)' => seen[q] = now[q] \/ OnItsWay(q)' \/ q \in vanished'
    BY <2>5, <2>7 DEF Tracked, Excluded
  <2>9. CASE q \in tree
    BY <2>6, <2>8, <2>9
  <2>10. CASE q \notin tree
    <3>1. now[q] = disk[q] /\ (Present(q)' <=> Present(q)) /\ (~Present(q) => now[q] = 0)
      BY <1>0, <2>3, <2>6, <2>10
    <3> QED
      BY <2>5, <3>1 DEF Tracked
  <2> QED
    BY <2>9, <2>10
<1>2. ASSUME NEW p \in File, Write(p)
      PROVE  Tree' /\ Tracked'
  <2>1. Present(p) /\ p \in Path /\ p # Root
    BY <1>a, <1>2 DEF Write
  <2> DEFINE now == [disk EXCEPT ![p] = changes + 2]
  <2>2. Change("Write", p, now, {})
    BY <1>2 DEF Write
  <2>3. \A q \in Path : /\ q = p => now[q] = changes + 2
                        /\ q # p => now[q] = disk[q]
    BY DEF TypeOK
  <2> HIDE DEF now
  <2>4. /\ disk' = now /\ watched' = watched /\ UNCHANGED <<failed, phase, seen>>
        /\ Parent[p] \in watched => p \in PathsIn(fsq')
        /\ \A a \in Path : ToBeWalked(a) => ToBeWalked(a)'
        /\ \A f \in File : OnItsWay(f) => OnItsWay(f)'
        /\ \A f \in File : f \in vanished /\ now[f] = 0 => f \in vanished'
    <3>1. watched \ {} = watched
      OBVIOUS
    <3>2. p \in Path
      BY <2>1
    <3>3. /\ disk' = now /\ watched' = watched \ {} /\ UNCHANGED <<failed, phase, seen>>
          /\ Parent[p] \in watched => p \in PathsIn(fsq')
          /\ \A a \in Path : ToBeWalked(a) => ToBeWalked(a)'
          /\ \A f \in File : OnItsWay(f) => OnItsWay(f)'
      BY <2>2, <3>2, ChangeCarries
    <3>4. \A f \in File : f \in vanished' <=>
            now[f] = 0 /\ (f \in vanished \/ (Present(f) /\ (f # p \/ Parent[f] \notin watched)))
      BY <2>2, <3>2, ChangeCarries
    <3> QED
      BY <3>1, <3>3, <3>4
  <2>5. \A q \in Path : Present(q)' <=> Present(q)
    BY <1>0, <2>1, <2>3, <2>4 DEF Present
  <2>6. Tree'
    BY <2>5, ParentType DEF Tree
  <2> SUFFICES ASSUME phase = "open", NEW q \in Path, ~Excluded(q)
      PROVE  /\ q \in Dir /\ Present(q) => q \in watched \/ ToBeWalked(q)'
             /\ q \in File /\ Present(q) => seen[q] = now[q] \/ OnItsWay(q)' \/ ToBeWalked(q)'
             /\ q \in File /\ ~Present(q) => seen[q] = now[q] \/ OnItsWay(q)' \/ q \in vanished'
    BY <2>4, <2>5, <2>6 DEF Tracked, Excluded
  <2>7. CASE q = p
    <3>1. CASE Parent[p] \in watched
      BY <1>a, <2>1, <2>4, <2>7, <3>1 DEF OnItsWay
    <3>2. CASE Parent[p] \notin watched
      <4>1. Present(Parent[p]) /\ Under(q, p)
        BY <2>1, <2>7, LineageUpward DEF Tree, Under
      <4>2. ToBeWalked(q)
        BY <2>1, <3>2, <4>1, ParentComes
      <4> QED
        BY <1>a, <2>1, <2>4, <2>7, <4>2
    <3> QED
      BY <3>1, <3>2
  <2>8. CASE q # p
    <3>1. now[q] = disk[q] /\ (~Present(q) => now[q] = 0)
      BY <1>0, <2>3, <2>8
    <3> QED
      BY <2>4, <3>1 DEF Tracked
  <2> QED
    BY <2>7, <2>8
<1>3. ASSUME NEW p \in Path, Delete(p)
      PROVE  Tree' /\ Tracked'
  <2>1. p # Root /\ Present(p) /\ \A q \in Children(p) : ~Present(q)
    BY <1>3 DEF Delete
  <2> DEFINE now == [disk EXCEPT ![p] = 0]
  <2>2. Change("Remove", p, now, {p})
    BY <1>3 DEF Delete
  <2>3. \A q \in Path : /\ q = p => now[q] = 0
                        /\ q # p => now[q] = disk[q]
    BY DEF TypeOK
  <2> HIDE DEF now
  <2>4. /\ disk' = now /\ watched' = watched \ {p} /\ UNCHANGED <<failed, phase, seen>>
        /\ Parent[p] \in watched => p \in PathsIn(fsq')
        /\ \A a \in Path : ToBeWalked(a) => ToBeWalked(a)'
        /\ \A f \in File : OnItsWay(f) => OnItsWay(f)'
        /\ \A f \in File : f \in vanished' <=>
              now[f] = 0 /\ (f \in vanished \/ (Present(f) /\ (f # p \/ Parent[f] \notin watched)))
    BY <2>2, ChangeCarries
  <2>5. \A q \in Path : Present(q)' <=> q # p /\ Present(q)
    BY <1>0, <2>3, <2>4 DEF Present
  <2>6. Tree'
    BY <2>1, <2>5, ParentType DEF Tree, Children
  <2> SUFFICES ASSUME phase = "open", NEW q \in Path, ~Excluded(q)
      PROVE  /\ q \in Dir /\ Present(q)' => q \in watched' \/ ToBeWalked(q)'
             /\ q \in File /\ Present(q)' => seen[q] = now[q] \/ OnItsWay(q)' \/ ToBeWalked(q)'
             /\ q \in File /\ ~Present(q)' => seen[q] = now[q] \/ OnItsWay(q)' \/ q \in vanished'
    BY <2>4, <2>6 DEF Tracked, Excluded
  <2>7. CASE q = p
    BY <2>1, <2>3, <2>4, <2>5, <2>7 DEF OnItsWay
  <2>8. CASE q # p
    <3>1. now[q] = disk[q] /\ (Present(q)' <=> Present(q)) /\ (~Present(q) => now[q] = 0)
      BY <1>0, <2>3, <2>5, <2>8
    <3> QED
      BY <2>4, <2>8, <3>1 DEF Tracked
  <2> QED
    BY <2>7, <2>8
<1>4. ASSUME NEW d \in Dir, Move(d)
      PROVE  Tree' /\ Tracked'
  <2> DEFINE tree == {q \in Path : Under(q, d)}
             now == [q \in Path |-> IF q \in tree THEN 0 ELSE disk[q]]
  <2>1. d \in Path /\ Change("Rename", d, now, tree)
    BY <1>a, <1>4 DEF Move
  <2>2. \A q \in Path : /\ q \in tree => now[q] = 0
                        /\ q \notin tree => now[q] = disk[q]
    OBVIOUS
  <2>3. \A q \in Path \ {Root} : Parent[q] \in tree => q \in tree
    BY LineageParent DEF Under
  <2> HIDE DEF tree, now
  <2>4. /\ disk' = now /\ watched' = watched \ tree /\ UNCHANGED <<failed, phase, seen>>
        /\ \A a \in Path : ToBeWalked(a) => ToBeWalked(a)'
        /\ \A f \in File : OnItsWay(f) => OnItsWay(f)'
        /\ \A f \in File : f \in vanished' <=>
              now[f] = 0 /\ (f \in vanished \/ (Present(f) /\ (f # d \/ Parent[f] \notin watched)))
    BY <2>1, ChangeCarries
  <2>5. \A q \in Path : Present(q)' <=> q \notin tree /\ Present(q)
    BY <1>0, <2>2, <2>4 DEF Present
  <2>6. Tree'
    BY <2>3, <2>5, ParentType DEF Tree
  <2> SUFFICES ASSUME phase = "open", NEW q \in Path, ~Excluded(q)
      PROVE  /\ q \in Dir /\ Present(q)' => q \in watched' \/ ToBeWalked(q)'
             /\ q \in File /\ Present(q)' => seen[q] = now[q] \/ OnItsWay(q)' \/ ToBeWalked(q)'
             /\ q \in File /\ ~Present(q)' => seen[q] = now[q] \/ OnItsWay(q)' \/ q \in vanished'
    BY <2>4, <2>6 DEF Tracked, Excluded
  <2>7. CASE q \in tree
    <3>1. ~Present(q)' /\ now[q] = 0 /\ (q \in File => q # d) /\ (~Present(q) => disk[q] = 0)
      BY <1>0, <1>a, <2>2, <2>5, <2>7
    <3> QED
      BY <2>4, <3>1 DEF Tracked
  <2>8. CASE q \notin tree
    <3>1. now[q] = disk[q] /\ (Present(q)' <=> Present(q)) /\ (~Present(q) => now[q] = 0)
      BY <1>0, <2>2, <2>5, <2>8
    <3> QED
      BY <2>4, <2>8, <3>1 DEF Tracked
  <2> QED
    BY <2>7, <2>8
<1> QED
  BY <1>1, <1>2, <1>3, <1>4 DEF Disk

\* WatchDir has watched every directory, and the session has read every file.
LEMMA InitTracked == BridgeInit => Tree /\ Empty /\ Tracked
<1> SUFFICES ASSUME BridgeInit PROVE Tree /\ Empty /\ Tracked
  OBVIOUS
<1>1. \A p \in Path : Present(p) <=> p \in FirstFiles
  BY DEF BridgeInit, Init, Present
<1>2. Tree
  BY <1>1, ParentType, FileWatcherAssumption DEF Tree, Upward
<1>3. Empty
  BY DEF BridgeInit, Init, Idle, Empty
<1>4. \A p \in Path : ~Excluded(p) => p \notin Skipped
  BY LineageUpward DEF Excluded, Under
<1>5. /\ watched = (Dir \cap FirstFiles) \ Skipped
      /\ \A f \in File : seen[f] = disk[f]
  BY DEF BridgeInit, Init
<1> QED
  BY <1>1, <1>2, <1>3, <1>4, <1>5 DEF Tracked

\* The invariant is inductive: every step of every goroutine, and of the disk.
LEMMA StepTracked ==
  ASSUME BridgeTypeOK, Working, Tree, Empty, Tracked, [BridgeNext]_allVars
  PROVE  Tree' /\ Empty' /\ Tracked'
<1>0. TypeOK /\ proc \in Procs
  BY DEF BridgeTypeOK, TypeOK, Procs
<1>1. CASE Disk /\ UNCHANGED bridgeVars
  <2>1. UNCHANGED <<proc, notifier, work>>
    BY <1>1 DEF Disk, Make, Write, Delete, Move, Change, watchVars, bridgeVars
  <2> QED
    BY <1>0, <1>1, <2>1, DiskTracked DEF Empty
<1>2. CASE Receive /\ UNCHANGED bridgeVars
  <2>1. UNCHANGED <<disk, proc, notifier, work>>
    BY <1>2 DEF Receive, diskVars, bridgeVars
  <2> QED
    BY <1>0, <1>2, <2>1, RunTracked DEF Empty, Tree, Present
<1>3. CASE Handle
  <2>1. UNCHANGED <<disk, proc, notifier, work>>
    BY <1>3 DEF Handle, Flush, diskVars
  <2> QED
    BY <1>3, <2>1, HandleTracked DEF Empty, Tree, Present
<1>4. CASE Process /\ UNCHANGED bridgeVars
  <2>1. UNCHANGED <<disk, notifier, work>>
    BY <1>4 DEF Process, Take, ConvertNext, Lstat, Visit, ReadDir, AppendEvents, Done,
                ProcessStops, diskVars, bridgeVars
  <2>2. proc'.pc = "idle" => proc'.batch = <<>>
    <3>1. CASE Take
      BY <1>0, <3>1 DEF Take, Procs
    <3>2. CASE ConvertNext
      <4> DEFINE e == Convert(Head(proc.batch))  rest == Tail(proc.batch)
      <4>1. proc.pc = "next"
            /\ \/ proc' = [proc EXCEPT !.batch = rest]
               \/ proc' = [proc EXCEPT !.pc = "stat", !.batch = rest, !.event = e]
               \/ proc' = [proc EXCEPT !.pc = "append", !.batch = rest, !.event = e]
        BY <3>2 DEF ConvertNext
      <4> QED
        BY <1>0, <4>1 DEF Procs
    <3>3. CASE Lstat
      BY <1>0, <3>3 DEF Lstat, Procs
    <3>4. CASE Visit
      <4> DEFINE p == Head(proc.todo)  tail == Tail(proc.todo)
                 now == IF p = proc.event.path THEN proc.found
                        ELSE Append(proc.found, [type |-> "Created", path |-> p])
      <4>1. \/ proc' = [proc EXCEPT !.todo = tail, !.found = now]
            \/ proc' = [proc EXCEPT !.todo = tail, !.found = now, !.pc = "read", !.at = p]
        BY <3>4 DEF Visit
      <4> QED
        BY <1>0, <3>4, <4>1 DEF Visit, Procs
    <3>5. CASE ReadDir
      BY <1>0, <3>5 DEF ReadDir, Procs
    <3>6. CASE AppendEvents
      BY <3>6, IdleIsProc DEF AppendEvents, Procs
    <3>7. CASE Done
      BY <3>7 DEF Done, Idle
    <3>8. CASE ProcessStops
      BY <3>8 DEF ProcessStops, Empty
    <3> QED
      BY <1>4, <3>1, <3>2, <3>3, <3>4, <3>5, <3>6, <3>7, <3>8 DEF Process
  <2> QED
    BY <1>0, <1>4, <2>1, <2>2, ProcessTracked DEF Empty, Tree, Present
<1>5. CASE TakeEvents \/ Notify \/ NotifierReturns \/ StopNotifier
  <2>1. UNCHANGED <<disk, proc>>
    BY <1>5 DEF TakeEvents, Notify, NotifierReturns, StopNotifier, vars, diskVars, watchVars
  <2>2. notifier' # "notifying" => work' = <<>>
    BY <1>5 DEF TakeEvents, Notify, NotifierReturns, StopNotifier, Empty
  <2> QED
    BY <1>5, <2>1, <2>2, NotifierTracked DEF Empty, Tree, Present
<1>6. CASE Close /\ UNCHANGED bridgeVars
  <2>1. phase' # "open" /\ UNCHANGED <<disk, proc, notifier, work>>
    BY <1>6 DEF Close, CloseFsnotify, CloseStop, CloseWait, diskVars, watchVars, bridgeVars
  <2> QED
    BY <2>1 DEF Tracked, Empty, Tree, Present
<1>7. CASE RunStops /\ UNCHANGED bridgeVars
  <2>1. phase' # "open" /\ UNCHANGED <<disk, proc, notifier, work>>
    BY <1>7 DEF RunStops, diskVars, bridgeVars
  <2> QED
    BY <2>1 DEF Tracked, Empty, Tree, Present
<1>8. CASE UNCHANGED allVars
  <2>1. UNCHANGED <<disk, changes, vanished, watched, fsq, in, ready, out, knownDirs, proc, running,
                    failed, phase, queue, nonempty, notifier, work, stopped, seen>>
    BY <1>8 DEF allVars, vars, diskVars, watchVars, bridgeVars
  <2>2. Tree' /\ Empty'
    BY <2>1 DEF Tree, Empty, Present
  <2>3. /\ \A a \in Path : Ahead(a) => Ahead(a)'
        /\ \A f \in File : OnItsWay(f) => OnItsWay(f)'
    BY <2>1 DEF Ahead, Announces, OnItsWay, InHand
  <2> QED
    BY <2>1, <2>2, <2>3, OthersTracked
<1> QED
  BY <1>1, <1>2, <1>3, <1>4, <1>5, <1>6, <1>7, <1>8 DEF BridgeNext, BridgeClose

\* When everything is quiet nothing is on its way any more.
LEMMA TrackedReachesSession ==
  ASSUME BridgeTypeOK, Empty, Tracked
  PROVE  ChangesReachSession
<1> SUFFICES ASSUME Informed, NEW f \in File, ~Excluded(f)
    PROVE  seen[f] = disk[f] \/ f \in vanished
  BY DEF ChangesReachSession
<1>1. /\ phase = "open" /\ proc.pc = "idle" /\ proc.batch = <<>>
      /\ fsq = <<>> /\ in = <<>> /\ out = <<>> /\ queue = <<>> /\ work = <<>>
  BY DEF Informed, Quiet, Empty
<1>2. \A p \in Path : ~Ahead(p)
  BY <1>1 DEF Ahead, Announces, Members
<1>3. ~ToBeWalked(f) /\ ~OnItsWay(f)
  <2>1. f \in Path
    BY DEF Path
  <2>2. ~ToBeWalked(f)
    BY <1>2, <2>1, LineageUpward DEF ToBeWalked
  <2>3. ~OnItsWay(f)
    BY <1>1 DEF OnItsWay, InHand, PathsIn
  <2> QED
    BY <2>2, <2>3
<1> QED
  BY <1>1, <1>3 DEF Tracked, Path

\* Every change of a file that is not excluded reaches the session, unless the file vanished
\* unnoticed: whatever changes while directories are watched and walked, and although every
\* event is judged by what is on disk later (filewatcher.go:186-273, 334-392).
THEOREM NoChangeIsLost == BridgeSpec => []ChangesReachSession
<1> DEFINE IInv == BridgeTypeOK /\ Working /\ Tree /\ Empty /\ Tracked
<1>1. BridgeInit => IInv
  BY InitType, InitTracked
<1>2. IInv /\ [BridgeNext]_allVars => IInv'
  BY StepType, StepTracked
<1>3. IInv => ChangesReachSession
  BY TrackedReachesSession
<1> HIDE DEF IInv
<1> QED
  BY <1>1, <1>2, <1>3, PTL DEF BridgeSpec
=============================================================================
