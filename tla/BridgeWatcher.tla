---------------------------- MODULE BridgeWatcher ----------------------------
(***************************************************************************)
(* How gopls-mcp keeps its session up to date (mcpbridge/watcher and       *)
(* minimalServer of mcpbridge/pkg): the handler of the file watcher puts   *)
(* its batches into a queue, and a notifier goroutine passes them to       *)
(* Session.DidModifyFiles, which makes the session read the changed files  *)
(* anew.  Session models what that does to views and snapshots.            *)
(***************************************************************************)
EXTENDS FileWatcher

VARIABLES
    queue, nonempty,  \* the variables of watcher.New
    notifier,         \* the goroutine that notifies the server ...
    work,             \* ... and the events it has taken
    stopped,          \* stopCh is closed
    seen              \* for each file, what the session has of disk

bridgeVars == <<queue, nonempty, notifier, work, stopped, seen>>
allVars == <<vars, bridgeVars>>

BridgeTypeOK ==
    /\ TypeOK
    /\ queue \in Batch /\ nonempty \in BOOLEAN
    /\ notifier \in {"waiting", "notifying", "returned"} /\ work \in Batch
    /\ stopped \in BOOLEAN /\ seen \in [File -> 0..MaxChanges + 1]

BridgeInit ==
    /\ Init
    /\ queue = <<>> /\ nonempty = FALSE /\ notifier = "waiting" /\ work = <<>>
    /\ stopped = FALSE /\ seen = [f \in File |-> disk[f]]

\* The handler: queue the events, and wake the notifier.
Handle ==
    /\ Flush
    /\ queue' = queue \o out /\ nonempty' = TRUE
    /\ UNCHANGED <<notifier, work, stopped, seen>>

TakeEvents ==
    /\ notifier = "waiting" /\ nonempty
    /\ nonempty' = FALSE /\ work' = queue /\ queue' = <<>>
    /\ notifier' = IF queue = <<>> THEN "waiting" ELSE "notifying"
    /\ UNCHANGED <<vars, stopped, seen>>

\* DidChangeWatchedFiles: DidModifyFiles with the very paths of the events.
Notify ==
    /\ notifier = "notifying"
    /\ seen' = [f \in File |-> IF \E i \in DOMAIN work : work[i].path = f
                               THEN disk[f] ELSE seen[f]]
    /\ notifier' = "waiting" /\ work' = <<>>
    /\ UNCHANGED <<vars, queue, nonempty, stopped>>

NotifierReturns ==
    /\ notifier = "waiting" /\ stopped
    /\ notifier' = "returned"
    /\ UNCHANGED <<vars, queue, nonempty, work, stopped, seen>>

\* Watcher.Close: stop the notifier, then close the file watcher.
StopNotifier ==
    /\ ~stopped /\ stopped' = TRUE
    /\ UNCHANGED <<vars, queue, nonempty, notifier, work, seen>>
BridgeClose == StopNotifier \/ (stopped /\ Close /\ UNCHANGED bridgeVars)

BridgeNext ==
    \/ Disk /\ UNCHANGED bridgeVars
    \/ Receive /\ UNCHANGED bridgeVars
    \/ Handle
    \/ RunStops /\ UNCHANGED bridgeVars
    \/ Process /\ UNCHANGED bridgeVars
    \/ TakeEvents \/ Notify \/ NotifierReturns
    \/ BridgeClose

BridgeSpec == BridgeInit /\ [][BridgeNext]_allVars

\* The goroutines run, and the timer fires.  watcher.Add may block until run has
\* drained fsnotify (fsnotify/fsnotify#502).  Nobody need call Close, but Close runs.
ProcessUnblocked ==
    /\ proc.pc = "visit" /\ proc.todo # <<>> => fsq = <<>> \/ phase # "open"
    /\ Process /\ UNCHANGED bridgeVars
Fairness ==
    /\ WF_allVars(Receive /\ UNCHANGED bridgeVars) /\ WF_allVars(Handle)
    /\ WF_allVars(RunStops /\ UNCHANGED bridgeVars) /\ WF_allVars(ProcessUnblocked)
    /\ WF_allVars(TakeEvents) /\ WF_allVars(Notify)
    /\ WF_allVars(stopped /\ Close /\ UNCHANGED bridgeVars)
FairSpec == BridgeSpec /\ Fairness

-----------------------------------------------------------------------------
Informed == Quiet /\ ~stopped /\ notifier = "waiting" /\ queue = <<>>

\* "This keeps the gopls cache up-to-date when files are edited" (execute.go:212):
\* when everything is quiet the session has what is on disk ...
SessionFollowsDisk == Informed => \A f \in File : seen[f] = disk[f] \/ Excluded(f)

\* ... apart from the files that vanished with a directory.  No other change is lost,
\* although directories come and go while they are walked, and a path may be another
\* thing when its event is processed (filewatcher.go:186-273, 334-392).
ChangesReachSession == Informed =>
    \A f \in File : seen[f] = disk[f] \/ Excluded(f) \/ f \in vanished

\* Once Close has returned no batch is handed over and nothing is watched
\* (filewatcher.go:446-447).
NothingAfterClose == [][phase = "closed" => UNCHANGED <<out, watched>>]_allVars

\* The wake-up signals (two channels of capacity one) are never lost: changes that
\* have ended have all been handled in the end, or the watcher is closed; Close
\* returns whatever process is blocked in.
Settles == <>[](Informed \/ stopped)
CloseReturns == phase = "stopping" ~> phase = "closed"
=============================================================================
