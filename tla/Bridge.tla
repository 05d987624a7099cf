-------------------------------- MODULE Bridge --------------------------------
(***************************************************************************)
(* The gopls-mcp process in stdio mode (mcpbridge/pkg/execute.go): main    *)
(* makes the view of the working directory, gives back the snapshot it got *)
(* with it, serves tool calls while the file watcher reports edits, and    *)
(* returns when the client closes the connection or a signal arrives; its  *)
(* deferred calls run then.  The session itself is that of module Session; *)
(* nobody shuts it down.                                                   *)
(***************************************************************************)
EXTENDS Session

CONSTANT Watcher  \* the goroutine of watcher.New that notifies the server

ASSUME BridgeAssumption == Watcher \in Thread

VARIABLES main,   \* the program counter of Execute
          first   \* the snapshot that releaseView releases
bridgeVars == <<vars, main, first>>

MainStates == {"boot", "booted", "serve", "exit", "exited", "panicked"}

BridgeTypeOK == main \in MainStates /\ first \in Snap \union {NoSnap}

BridgeInit == Init /\ main = "boot" /\ first = NoSnap

\* session.NewView for the working directory; main now has releaseView.
Boot(d) ==
    /\ main = "boot"
    /\ \E v \in View, s \in Snap :
          /\ CreateView(v, s, d, 1)
          /\ views' = {v}
          /\ viewMap' = [viewMap EXCEPT ![FolderOf[d]] = v]
          /\ first' = s
    /\ main' = "booted"
    /\ UNCHANGED <<viewMu, down, edits, done, th>>

\* "Release the initial snapshot since we won't use it"
ReleaseFirstTwice ==                                          \* mutant
    /\ main = "booted" /\ main' = "serve"
    /\ snap' = [snap EXCEPT ![first].refs = @ - 2]
    /\ UNCHANGED <<sessionVars, wg, view, th, first>>
ReleaseFirst ==
    /\ main = "booted" /\ main' = "serve"
    /\ Decref(first)
    /\ UNCHANGED <<sessionVars, view, th, first>>

\* Tool calls and edits, while main waits for the server or a signal.
Serve ==
    /\ main = "serve"
    /\ \/ \E t \in Thread \ {Watcher} : ToolCall(t)
       \/ DidModifyFiles(Watcher)
    /\ UNCHANGED <<main, first>>

\* The select returns; the deferred fileWatcher.Close stops the watcher, ...
Exit ==
    /\ main = "serve" /\ main' = "exit"
    /\ UNCHANGED <<vars, first>>

\* ... and the deferred releaseView releases the same reference again: decref
\* panics if the count is not positive (snapshot.go:231).
DeferredRelease ==
    /\ main = "exit"
    /\ \/ /\ snap[first].refs > 0 /\ Decref(first)
          /\ main' = "exited"
       \/ /\ snap[first].refs = 0 /\ main' = "panicked"
          /\ UNCHANGED <<wg, snap>>
    /\ UNCHANGED <<sessionVars, view, th, first>>

\* Goroutines go on until the process ends.  A snapshot that main may still
\* release is not garbage, so its identity is not used again.
Goroutines ==
    /\ main \in {"booted", "serve", "exit"}
    /\ \/ \E t \in Thread : \/ Request(t) \/ Initialize(t) \/ Edit(t)
                            \/ UseLoaded(t) \/ CancelRequest(t)
       \/ \E v \in View : Load(v)
    /\ snap[first].refs = 0 => snap'[first].refs = 0
    /\ UNCHANGED <<main, first>>

BridgeNext == \/ \E d \in Def : Boot(d)
              \/ ReleaseFirst \/ Serve \/ Exit \/ DeferredRelease \/ Goroutines
BridgeSpec == BridgeInit /\ [][BridgeNext]_bridgeVars

-----------------------------------------------------------------------------
MainRef(s) == IF main = "booted" /\ s = first THEN 1 ELSE 0

\* As long as the process serves, the reference main got from NewView is given
\* back exactly once: no snapshot is destroyed under a tool call or leaked.
ServingRefsExact == main \in {"booted", "serve", "exit"} => \A s \in Snap :
    snap[s].refs = Cardinality(Users(s)) + ViewRef(s) + LoaderRef(s) + MainRef(s)

\* "Always exit cleanly" (execute.go:279).
ExitsCleanly == main # "panicked"
=============================================================================
